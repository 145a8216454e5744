------------------------ MODULE PaperAnalysis_proofs ------------------------
(***************************************************************************)
(* The guarantees of PaperAnalysis, proved for any papers, sources, runs   *)
(* and number of kills.                                                    *)
(***************************************************************************)
EXTENDS PaperAnalysis, TLAPS

\* A critic task, once written, names the canonical reader and its source.
TasksBound ==
  \A r \in Runs : task[r] # None =>
    /\ r \in ReadRuns => task[r].reader = None
    /\ r \in CritRuns =>
         /\ task[r].reader # None
         /\ canonical["reader"][task[r].paper] = task[r].reader
         /\ task[task[r].reader] # None
         /\ task[task[r].reader].source = task[r].source

\* A canonical record is that of a run of its kind, for its paper.
RecordsOwned ==
  \A k \in Kinds, p \in Papers : canonical[k][p] # None =>
    /\ canonical[k][p] \in (IF k = "reader" THEN ReadRuns ELSE CritRuns)
    /\ task[canonical[k][p]] # None
    /\ task[canonical[k][p]].paper = p

\* What accept-run of r has left behind where it stands.
RunsStaged ==
  \A r \in Runs :
    /\ pc[r] # "idle" => task[r] # None
    /\ pc[r] = "idle" => outcome[r] = None
    /\ outcome[r] # None => task[r] # None
    /\ pc[r] = "record" => outcome[r] # None
    /\ pc[r] = "record" /\ outcome[r] = "completed" => r \in CritRuns
    /\ pc[r] = "outcome" =>
         /\ outcome[r] = None
         /\ canonical[Kind(r)][task[r].paper] = r
         /\ r \in CritRuns => verdict[r] # None
    /\ outcome[r] = "completed" =>
         /\ canonical[Kind(r)][task[r].paper] = r
         /\ r \in CritRuns => verdict[r] # None

\* A positive state leaves no field of the chain out.
ChainNamed ==
  \A p \in Papers : state[p] # None =>
    (state[p].terminal # "failed" => state[p].critic # None /\ state[p].reader # None)

\* What prepare-reviewer has read is still so.
ViewHolds ==
  \A p \in Papers : view[p].next # "state" =>
    /\ state[p] # None
    /\ view[p].status = state[p].terminal
    /\ view[p].next # "reader" /\ view[p].status # "failed" => view[p].reader = state[p].reader
    /\ view[p].next = "read" /\ view[p].status # "failed" => view[p].critic = state[p].critic

IInv ==
  /\ TypeOK
  /\ TasksBound
  /\ RecordsOwned
  /\ RunsStaged
  /\ TerminalIsSupported
  /\ ChainNamed
  /\ ViewHolds
  /\ ReviewIsCurrent

\* No file that the commands have written is ever changed.
Kept ==
  /\ \A r \in Runs :
       /\ task[r] # None => task'[r] = task[r]
       /\ outcome[r] # None => outcome'[r] = outcome[r] /\ verdict'[r] = verdict[r]
  /\ \A k \in Kinds, p \in Papers : canonical[k][p] # None => canonical'[k][p] = canonical[k][p]
  /\ \A p \in Papers : state[p] # None => state'[p] = state[p]

-----------------------------------------------------------------------------
\* The record that a completed critic run leads to is a PaperStateRecord.
LEMMA StateTyped ==
  ASSUME IInv, NEW r \in Runs, outcome[r] # None, outcome[r] = "completed" => r \in CritRuns
  PROVE  StateOf(r) \in States
<1> USE NoneAssumption, RunAssumption
    DEF IInv, TypeOK, RunsStaged, TasksBound, Runs, Tasks, States, Terminal, StateOf, Failed
<1>1. task[r] # None /\ task[r] \in Tasks
  OBVIOUS
<1>2. CASE outcome[r] = "completed"
  BY <1>1, <1>2
<1>3. CASE outcome[r] # "completed"
  BY <1>1, <1>3
<1> QED BY <1>2, <1>3
-----------------------------------------------------------------------------
\* Every step keeps the types.
LEMMA TypeKeeps == IInv /\ [Next]_vars => TypeOK'
<1> USE NoneAssumption, RunAssumption, KillAssumption DEF TypeOK, chain, reviewing, Seen
<1> SUFFICES ASSUME IInv, [Next]_vars PROVE TypeOK'
  OBVIOUS
<1> USE DEF IInv
<1>1. ASSUME NEW r \in Runs, AcceptRun(r) PROVE TypeOK'
  <2>1. CASE Promote(r)
    BY <2>1 DEF Promote, Goto, Kinds, Kind, Tasks, Terminal
  <2>2. CASE SaveOutcome(r) BY <2>2 DEF SaveOutcome, Goto
  <2>3. CASE Reject(r) BY <2>3 DEF Reject, Goto
  <2>4. CASE RecordState(r)
    <3>1. StateOf(r) \in States
      BY <2>4, StateTyped DEF RecordState, RunsStaged
    <3> QED BY <2>4, <3>1 DEF RecordState, WriteOnce, Goto
  <2>5. CASE Kill(r) BY <2>5 DEF Kill, Goto
  <2> QED BY <1>1, <2>1, <2>2, <2>3, <2>4, <2>5 DEF AcceptRun
<1>2. ASSUME NEW r \in Runs, Sync(r) PROVE TypeOK'
  <2>1. StateOf(r) \in States
    BY <1>2, StateTyped DEF Sync
  <2> QED BY <1>2, <2>1 DEF Sync, WriteOnce
<1>3. ASSUME NEW r \in Runs, NEW p \in Papers, NEW s \in Sources, PrepareReader(r, p, s)
      PROVE  TypeOK'
  BY <1>3 DEF PrepareReader, Tasks
<1>4. ASSUME NEW r \in Runs, NEW p \in Papers, NEW s \in Sources, PrepareCritic(r, p, s)
      PROVE  TypeOK'
  BY <1>4 DEF PrepareCritic, Tasks, RecordsOwned, Kinds
<1>5. ASSUME NEW p \in Papers, MarkFailed(p) PROVE TypeOK'
  BY <1>5 DEF MarkFailed, WriteOnce, Failed, States, Terminal
<1>6. ASSUME NEW v \in ReviewRuns, StartReview(v) PROVE TypeOK'
  BY <1>6 DEF StartReview, Unread, Views, Looks
<1>7. ASSUME NEW p \in Papers, ReadState(p) PROVE TypeOK'
  BY <1>7 DEF ReadState, Views, Looks, States
<1>8. ASSUME NEW p \in Papers, ReadReader(p) PROVE TypeOK'
  BY <1>8 DEF ReadReader, Views, Looks, RecordsOwned, Kinds
<1>9. ASSUME NEW p \in Papers, ReadCritic(p) PROVE TypeOK'
  BY <1>9 DEF ReadCritic, Views, Looks, RecordsOwned, Kinds
<1>10. CASE WriteReviewTask
  BY <1>10 DEF WriteReviewTask, Unread, Views, Looks
<1>11. CASE EndReview
  BY <1>11 DEF EndReview, Unread, Views, Looks
<1>12. CASE UNCHANGED vars
  BY <1>12 DEF vars
<1> QED
  BY <1>1, <1>2, <1>3, <1>4, <1>5, <1>6, <1>7, <1>8, <1>9, <1>10, <1>11, <1>12 DEF Next
-----------------------------------------------------------------------------
\* Commands overlap and are killed and rerun, but no file changes once written.
LEMMA FilesKept == IInv /\ [Next]_vars => Kept
<1> USE NoneAssumption DEF Kept, chain, reviewing
<1> SUFFICES ASSUME IInv, [Next]_vars PROVE Kept
  OBVIOUS
<1> USE DEF IInv, TypeOK
<1>1. ASSUME NEW r \in Runs, AcceptRun(r) PROVE Kept
  <2>1. CASE Promote(r) BY <2>1 DEF Promote, Goto, RunsStaged, Kinds
  <2>2. CASE SaveOutcome(r) BY <2>2 DEF SaveOutcome, Goto, RunsStaged
  <2>3. CASE Reject(r) BY <2>3 DEF Reject, Goto
  <2>4. CASE RecordState(r) BY <2>4 DEF RecordState, WriteOnce, Goto
  <2>5. CASE Kill(r) BY <2>5 DEF Kill, Goto
  <2> QED BY <1>1, <2>1, <2>2, <2>3, <2>4, <2>5 DEF AcceptRun
<1>2. ASSUME NEW r \in Runs, Sync(r) PROVE Kept
  BY <1>2 DEF Sync, WriteOnce
<1>3. ASSUME NEW r \in Runs, NEW p \in Papers, NEW s \in Sources,
             PrepareReader(r, p, s) \/ PrepareCritic(r, p, s)
      PROVE  Kept
  BY <1>3 DEF PrepareReader, PrepareCritic
<1>4. ASSUME NEW p \in Papers, MarkFailed(p) PROVE Kept
  BY <1>4 DEF MarkFailed, WriteOnce
<1>5. CASE UNCHANGED chain
  BY <1>5
<1> QED
  BY <1>1, <1>2, <1>3, <1>4, <1>5
  DEF Next, vars, StartReview, ReadState, ReadReader, ReadCritic, WriteReviewTask, EndReview
-----------------------------------------------------------------------------
\* A task is written once, and critic tasks only on top of a canonical reader.
LEMMA TasksKeep == IInv /\ TypeOK' /\ Kept /\ [Next]_vars => TasksBound'
<1> USE NoneAssumption, RunAssumption DEF chain, reviewing, Runs, Kinds, Tasks
<1> SUFFICES ASSUME IInv, TypeOK', Kept, [Next]_vars PROVE TasksBound'
  OBVIOUS
<1> USE DEF IInv, TypeOK, TasksBound, RecordsOwned
<1>1. CASE UNCHANGED task
  BY <1>1 DEF Kept
<1>2. ASSUME NEW r \in Runs, NEW p \in Papers, NEW s \in Sources, PrepareReader(r, p, s)
      PROVE  TasksBound'
  BY <1>2 DEF PrepareReader
<1>3. ASSUME NEW r \in Runs, NEW p \in Papers, NEW s \in Sources, PrepareCritic(r, p, s)
      PROVE  TasksBound'
  BY <1>3 DEF PrepareCritic
<1> QED
  BY <1>1, <1>2, <1>3
  DEF Next, vars, AcceptRun, Promote, SaveOutcome, Reject, RecordState, Kill, Sync, MarkFailed,
      StartReview, ReadState, ReadReader, ReadCritic, WriteReviewTask, EndReview
-----------------------------------------------------------------------------
\* A canonical path is taken by the run that is being promoted, for its paper.
LEMMA RecordsKeep == IInv /\ TypeOK' /\ Kept /\ [Next]_vars => RecordsOwned'
<1> USE NoneAssumption, RunAssumption DEF chain, reviewing, Runs, Kinds, Tasks
<1> SUFFICES ASSUME IInv, TypeOK', Kept, [Next]_vars PROVE RecordsOwned'
  OBVIOUS
<1> USE DEF IInv, TypeOK, RecordsOwned
<1>1. CASE UNCHANGED canonical
  BY <1>1 DEF Kept
<1>2. ASSUME NEW r \in Runs, Promote(r) PROVE RecordsOwned'
  BY <1>2 DEF Promote, Kind, Goto
<1> QED
  BY <1>1, <1>2
  DEF Next, vars, AcceptRun, SaveOutcome, Reject, RecordState, Kill, Sync, MarkFailed,
      PrepareReader, PrepareCritic, StartReview, ReadState, ReadReader, ReadCritic,
      WriteReviewTask, EndReview
-----------------------------------------------------------------------------
\* Killed or rerun, accept-run leaves an outcome only on top of its promotion.
LEMMA StagesKeep == IInv /\ TypeOK' /\ Kept /\ [Next]_vars => RunsStaged'
<1> USE NoneAssumption, RunAssumption DEF chain, reviewing, Runs, Kinds, Kind, Terminal
<1> SUFFICES ASSUME IInv, TypeOK', Kept, [Next]_vars PROVE RunsStaged'
  OBVIOUS
<1> USE DEF IInv, TypeOK, RunsStaged
<1>1. ASSUME NEW r \in Runs, AcceptRun(r) PROVE RunsStaged'
  <2>1. CASE Promote(r) BY <2>1 DEF Promote, Goto, Tasks, Kept
  <2>2. CASE SaveOutcome(r) BY <2>2 DEF SaveOutcome, Goto
  <2>3. CASE Reject(r) BY <2>3 DEF Reject, Goto
  <2>4. CASE RecordState(r) BY <2>4 DEF RecordState, Goto
  <2>5. CASE Kill(r) BY <2>5 DEF Kill, Goto
  <2> QED BY <1>1, <2>1, <2>2, <2>3, <2>4, <2>5 DEF AcceptRun
<1>2. ASSUME NEW r \in Runs, NEW p \in Papers, NEW s \in Sources,
             PrepareReader(r, p, s) \/ PrepareCritic(r, p, s)
      PROVE  RunsStaged'
  BY <1>2 DEF PrepareReader, PrepareCritic
<1>3. CASE UNCHANGED <<task, pc, outcome, verdict, canonical>>
  BY <1>3
<1> QED
  BY <1>1, <1>2, <1>3
  DEF Next, vars, Sync, MarkFailed, StartReview, ReadState, ReadReader, ReadCritic,
      WriteReviewTask, EndReview
-----------------------------------------------------------------------------
\* The record of a completed critic run names the canonical chain.
LEMMA StateSupported ==
  ASSUME IInv, NEW r \in Runs, outcome[r] = "completed", r \in CritRuns
  PROVE  LET p == task[r].paper IN
           /\ p \in Papers
           /\ canonical["critic"][p] = r
           /\ canonical["reader"][p] = task[r].reader
           /\ task[r].source = task[task[r].reader].source
<1> QED
  BY NoneAssumption, RunAssumption
  DEF IInv, TypeOK, RunsStaged, TasksBound, Runs, Tasks, Kind

\* A terminal state is derived from a settled run, and what it names is settled.
LEMMA SupportKeeps ==
  IInv /\ TypeOK' /\ Kept /\ [Next]_vars => TerminalIsSupported' /\ ChainNamed'
<1> USE NoneAssumption, RunAssumption DEF Runs, Kinds
<1> SUFFICES ASSUME IInv, TypeOK', Kept, [Next]_vars, NEW p \in Papers, state'[p] # None
             PROVE  /\ Supported(p)'
                    /\ state'[p].terminal # "failed" =>
                         state'[p].critic # None /\ state'[p].reader # None
  BY DEF TerminalIsSupported, ChainNamed
<1> USE DEF IInv
<1>1. CASE state'[p] = state[p]
  <2>1. state[p] # None /\ state[p] \in States /\ Supported(p)
    BY <1>1 DEF TerminalIsSupported, TypeOK
  <2>2. CASE state[p].terminal = "failed"
    BY <1>1, <2>1, <2>2 DEF Supported, Kept, States
  <2>3. CASE state[p].terminal # "failed"
    <3>1. state[p].critic \in CritRuns /\ state[p].reader \in ReadRuns
      BY <2>1, <2>3 DEF ChainNamed, States
    <3>2. task[state[p].reader] # None
      BY <2>1, <2>3, <3>1 DEF Supported, RecordsOwned
    <3> QED BY <1>1, <2>1, <2>3, <3>1, <3>2 DEF Supported, Kept
  <2> QED BY <2>2, <2>3
<1>2. ASSUME NEW r \in Runs, outcome[r] # None, outcome[r] = "completed" => r \in CritRuns,
             task[r].paper = p, state'[p] = StateOf(r),
             UNCHANGED <<task, outcome, verdict, canonical>>
      PROVE  /\ Supported(p)'
             /\ state'[p].terminal # "failed" =>
                  state'[p].critic # None /\ state'[p].reader # None
  <2>1. CASE outcome[r] = "completed"
    <3>1. /\ canonical["critic"][p] = r
          /\ canonical["reader"][p] = task[r].reader
          /\ task[r].source = task[task[r].reader].source
      BY <1>2, <2>1, StateSupported
    <3>2. verdict[r] \in {"complete", "analysis_unresolved"}
      BY <1>2, <2>1 DEF RunsStaged, TypeOK
    <3>3. task[r] # None /\ task[r].reader # None
      BY <1>2, <2>1 DEF RunsStaged, TasksBound
    <3> QED BY <1>2, <2>1, <3>1, <3>2, <3>3 DEF StateOf, Supported
  <2>2. CASE outcome[r] # "completed"
    <3>1. outcome[r] \in {"invalid", "failed"}
      BY <1>2, <2>2 DEF TypeOK
    <3> QED BY <1>2, <2>2, <3>1 DEF StateOf, Failed, Supported
  <2> QED BY <2>1, <2>2
<1>3. CASE state'[p] = Failed(None)
  BY <1>3 DEF Failed, Supported
<1>4. CASE UNCHANGED state
  BY <1>1, <1>4
<1>5. ASSUME NEW r \in Runs, AcceptRun(r) PROVE state'[p] = state[p] \/ UNCHANGED state \/
        /\ outcome[r] # None
        /\ outcome[r] = "completed" => r \in CritRuns
        /\ task[r].paper = p
        /\ state'[p] = StateOf(r)
        /\ UNCHANGED <<task, outcome, verdict, canonical>>
  BY <1>5
  DEF AcceptRun, Promote, SaveOutcome, Reject, RecordState, Kill, WriteOnce, RunsStaged, TypeOK
<1>6. ASSUME NEW r \in Runs, Sync(r) PROVE state'[p] = state[p] \/
        /\ outcome[r] = "completed"
        /\ r \in CritRuns
        /\ task[r].paper = p
        /\ state'[p] = StateOf(r)
        /\ UNCHANGED <<task, outcome, verdict, canonical>>
  BY <1>6 DEF Sync, WriteOnce, TypeOK
<1>7. ASSUME NEW q \in Papers, MarkFailed(q)
      PROVE  state'[p] = state[p] \/ state'[p] = Failed(None)
  BY <1>7 DEF MarkFailed, WriteOnce, TypeOK
<1>8. (\E r \in Runs : AcceptRun(r) \/ Sync(r)) \/ (\E q \in Papers : MarkFailed(q))
        \/ UNCHANGED state
  BY DEF Next, vars, chain, PrepareReader, PrepareCritic, StartReview, ReadState, ReadReader,
         ReadCritic, WriteReviewTask, EndReview
<1>9. ASSUME NEW r \in Runs, AcceptRun(r) \/ Sync(r)
      PROVE  /\ Supported(p)'
             /\ state'[p].terminal # "failed" =>
                  state'[p].critic # None /\ state'[p].reader # None
  BY <1>1, <1>2, <1>4, <1>5, <1>6, <1>9
<1> QED BY <1>1, <1>3, <1>4, <1>7, <1>8, <1>9
-----------------------------------------------------------------------------
\* What prepare-reviewer has read stays true while it reads on, whoever writes.
LEMMA ViewKeeps == IInv /\ TypeOK' /\ Kept /\ [Next]_vars => ViewHolds'
<1> USE NoneAssumption DEF chain, reviewing, Kinds, Seen
<1> SUFFICES ASSUME IInv, TypeOK', Kept, [Next]_vars PROVE ViewHolds'
  OBVIOUS
<1> USE DEF IInv, TypeOK, ViewHolds, Kept
<1>1. CASE UNCHANGED view
  BY <1>1
<1>2. CASE view' = [p \in Papers |-> Unread]
  BY <1>2 DEF Unread
<1>3. ASSUME NEW p \in Papers, ReadState(p) PROVE ViewHolds'
  BY <1>3 DEF ReadState
<1>4. ASSUME NEW p \in Papers, ReadReader(p) PROVE ViewHolds'
  BY <1>4 DEF ReadReader, TerminalIsSupported, Supported
<1>5. ASSUME NEW p \in Papers, ReadCritic(p) PROVE ViewHolds'
  BY <1>5 DEF ReadCritic, TerminalIsSupported, Supported
<1> QED
  BY <1>1, <1>2, <1>3, <1>4, <1>5
  DEF Next, vars, AcceptRun, Promote, SaveOutcome, Reject, RecordState, Kill, Sync, MarkFailed,
      PrepareReader, PrepareCritic, StartReview, WriteReviewTask, EndReview
-----------------------------------------------------------------------------
\* A reviewer task is written from a view that holds, of states that stay.
LEMMA ReviewKeeps == IInv /\ TypeOK' /\ Kept /\ [Next]_vars => ReviewIsCurrent'
<1> USE NoneAssumption DEF chain, reviewing
<1> SUFFICES ASSUME IInv, TypeOK', Kept, [Next]_vars PROVE ReviewIsCurrent'
  OBVIOUS
<1> USE DEF IInv, TypeOK, ReviewIsCurrent, Kept
<1>1. CASE UNCHANGED rtask
  BY <1>1
<1>2. CASE WriteReviewTask
  BY <1>2 DEF WriteReviewTask, ViewHolds
<1> QED
  BY <1>1, <1>2
  DEF Next, vars, AcceptRun, Promote, SaveOutcome, Reject, RecordState, Kill, Sync, MarkFailed,
      PrepareReader, PrepareCritic, StartReview, ReadState, ReadReader, ReadCritic, EndReview
-----------------------------------------------------------------------------
\* With nothing written, everything holds.
LEMMA InitIInv == Init => IInv
<1> USE NoneAssumption, RunAssumption
<1> SUFFICES ASSUME Init PROVE IInv
  OBVIOUS
<1>1. TypeOK
  BY DEF Init, TypeOK, Unread, Seen, Views, Looks
<1>2. TasksBound /\ RecordsOwned /\ RunsStaged
  BY DEF Init, TasksBound, RecordsOwned, RunsStaged
<1>3. TerminalIsSupported /\ ChainNamed /\ ViewHolds /\ ReviewIsCurrent
  BY DEF Init, TerminalIsSupported, ChainNamed, ViewHolds, ReviewIsCurrent, Unread, Seen
<1> QED BY <1>1, <1>2, <1>3 DEF IInv

LEMMA Inductive == Spec => []IInv
<1>1. ASSUME IInv, [Next]_vars PROVE IInv'
  BY <1>1, TypeKeeps, FilesKept, TasksKeep, RecordsKeep, StagesKeep, SupportKeeps, ViewKeeps,
     ReviewKeeps
  DEF IInv
<1> QED BY InitIInv, <1>1, PTL DEF Spec
-----------------------------------------------------------------------------
\* Tasks, outcomes, records and paper states are written once, although accept-run
\* is killed and repeated, and several runs make for one path.
THEOREM WrittenOnce == Spec => [][Kept]_vars
<1>1. IInv /\ [Next]_vars => [Kept]_vars
  BY FilesKept
<1> QED BY Inductive, <1>1, PTL DEF Spec

\* Every file of the analysis chain holds a record of its contract.
THEOREM TypeCorrect == Spec => []TypeOK
<1>1. IInv => TypeOK
  BY DEF IInv
<1> QED BY Inductive, <1>1, PTL

\* However runs for one paper overlap, its canonical critique is one of its
\* canonical reader record, on the same source.
THEOREM OneChain == Spec => []ChainAgrees
<1>1. IInv => ChainAgrees
  BY NoneAssumption, RunAssumption
  DEF IInv, TypeOK, RecordsOwned, TasksBound, ChainAgrees, Kinds, Runs, Tasks
<1> QED BY Inductive, <1>1, PTL

\* A terminal state is never claimed without the run that justifies it.
THEOREM SupportedStates == Spec => []TerminalIsSupported
<1>1. IInv => TerminalIsSupported
  BY DEF IInv
<1> QED BY Inductive, <1>1, PTL

\* The barrier before the review holds although nothing is locked: what the
\* reviewer is given is what the paper states say, then and ever after.
THEOREM CurrentReviews == Spec => []ReviewIsCurrent
<1>1. IInv => ReviewIsCurrent
  BY DEF IInv
<1> QED BY Inductive, <1>1, PTL
-----------------------------------------------------------------------------
(***************************************************************************)
(* The analysis as the rest of the investigation sees it                   *)
(***************************************************************************)

\* A canonical record was promoted by an accept-run, with the verdict of a critique.
Promoted ==
  \A k \in Kinds, p \in Papers : canonical[k][p] # None =>
    /\ pc[canonical[k][p]] # "idle"
    /\ k = "critic" => verdict[canonical[k][p]] # None

\* Between two prepare-reviewer commands nothing of what they have read is left.
NothingRead == preparing = None => \A p \in Papers : view[p].next = "state"

SimInv == IInv /\ Promoted /\ NothingRead

LEMMA PromotedKeeps == IInv /\ Promoted /\ TypeOK' /\ [Next]_vars => Promoted'
<1> USE NoneAssumption, RunAssumption DEF chain, reviewing, Kinds
<1> SUFFICES ASSUME IInv, Promoted, TypeOK', [Next]_vars PROVE Promoted'
  OBVIOUS
<1> USE DEF IInv, TypeOK, Promoted, RecordsOwned
<1>1. ASSUME NEW r \in Runs, AcceptRun(r) PROVE Promoted'
  <2>1. ASSUME Promote(r), NEW k \in Kinds, NEW p \in Papers, canonical'[k][p] # None
        PROVE  /\ pc'[canonical'[k][p]] # "idle"
               /\ k = "critic" => verdict'[canonical'[k][p]] # None
    <3>1. pc'[r] # "idle"
      BY <2>1 DEF Promote, Goto
    <3>2. \A q \in Runs : q # r => pc'[q] = pc[q] /\ verdict'[q] = verdict[q]
      <4>1. (\E step : Goto(r, step)) /\ (UNCHANGED verdict \/ \E v : verdict' = [verdict EXCEPT ![r] = v])
        BY ONLY <2>1 DEF Promote
      <4> QED BY ONLY <4>1, TypeOK DEF Goto, TypeOK
    <3>3. CASE canonical'[k][p] = canonical[k][p]
      <4>1. canonical[k][p] \in Runs /\ canonical[k][p] # r
        BY <2>1, <3>3 DEF Promote, Runs
      <4> QED BY <2>1, <3>2, <3>3, <4>1
    <3>4. CASE canonical'[k][p] # canonical[k][p]
      <4>1. k = Kind(r) /\ canonical'[k][p] = r
        BY <2>1, <3>4 DEF Promote, Kind
      <4>2. k = "critic" => r \in CritRuns
        BY <4>1 DEF Kind, Runs
      <4>3. r \in CritRuns => verdict'[r] # None
        BY <2>1, <3>4 DEF Promote, Terminal
      <4> QED BY <3>1, <4>1, <4>2, <4>3
    <3> QED BY <3>3, <3>4
  <2>2. CASE SaveOutcome(r) BY <2>2 DEF SaveOutcome, Goto
  <2>3. CASE Reject(r) BY <2>3 DEF Reject, Goto
  <2>4. CASE RecordState(r) BY <2>4 DEF RecordState, Goto
  <2>5. CASE Kill(r) BY <2>5 DEF Kill, Goto
  <2> QED BY <1>1, <2>1, <2>2, <2>3, <2>4, <2>5 DEF AcceptRun
<1>2. CASE UNCHANGED <<pc, verdict, canonical>>
  BY <1>2
<1> QED
  BY <1>1, <1>2
  DEF Next, vars, Sync, MarkFailed, PrepareReader, PrepareCritic, StartReview, ReadState,
      ReadReader, ReadCritic, WriteReviewTask, EndReview

LEMMA NothingReadKeeps == IInv /\ NothingRead /\ [Next]_vars => NothingRead'
<1> USE NoneAssumption DEF chain, reviewing, Seen
<1> SUFFICES ASSUME IInv, NothingRead, [Next]_vars PROVE NothingRead'
  OBVIOUS
<1> USE DEF IInv, TypeOK, NothingRead
<1>1. CASE UNCHANGED <<preparing, view>>
  BY <1>1
<1>2. CASE view' = [p \in Papers |-> Unread]
  BY <1>2 DEF Unread
<1>3. ASSUME NEW p \in Papers, ReadState(p) \/ ReadReader(p) \/ ReadCritic(p) PROVE NothingRead'
  BY <1>3 DEF ReadState, ReadReader, ReadCritic
<1> QED
  BY <1>1, <1>2, <1>3
  DEF Next, vars, AcceptRun, Promote, SaveOutcome, Reject, RecordState, Kill, Sync, MarkFailed,
      PrepareReader, PrepareCritic, StartReview, WriteReviewTask, EndReview

LEMMA Simulating == Spec => []SimInv
<1>1. Init => Promoted /\ NothingRead
  BY DEF Init, Promoted, NothingRead, Unread, Seen
<1>2. ASSUME SimInv, [Next]_vars PROVE SimInv'
  BY <1>2, TypeKeeps, FilesKept, TasksKeep, RecordsKeep, StagesKeep, SupportKeeps, ViewKeeps,
     ReviewKeeps, PromotedKeeps, NothingReadKeeps
  DEF SimInv, IInv
<1> QED BY InitIInv, <1>1, <1>2, PTL DEF Spec, SimInv

\* What ReviewGate is shown of the analysis.
ShownReaders == {p \in Papers : canonical["reader"][p] # None}
ShownCritiques == [p \in Papers |-> Critique(p)]
ShownStates == [p \in Papers |-> IF state[p] = None THEN None ELSE state[p].terminal]
ShownLooks == {p \in Papers : Finished(view[p])}
ShownTasks == [v \in ReviewRuns |-> Snapshot(v)]

LEMMA Stutters ==
  ASSUME UNCHANGED <<ShownReaders, ShownCritiques, ShownStates, preparing, ShownLooks, ShownTasks>>
  PROVE  UNCHANGED Gate!vars
BY DEF Gate!vars, ShownReaders, ShownCritiques, ShownStates, ShownLooks, ShownTasks

\* A canonical critique is what its run said, and stays that.
LEMMA CritiqueOf ==
  ASSUME SimInv, NEW p \in Papers
  PROVE  /\ canonical["critic"][p] = None => Critique(p) = None
         /\ canonical["critic"][p] # None =>
              /\ canonical["critic"][p] \in CritRuns
              /\ Critique(p) # None
              /\ Critique(p).status = verdict[canonical["critic"][p]]
              /\ Critique(p) \in Gate!Critiques
<1> USE NoneAssumption DEF SimInv, IInv, TypeOK, Promoted, RecordsOwned, Kinds, Critique
<1>1. canonical["critic"][p] # None =>
        /\ canonical["critic"][p] \in CritRuns
        /\ verdict[canonical["critic"][p]] \in {"complete", "analysis_unresolved"}
  BY DEF Runs
<1>2. [c \in {} |-> 0] \in [{} -> {}]
  OBVIOUS
<1>3. ASSUME canonical["critic"][p] # None
      PROVE  Critique(p) \in Gate!Critiques
  BY <1>1, <1>2, <1>3 DEF Gate!Critiques, Gate!Assessments
<1> QED
  BY <1>1, <1>3, ShownAssumption

\* The steps of ReviewGate, in terms of what it is shown.
LEMMA ShownRead ==
  ASSUME NEW p \in Papers, ShownReaders' = ShownReaders \union {p},
         UNCHANGED <<ShownCritiques, ShownStates, preparing, ShownLooks, ShownTasks>>
  PROVE  Gate!Next
<1>1. Gate!Included(p)
  BY ShownAssumption DEF Gate!Included, Gate!Corpora, Gate!Memberships
<1>2. Gate!Read(p)
  BY <1>1
  DEF Gate!Read, Gate!ranks, Gate!reviewing, Gate!rendering, ShownReaders, ShownCritiques,
      ShownStates, ShownLooks, ShownTasks
<1> QED BY <1>2 DEF Gate!Next

LEMMA ShownCriticise ==
  ASSUME NEW p \in Papers, NEW c \in Gate!Critiques, p \in ShownReaders, ShownCritiques[p] = None,
         ShownCritiques' = [ShownCritiques EXCEPT ![p] = c],
         UNCHANGED <<ShownReaders, ShownStates, preparing, ShownLooks, ShownTasks>>
  PROVE  Gate!Next
<1>1. Gate!Criticise(p)
  BY DEF Gate!Criticise, Gate!ranks, Gate!reviewing, Gate!rendering, ShownReaders, ShownCritiques,
      ShownStates, ShownLooks, ShownTasks
<1> QED BY <1>1 DEF Gate!Next

LEMMA ShownConclude ==
  ASSUME NEW p \in Papers, ShownStates[p] = None, NEW s,
         s = "failed" \/ (ShownCritiques[p] # None /\ s = ShownCritiques[p].status),
         ShownStates' = [ShownStates EXCEPT ![p] = s],
         UNCHANGED <<ShownReaders, ShownCritiques, preparing, ShownLooks, ShownTasks>>
  PROVE  Gate!Next
<1>1. Gate!Included(p)
  BY ShownAssumption DEF Gate!Included, Gate!Corpora, Gate!Memberships
<1>2. Gate!Conclude(p)
  BY <1>1
  DEF Gate!Conclude, Gate!Criticised, Gate!ranks, Gate!reviewing, Gate!rendering, ShownReaders,
      ShownCritiques, ShownStates, ShownLooks, ShownTasks
<1> QED BY <1>2 DEF Gate!Next

LEMMA ShownReadPaper ==
  ASSUME NEW p \in Papers, preparing # None, p \notin ShownLooks, ShownStates[p] # None,
         (ShownStates[p] = "failed") = (ShownCritiques[p] = None),
         ShownLooks' = ShownLooks \union {p},
         UNCHANGED <<ShownReaders, ShownCritiques, ShownStates, preparing, ShownTasks>>
  PROVE  Gate!Next
<1>1. Gate!Included(p)
  BY ShownAssumption DEF Gate!Included, Gate!Corpora, Gate!Memberships
<1>2. Gate!ReadPaper(p)
  BY <1>1
  DEF Gate!ReadPaper, Gate!Concluded, Gate!Criticised, Gate!files, Gate!ranks, Gate!rendering,
      ShownReaders, ShownCritiques, ShownStates, ShownLooks, ShownTasks
<1> QED BY <1>2 DEF Gate!Next

LEMMA ShownStart ==
  ASSUME NEW v \in ReviewRuns, preparing = None, ShownTasks[v] = None, preparing' = v,
         UNCHANGED <<ShownReaders, ShownCritiques, ShownStates, ShownLooks, ShownTasks>>
  PROVE  Gate!Next
<1>1. [p \in Papers |-> "included"] # None
  BY ShownAssumption DEF Gate!Corpora, Gate!Memberships
<1>2. Gate!StartReview(v)
  BY <1>1
  DEF Gate!StartReview, Gate!files, Gate!ranks, Gate!rendering, ShownReaders, ShownCritiques,
      ShownStates, ShownLooks, ShownTasks
<1> QED BY <1>2 DEF Gate!Next

LEMMA ShownWrite ==
  ASSUME preparing # None, Papers \subseteq ShownLooks,
         ShownTasks' = [ShownTasks EXCEPT ![preparing] = [papers |-> ShownStates, ranked |-> None]],
         preparing' = None, ShownLooks' = {},
         UNCHANGED <<ShownReaders, ShownCritiques, ShownStates>>
  PROVE  Gate!Next
<1>1. Gate!WriteTask
  BY DEF Gate!WriteTask, Gate!files, Gate!ranks, Gate!rendering, ShownReaders, ShownCritiques,
      ShownStates, ShownLooks, ShownTasks
<1> QED BY <1>1 DEF Gate!Next

LEMMA ShownEnd ==
  ASSUME preparing # None, preparing' = None, ShownLooks' = {},
         UNCHANGED <<ShownReaders, ShownCritiques, ShownStates, ShownTasks>>
  PROVE  Gate!Next
<1>1. Gate!EndReview
  BY DEF Gate!EndReview, Gate!files, Gate!ranks, Gate!rendering, ShownReaders, ShownCritiques,
      ShownStates, ShownLooks, ShownTasks
<1> QED BY <1>1 DEF Gate!Next
-----------------------------------------------------------------------------
\* Promotion of a reader record is Read, that of a critique is Criticise.
LEMMA PromoteShows ==
  ASSUME SimInv, Kept, NEW r \in Runs, Promote(r)
  PROVE  [Gate!Next]_Gate!vars
<1> USE NoneAssumption, RunAssumption DEF SimInv, IInv, TypeOK
<1>1. PICK p \in Papers, k \in Kinds : p = task[r].paper /\ k = Kind(r)
  BY DEF Promote, Tasks, Kind, Kinds
<1>2. UNCHANGED <<ShownStates, preparing, ShownLooks, ShownTasks>>
  BY DEF Promote, chain, reviewing, ShownStates, ShownLooks, ShownTasks, Snapshot
<1>3. CASE canonical[k][p] \notin {None, r}
  <2>1. UNCHANGED <<canonical, verdict>>
    BY <1>1, <1>3 DEF Promote
  <2>2. UNCHANGED <<ShownReaders, ShownCritiques>>
    BY <2>1 DEF ShownReaders, ShownCritiques, Critique
  <2> QED BY <1>2, <2>2, Stutters
<1>4. CASE canonical[k][p] \in {None, r}
  <2>1. canonical[k][p] = None
    BY <1>1, <1>4 DEF Promote, Promoted
  <2>2. canonical' = [canonical EXCEPT ![k][p] = r] /\ pc[r] = "idle" /\ task[r] # None
    BY <1>1, <1>4 DEF Promote
  <2>3. \A q \in Runs : q # r => verdict'[q] = verdict[q]
    BY <1>1, <1>4 DEF Promote
  <2>4. \A q \in Papers : canonical["critic"][q] # None =>
          /\ canonical'["critic"][q] = canonical["critic"][q]
          /\ verdict'[canonical["critic"][q]] = verdict[canonical["critic"][q]]
    BY <2>2, <2>3 DEF Promoted, Kinds, Kept
  <2>5. CASE r \in ReadRuns
    <3>1. canonical' = [canonical EXCEPT !["reader"][p] = r]
      BY <1>1, <2>2, <2>5 DEF Kind
    <3>2. \A q \in Papers : canonical'["critic"][q] = canonical["critic"][q]
      BY <3>1 DEF Kinds
    <3>3. ShownCritiques' = ShownCritiques
      BY <2>4, <3>2 DEF ShownCritiques, Critique
    <3>4. ShownReaders' = ShownReaders \union {p}
      BY <1>1, <3>1 DEF ShownReaders, Kinds
    <3> QED BY <1>2, <3>3, <3>4, ShownRead
  <2>6. CASE r \in CritRuns
    <3>1. canonical' = [canonical EXCEPT !["critic"][p] = r] /\ k = "critic"
      BY <1>1, <2>2, <2>6 DEF Kind
    <3>2. ShownReaders' = ShownReaders
      BY <3>1 DEF ShownReaders, Kinds
    <3>3. p \in ShownReaders
      BY <1>1, <2>2, <2>6 DEF TasksBound, ShownReaders
    <3>4. ShownCritiques[p] = None
      BY <1>1, <2>1, <3>1, CritiqueOf DEF ShownCritiques
    <3>5. Critique(p)' \in Gate!Critiques
      <4>1. verdict'[r] \in {"complete", "analysis_unresolved"}
        BY <1>1, <1>4, <2>6 DEF Promote
      <4>2. canonical'["critic"][p] = r /\ r # None
        BY <3>1 DEF Kinds, Runs
      <4>3. [c \in {} |-> 0] \in [{} -> {}]
        OBVIOUS
      <4> QED BY <4>1, <4>2, <4>3 DEF Critique, Gate!Critiques, Gate!Assessments
    <3>6. \A q \in Papers : q # p => Critique(q)' = Critique(q)
      BY <2>4, <3>1 DEF Critique, Kinds
    <3>7. PICK c \in Gate!Critiques : c = Critique(p)'
      BY <3>5
    <3>8. ShownCritiques' = [ShownCritiques EXCEPT ![p] = c]
      BY <3>6, <3>7 DEF ShownCritiques
    <3> QED BY <1>2, <3>2, <3>3, <3>4, <3>8, ShownCriticise
  <2> QED BY <2>5, <2>6 DEF Runs
<1> QED BY <1>3, <1>4

\* A state that is derived from a run's end is that of Conclude.
LEMMA StateShows ==
  ASSUME SimInv, NEW p \in Papers, NEW s \in States, WriteOnce(p, s),
         s.terminal # "failed" => /\ canonical["critic"][p] # None
                                  /\ s.terminal = verdict[canonical["critic"][p]],
         UNCHANGED <<verdict, canonical, reviewing>>
  PROVE  [Gate!Next]_Gate!vars
<1> USE NoneAssumption DEF SimInv, IInv, TypeOK
<1>1. UNCHANGED <<ShownReaders, ShownCritiques, preparing, ShownLooks, ShownTasks>>
  BY DEF reviewing, ShownReaders, ShownCritiques, Critique, ShownLooks, ShownTasks, Snapshot
<1>2. CASE state[p] # None
  <2>1. ShownStates' = ShownStates
    BY <1>2 DEF WriteOnce, ShownStates
  <2> QED BY <1>1, <2>1, Stutters
<1>3. CASE state[p] = None
  <2>1. ShownStates[p] = None /\ s # None
    BY <1>3 DEF ShownStates
  <2>2. ShownStates' = [ShownStates EXCEPT ![p] = s.terminal]
    BY <1>3, <2>1 DEF WriteOnce, ShownStates
  <2>3. s.terminal # "failed" => ShownCritiques[p] # None /\ s.terminal = ShownCritiques[p].status
    BY CritiqueOf DEF ShownCritiques
  <2> QED BY <1>1, <2>1, <2>2, <2>3, ShownConclude
<1> QED BY <1>2, <1>3

LEMMA RunShows ==
  ASSUME SimInv, NEW r \in Runs, outcome[r] # None, outcome[r] = "completed" => r \in CritRuns,
         WriteOnce(task[r].paper, StateOf(r)), UNCHANGED <<verdict, canonical, reviewing>>
  PROVE  [Gate!Next]_Gate!vars
<1>1. StateOf(r) \in States
  BY StateTyped DEF SimInv
<1>2. task[r].paper \in Papers
  BY NoneAssumption DEF SimInv, IInv, RunsStaged, TypeOK, Tasks
<1>3. StateOf(r).terminal # "failed" =>
        /\ canonical["critic"][task[r].paper] # None
        /\ StateOf(r).terminal = verdict[canonical["critic"][task[r].paper]]
  BY StateSupported, NoneAssumption DEF SimInv, StateOf, Failed, Runs
<1> QED BY <1>1, <1>2, <1>3, StateShows

\* prepare-reviewer: only the last file of a paper shows that it has been read.
LEMMA ReadsShow ==
  ASSUME SimInv, NEW p \in Papers, ReadState(p) \/ ReadReader(p) \/ ReadCritic(p)
  PROVE  [Gate!Next]_Gate!vars
<1> USE NoneAssumption DEF SimInv, IInv, TypeOK
<1>1. UNCHANGED <<ShownReaders, ShownCritiques, ShownStates, preparing, ShownTasks>>
  BY DEF ReadState, ReadReader, ReadCritic, chain, ShownReaders, ShownCritiques, Critique,
         ShownStates, ShownTasks, Snapshot
<1>2. CASE ReadState(p) \/ ReadReader(p)
  <2>1. ShownLooks' = ShownLooks
    BY <1>2 DEF ReadState, ReadReader, Seen, ShownLooks, Finished
  <2> QED BY <1>1, <2>1, Stutters
<1>3. CASE ReadCritic(p)
  <2>1. view[p].next = "critic" /\ preparing # None
    BY <1>3 DEF ReadCritic, NothingRead
  <2>2. state[p] # None /\ view[p].status = state[p].terminal /\ state[p].terminal # None
    BY <2>1 DEF ViewHolds, States
  <2>3. p \notin ShownLooks
    BY <2>1 DEF ShownLooks, Finished
  <2>4. \A q \in Papers : q # p => view'[q] = view[q]
    BY <1>3 DEF ReadCritic
  <2>5. Finished(view'[p]) = ((state[p].terminal = "failed") = (canonical["critic"][p] = None))
    BY <1>3, <2>2 DEF ReadCritic, Seen, Finished
  <2>6. /\ ShownStates[p] = state[p].terminal
        /\ (ShownCritiques[p] = None) = (canonical["critic"][p] = None)
    BY <2>2, CritiqueOf DEF ShownStates, ShownCritiques
  <2>7. CASE Finished(view'[p])
    <3>1. ShownLooks' = ShownLooks \union {p}
      BY <2>4, <2>7 DEF ShownLooks, Finished
    <3>2. ShownStates[p] # None /\ (ShownStates[p] = "failed") = (ShownCritiques[p] = None)
      BY <2>2, <2>5, <2>6, <2>7
    <3> QED BY <1>1, <2>1, <2>3, <3>1, <3>2, ShownReadPaper
  <2>8. CASE ~Finished(view'[p])
    <3>1. ShownLooks' = ShownLooks
      BY <2>3, <2>4, <2>8 DEF ShownLooks, Finished
    <3> QED BY <1>1, <3>1, Stutters
  <2> QED BY <2>7, <2>8
<1> QED BY <1>2, <1>3

\* What ReviewPaper accepts of every paper is a task of states that are all there.
LEMMA WriteShows ==
  ASSUME SimInv, WriteReviewTask
  PROVE  Gate!Next
<1> USE NoneAssumption DEF SimInv, IInv, TypeOK, WriteReviewTask
<1>1. UNCHANGED <<ShownReaders, ShownCritiques, ShownStates>>
  BY DEF chain, ShownReaders, ShownCritiques, Critique, ShownStates
<1>2. Papers \subseteq ShownLooks
  BY DEF ShownLooks, Finished, Matches
<1>3. ShownLooks' = {}
  BY DEF ShownLooks, Finished, Unread, Seen
<1>4. \A p \in Papers : view[p].status = ShownStates[p]
  BY DEF ViewHolds, ShownStates
<1>5. view # None /\ rtask' = [rtask EXCEPT ![preparing] = view] /\ preparing \in ReviewRuns
  OBVIOUS
<1>6. \A v \in ReviewRuns : v # preparing => Snapshot(v)' = Snapshot(v)
  BY <1>5 DEF Snapshot
<1>7. ShownTasks' = [ShownTasks EXCEPT ![preparing] = [papers |-> ShownStates, ranked |-> None]]
  <2>1. PICK v \in ReviewRuns : v = preparing
    BY <1>5
  <2>2. Snapshot(v)' = [papers |-> [p \in Papers |-> view[p].status], ranked |-> None]
    BY <1>5, <2>1 DEF Snapshot
  <2>3. [p \in Papers |-> view[p].status] = ShownStates
    BY <1>4 DEF ShownStates
  <2> QED BY <1>6, <2>1, <2>2, <2>3 DEF ShownTasks
<1> QED BY <1>1, <1>2, <1>3, <1>7, ShownWrite

LEMMA BracketsShow ==
  ASSUME SimInv, (\E v \in ReviewRuns : StartReview(v)) \/ EndReview
  PROVE  Gate!Next
<1> USE NoneAssumption DEF SimInv, IInv, TypeOK
<1>1. UNCHANGED <<ShownReaders, ShownCritiques, ShownStates, ShownTasks>>
  BY DEF StartReview, EndReview, chain, ShownReaders, ShownCritiques, Critique, ShownStates,
         ShownTasks, Snapshot
<1>2. ShownLooks' = {}
  BY DEF StartReview, EndReview, ShownLooks, Finished, Unread, Seen
<1>3. ASSUME NEW v \in ReviewRuns, StartReview(v) PROVE Gate!Next
  <2>1. ShownLooks = {}
    BY <1>3 DEF StartReview, NothingRead, ShownLooks, Finished
  <2>2. ShownTasks[v] = None
    BY <1>3 DEF StartReview, ShownTasks, Snapshot
  <2>3. preparing = None /\ preparing' = v
    BY <1>3 DEF StartReview
  <2> QED BY <1>1, <1>2, <2>1, <2>2, <2>3, ShownStart
<1>4. CASE EndReview
  BY <1>1, <1>2, <1>4, ShownEnd DEF EndReview
<1> QED BY <1>3, <1>4

\* The other commands show nothing: a task that is written, an outcome, a death.
LEMMA RestStutters ==
  ASSUME UNCHANGED <<verdict, canonical, state, reviewing>>
  PROVE  UNCHANGED Gate!vars
<1>1. UNCHANGED <<ShownReaders, ShownCritiques, ShownStates, preparing, ShownLooks, ShownTasks>>
  BY DEF reviewing, ShownReaders, ShownCritiques, Critique, ShownStates, ShownLooks, ShownTasks,
         Snapshot
<1> QED BY <1>1, Stutters

LEMMA StepShows == SimInv /\ [Next]_vars => [Gate!Next]_Gate!vars
<1> SUFFICES ASSUME SimInv, [Next]_vars PROVE [Gate!Next]_Gate!vars
  OBVIOUS
<1>1. Kept
  BY FilesKept DEF SimInv
<1>2. ASSUME NEW r \in Runs, AcceptRun(r) \/ Sync(r) PROVE [Gate!Next]_Gate!vars
  <2>1. CASE Promote(r)
    BY <1>1, <2>1, PromoteShows
  <2>2. CASE SaveOutcome(r) \/ Reject(r) \/ Kill(r)
    BY <2>2, RestStutters DEF SaveOutcome, Reject, Kill
  <2>3. CASE RecordState(r)
    <3>1. outcome[r] # None /\ (outcome[r] = "completed" => r \in CritRuns)
      BY <2>3 DEF RecordState, SimInv, IInv, RunsStaged
    <3> QED BY <2>3, <3>1, RunShows DEF RecordState
  <2>4. CASE Sync(r)
    <3>1. outcome[r] # None /\ r \in CritRuns
      BY <2>4, NoneAssumption DEF Sync
    <3> QED BY <2>4, <3>1, RunShows DEF Sync
  <2> QED BY <1>2, <2>1, <2>2, <2>3, <2>4 DEF AcceptRun
<1>3. ASSUME NEW r \in Runs, NEW p \in Papers, NEW s \in Sources,
             PrepareReader(r, p, s) \/ PrepareCritic(r, p, s)
      PROVE  [Gate!Next]_Gate!vars
  BY <1>3, RestStutters DEF PrepareReader, PrepareCritic
<1>4. ASSUME NEW p \in Papers, MarkFailed(p) PROVE [Gate!Next]_Gate!vars
  <2>1. Failed(None) \in States /\ Failed(None).terminal = "failed"
    BY DEF Failed, States, Terminal
  <2> QED BY <1>4, <2>1, StateShows DEF MarkFailed
<1>5. CASE UNCHANGED vars
  BY <1>5, RestStutters DEF vars, reviewing
<1> QED
  BY <1>2, <1>3, <1>4, <1>5, ReadsShow, WriteShows, BracketsShow DEF Next
-----------------------------------------------------------------------------
\* The commands that work on a paper and on the reviewer task, file by file and
\* killed anywhere, do nothing to the investigation that ReviewGate does not do.
THEOREM RefinesGate == Spec => ImplementsGate
<1> QED BY Simulating, StepShows, PTL DEF Spec, ImplementsGate
=============================================================================
