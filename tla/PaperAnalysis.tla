--------------------------- MODULE PaperAnalysis ---------------------------
(***************************************************************************)
(* The analysis chain of the included papers as scripts/workflow.py drives *)
(* it: reader task, reader run, critic task, critic run, terminal paper    *)
(* state, reviewer task.  Every command is a process of its own            *)
(* and they share nothing but write-once files, so commands for one paper  *)
(* overlap, and one that is killed leaves the files it has written.        *)
(*                                                                         *)
(* What RunExecutor does inside accept-run is RunLifecycle's subject; of   *)
(* it this module keeps the promotion, the outcome, and what may end       *)
(* accept-run before, between and after them.  Source packets are in       *)
(* place, and the reviewer task is built without --papers.                 *)
(***************************************************************************)
EXTENDS Naturals, FiniteSets

CONSTANTS
  Papers,      \* included members of the frozen corpus
  Sources,     \* source_document_ids with a source packet, for every paper
  ReadRuns,    \* agent_run_ids of reader runs
  CritRuns,    \* agent_run_ids of critic runs
  ReviewRuns,  \* agent_run_ids of reviewer runs
  None,        \* a file that does not exist, a field that is null
  MaxKills     \* bound: how many accept-run commands are killed

Runs == ReadRuns \union CritRuns

ASSUME RunAssumption == ReadRuns \cap CritRuns = {}
ASSUME KillAssumption == MaxKills \in Nat

VARIABLES
  task,       \* task[r] : input.json of run r, or None
  pc,         \* pc[r] : where accept-run of r stands
  outcome,    \* outcome[r] : the status in outcome.json of r, or None
  verdict,    \* verdict[r] : analysis_status of the record of critic run r, or None
  canonical,  \* canonical[kind][p] : the run whose record is canonical, or None
  state,      \* state[p] : paper-state/<p>.json, or None
  preparing,  \* the run a prepare-reviewer command is at work for, or None
  view,       \* view[p] : what that command has read of p
  rtask,      \* rtask[v] : the papers in the input.json of reviewer run v, or None
  kills       \* how many accept-run commands have been killed

chain == <<task, pc, outcome, verdict, canonical, state>>
reviewing == <<preparing, view, rtask>>
vars == <<task, pc, outcome, verdict, canonical, state, preparing, view, rtask, kills>>

Kinds == {"reader", "critic"}

Kind(r) == IF r \in ReadRuns THEN "reader" ELSE "critic"

Terminal == {"complete", "analysis_unresolved", "failed"}

Tasks == [paper : Papers, source : Sources, reader : ReadRuns \union {None}]

\* PaperStateRecord.  `by' stands for completed_at and error, which come from
\* the run whose end made the paper terminal, or from the operator (None).  The
\* source and the reader run that a failed state may name inform a reader only.
States ==
  [terminal : Terminal, source : Sources \union {None}, reader : ReadRuns \union {None},
   critic : CritRuns \union {None}, by : Runs \union {None}]

Looks == {"state", "reader", "critic", "read"}

Views ==
  [next : Looks, status : Terminal \union {None}, reader : ReadRuns \union {None},
   critic : CritRuns \union {None}]

\* What prepare-reviewer has read of a paper, and what it reads next.
Seen(next, status, reader, critic) ==
  [next |-> next, status |-> status, reader |-> reader, critic |-> critic]

Unread == Seen("state", None, None, None)

ASSUME NoneAssumption ==
  /\ None \notin Runs \union ReviewRuns \union Tasks \union States \union [Papers -> Views]
  /\ None \notin Terminal \union {"completed", "invalid"}

TypeOK ==
  /\ task \in [Runs -> Tasks \union {None}]
  /\ pc \in [Runs -> {"idle", "outcome", "record", "ended", "killed"}]
  /\ outcome \in [Runs -> {"completed", "invalid", "failed", None}]
  /\ verdict \in [Runs -> {"complete", "analysis_unresolved", None}]
  /\ canonical \in [Kinds -> [Papers -> Runs \union {None}]]
  /\ state \in [Papers -> States \union {None}]
  /\ preparing \in ReviewRuns \union {None}
  /\ view \in [Papers -> Views]
  /\ rtask \in [ReviewRuns -> [Papers -> Views] \union {None}]
  /\ kills \in Nat

Init ==
  /\ task = [r \in Runs |-> None]
  /\ pc = [r \in Runs |-> "idle"]
  /\ outcome = [r \in Runs |-> None]
  /\ verdict = [r \in Runs |-> None]
  /\ canonical = [k \in Kinds |-> [p \in Papers |-> None]]
  /\ state = [p \in Papers |-> None]
  /\ preparing = None
  /\ view = [p \in Papers |-> Unread]
  /\ rtask = [v \in ReviewRuns |-> None]
  /\ kills = 0

Goto(r, step) == pc' = [pc EXCEPT ![r] = step]

-----------------------------------------------------------------------------
(***************************************************************************)
(* prepare-reader and prepare-critic.  An input.json that exists already   *)
(* is found identical or makes the command fail; neither changes anything. *)
(***************************************************************************)

\* prepare-reader does not ask whether the paper has a canonical reader.
PrepareReader(r, p, s) ==
  /\ r \in ReadRuns
  /\ task[r] = None
  /\ task' = [task EXCEPT ![r] = [paper |-> p, source |-> s, reader |-> None]]
  /\ UNCHANGED <<pc, outcome, verdict, canonical, state, reviewing, kills>>

\* Mutant: CriticTask does not compare the source of the reader record.
PrepareCriticAnySource(r, p, s) ==
  /\ r \in CritRuns
  /\ task[r] = None
  /\ canonical["reader"][p] # None
  /\ task' = [task EXCEPT ![r] =
                [paper |-> p, source |-> s, reader |-> canonical["reader"][p]]]
  /\ UNCHANGED <<pc, outcome, verdict, canonical, state, reviewing, kills>>

PrepareCritic(r, p, s) ==
  /\ r \in CritRuns
  /\ task[r] = None
  /\ canonical["reader"][p] # None
  /\ task[canonical["reader"][p]].source = s
  /\ task' = [task EXCEPT ![r] =
                [paper |-> p, source |-> s, reader |-> canonical["reader"][p]]]
  /\ UNCHANGED <<pc, outcome, verdict, canonical, state, reviewing, kills>>

-----------------------------------------------------------------------------
(***************************************************************************)
(* accept-run of a reader or critic task                                   *)
(***************************************************************************)

\* Mutant: analysis_status answers with a status that PaperStateRecord lacks.
PromoteUnresolved(r) ==
  /\ pc[r] = "idle"
  /\ task[r] # None
  /\ LET p == task[r].paper IN
       /\ canonical[Kind(r)][p] \in {None, r}
       /\ canonical' = [canonical EXCEPT ![Kind(r)][p] = r]
       /\ \E v \in {"complete", "unresolved"} :
            verdict' = [verdict EXCEPT ![r] = IF r \in CritRuns THEN v ELSE None]
  /\ Goto(r, "outcome")
  /\ UNCHANGED <<task, outcome, state, reviewing, kills>>

\* The record of r is valid and promoted, unless another run's holds the path:
\* then the command ends with ArtifactCollisionError and r has no outcome.
Promote(r) ==
  /\ pc[r] = "idle"
  /\ task[r] # None
  /\ LET p == task[r].paper IN
       IF canonical[Kind(r)][p] \in {None, r}
       THEN /\ canonical' = [canonical EXCEPT ![Kind(r)][p] = r]
            /\ \E v \in {"complete", "analysis_unresolved"} :
                 verdict' = [verdict EXCEPT ![r] = IF r \in CritRuns THEN v ELSE None]
            /\ Goto(r, "outcome")
       ELSE Goto(r, "killed") /\ UNCHANGED <<canonical, verdict>>
  /\ UNCHANGED <<task, outcome, state, reviewing, kills>>

SaveOutcome(r) ==
  /\ pc[r] = "outcome"
  /\ outcome' = [outcome EXCEPT ![r] = "completed"]
  /\ Goto(r, IF r \in CritRuns THEN "record" ELSE "ended")
  /\ UNCHANGED <<task, verdict, canonical, state, reviewing, kills>>

\* The output is invalid, or the dispatcher raises because the raw output cannot
\* be read.  The latter may also happen to a later accept-run of a run that was
\* killed, or could not be promoted.  Only attempt 2 makes the paper terminal.
Reject(r) ==
  /\ task[r] # None
  /\ outcome[r] = None
  /\ \/ pc[r] = "idle" /\ outcome' = [outcome EXCEPT ![r] = "invalid"]
     \/ pc[r] \in {"idle", "killed"} /\ outcome' = [outcome EXCEPT ![r] = "failed"]
  /\ \E attempt \in 1..2 : Goto(r, IF attempt = 2 THEN "record" ELSE "ended")
  /\ UNCHANGED <<task, verdict, canonical, state, reviewing, kills>>

Failed(by) ==
  [terminal |-> "failed", source |-> None, reader |-> None, critic |-> None, by |-> by]

\* The PaperStateRecord that accept-run and sync-paper-state derive from run r.
StateOf(r) ==
  IF outcome[r] = "completed"
  THEN [terminal |-> verdict[r], source |-> task[r].source, reader |-> task[r].reader,
        critic |-> r, by |-> r]
  ELSE Failed(r)

\* ArtifactStore.write_json: a state that exists stays, identical or not.
WriteOnce(p, s) == state' = IF state[p] = None THEN [state EXCEPT ![p] = s] ELSE state

\* Mutant: the paper state is overwritten.
RecordOverwrites(r) ==
  /\ pc[r] = "record"
  /\ state' = [state EXCEPT ![task[r].paper] = StateOf(r)]
  /\ Goto(r, "ended")
  /\ UNCHANGED <<task, outcome, verdict, canonical, reviewing, kills>>

\* The last write of accept-run; it raises when another state is there.
RecordState(r) ==
  /\ pc[r] = "record"
  /\ WriteOnce(task[r].paper, StateOf(r))
  /\ Goto(r, "ended")
  /\ UNCHANGED <<task, outcome, verdict, canonical, reviewing, kills>>

Kill(r) ==
  /\ pc[r] \in {"outcome", "record"}
  /\ kills < MaxKills
  /\ kills' = kills + 1
  /\ Goto(r, "killed")
  /\ UNCHANGED <<task, outcome, verdict, canonical, state, reviewing>>

-----------------------------------------------------------------------------
(***************************************************************************)
(* sync-paper-state and mark-paper-failed                                  *)
(***************************************************************************)

\* Mutant: the outcome is not looked at.
SyncUnchecked(r) ==
  /\ r \in CritRuns
  /\ task[r] # None
  /\ canonical["critic"][task[r].paper] = r
  /\ WriteOnce(task[r].paper, StateOf(r))
  /\ UNCHANGED <<task, pc, outcome, verdict, canonical, reviewing, kills>>

\* Mutant: a run whose accept-run did not end is not synchronised.
SyncEnded(r) ==
  /\ r \in CritRuns
  /\ pc[r] = "ended"
  /\ outcome[r] = "completed"
  /\ canonical["critic"][task[r].paper] = r
  /\ WriteOnce(task[r].paper, StateOf(r))
  /\ UNCHANGED <<task, pc, outcome, verdict, canonical, reviewing, kills>>

Sync(r) ==
  /\ r \in CritRuns
  /\ task[r] # None
  /\ outcome[r] = "completed"
  /\ canonical["critic"][task[r].paper] = r
  /\ WriteOnce(task[r].paper, StateOf(r))
  /\ UNCHANGED <<task, pc, outcome, verdict, canonical, reviewing, kills>>

\* Whenever the operator says so: the command looks at nothing but the corpus.
MarkFailed(p) ==
  /\ WriteOnce(p, Failed(None))
  /\ UNCHANGED <<task, pc, outcome, verdict, canonical, reviewing, kills>>

-----------------------------------------------------------------------------
(***************************************************************************)
(* prepare-reviewer, one action per file read                              *)
(***************************************************************************)

\* With the task in place the command changes nothing and is left out.
StartReview(v) ==
  /\ preparing = None
  /\ rtask[v] = None
  /\ preparing' = v
  /\ view' = [p \in Papers |-> Unread]
  /\ UNCHANGED <<chain, rtask, kills>>

\* The state of a paper must be there; load_model raises otherwise.
ReadState(p) ==
  /\ preparing # None
  /\ view[p].next = "state"
  /\ state[p] # None
  /\ view' = [view EXCEPT ![p] = Seen("reader", state[p].terminal, None, None)]
  /\ UNCHANGED <<chain, preparing, rtask, kills>>

ReadReader(p) ==
  /\ view[p].next = "reader"
  /\ view' = [view EXCEPT ![p] =
                Seen("critic", view[p].status, canonical["reader"][p], None)]
  /\ UNCHANGED <<chain, preparing, rtask, kills>>

ReadCritic(p) ==
  /\ view[p].next = "critic"
  /\ view' = [view EXCEPT ![p] =
                Seen("read", view[p].status, view[p].reader, canonical["critic"][p])]
  /\ UNCHANGED <<chain, preparing, rtask, kills>>

\* Mutant: ReviewPaper lets a failed paper have a critique.
MatchesUnlessFailed(w) ==
  /\ w.critic # None => w.reader # None /\ task[w.critic].reader = w.reader
  /\ w.status # "failed" => w.critic # None /\ verdict[w.critic] = w.status

\* ReviewPaper.records_match_status
Matches(w) ==
  /\ w.critic # None => w.reader # None /\ task[w.critic].reader = w.reader
  /\ w.status = "failed" => w.critic = None
  /\ w.status # "failed" => w.critic # None /\ verdict[w.critic] = w.status

WriteReviewTask ==
  /\ preparing # None
  /\ \A p \in Papers : view[p].next = "read" /\ Matches(view[p])
  /\ rtask' = [rtask EXCEPT ![preparing] = view]
  /\ preparing' = None
  /\ view' = [p \in Papers |-> Unread]
  /\ UNCHANGED <<chain, kills>>

\* The command fails at any check or is killed.
EndReview ==
  /\ preparing # None
  /\ preparing' = None
  /\ view' = [p \in Papers |-> Unread]
  /\ UNCHANGED <<chain, rtask, kills>>

-----------------------------------------------------------------------------

AcceptRun(r) == Promote(r) \/ SaveOutcome(r) \/ Reject(r) \/ RecordState(r) \/ Kill(r)

Next ==
  \/ \E r \in Runs : AcceptRun(r) \/ Sync(r)
  \/ \E r \in Runs, p \in Papers, s \in Sources : PrepareReader(r, p, s) \/ PrepareCritic(r, p, s)
  \/ \E v \in ReviewRuns : StartReview(v)
  \/ \E p \in Papers : MarkFailed(p) \/ ReadState(p) \/ ReadReader(p) \/ ReadCritic(p)
  \/ WriteReviewTask
  \/ EndReview

Spec == Init /\ [][Next]_vars

\* The operator runs sync-paper-state for a completed critic run.
FairSpec == Spec /\ \A r \in CritRuns : WF_vars(Sync(r))

-----------------------------------------------------------------------------
(***************************************************************************)
(* Properties                                                              *)
(***************************************************************************)

\* A canonical critique judges the canonical reader record of its paper, on the
\* source that record was read from, whichever runs competed for the paths.
ChainAgrees ==
  \A p \in Papers : canonical["critic"][p] # None =>
    LET t == task[canonical["critic"][p]] IN
      /\ t.paper = p
      /\ t.reader = canonical["reader"][p]
      /\ task[t.reader].paper = p
      /\ task[t.reader].source = t.source

Supported(p) ==
  IF state[p].terminal = "failed"
  THEN state[p].by # None => outcome[state[p].by] \in {"invalid", "failed"}
  ELSE /\ outcome[state[p].critic] = "completed"
       /\ state[p].critic = canonical["critic"][p]
       /\ state[p].reader = canonical["reader"][p]
       /\ state[p].source = task[state[p].reader].source
       /\ state[p].terminal = verdict[state[p].critic]

\* A terminal state says how the paper's analysis ended: a positive one names the
\* canonical chain and repeats its verdict, a negative one the failed attempt.
TerminalIsSupported == \A p \in Papers : state[p] # None => Supported(p)

\* A reviewer task, once written, keeps telling the truth: its statuses are those
\* of the paper states, its records the canonical ones of the paper.
ReviewIsCurrent ==
  \A v \in ReviewRuns : rtask[v] # None =>
    \A p \in Papers :
      /\ state[p] # None
      /\ rtask[v][p].status = state[p].terminal
      /\ rtask[v][p].status # "failed" =>
           /\ rtask[v][p].reader = state[p].reader
           /\ rtask[v][p].critic = state[p].critic

\* What the rest of the investigation sees of the analysis: which papers have a
\* reader record, their critiques and states, and the reviewer tasks, each file as
\* a whole.  The corpus is frozen with all identities, no screening run has failed,
\* and nothing is ranked, reviewed or rendered.
Critique(p) ==
  IF canonical["critic"][p] = None THEN None
  ELSE [status |-> verdict[canonical["critic"][p]], scores |-> [c \in {} |-> 0]]

Finished(w) == w.next = "read" /\ (w.status = "failed") = (w.critic = None)

Snapshot(v) ==
  IF rtask[v] = None THEN None
  ELSE [papers |-> [p \in Papers |-> rtask[v][p].status], ranked |-> None]

Gate ==
  INSTANCE ReviewGate WITH
    Criteria <- {}, Weight <- [c \in {} |-> 0], Gates <- {}, Scores <- {},
    Places <- 1, TiesUp <- {}, Challenges <- {}, Renderers <- {}, MaxKills <- 0,
    inputs <- "candidates",
    corpus <- [p \in Papers |-> "included"],
    read <- {p \in Papers : canonical["reader"][p] # None},
    critique <- [p \in Papers |-> Critique(p)],
    state <- [p \in Papers |-> IF state[p] = None THEN None ELSE state[p].terminal],
    identified <- TRUE, exhausted <- FALSE, ranker <- None, ranking <- None,
    looked <- {p \in Papers : Finished(view[p])},
    task <- [v \in ReviewRuns |-> Snapshot(v)],
    review <- None, at <- [x \in {} |-> 0],
    out <- [f \in {"report.md", "papers.csv", "human-review.json"} |-> None], kills <- 0

ASSUME ShownAssumption == None \notin Gate!Corpora \union Gate!Critiques \union Gate!Tasks

\* Whatever the commands do to a paper, in however many steps and however they
\* are killed, ReviewGate does in one step of a paper or a review, or not at all:
\* the file-by-file review is a review of files that are there at one instant each.
ImplementsGate == [][Gate!Next]_Gate!vars

\* A completed critique makes its paper terminal, also when accept-run was killed
\* before it wrote the paper state.
CompletedIsTerminal ==
  \A r \in CritRuns, p \in Papers :
    (outcome[r] = "completed" /\ canonical["critic"][p] = r) ~> state[p] # None

\* What ReviewPaper asserts of the records it is given: a failed paper has no
\* canonical critic.  Without it no reviewer task can be written any more.
FailedPaperHasNoCritic ==
  \A p \in Papers : state[p] # None =>
    (state[p].terminal = "failed" => canonical["critic"][p] = None)
=============================================================================
