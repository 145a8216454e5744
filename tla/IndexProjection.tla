--------------------------- MODULE IndexProjection ---------------------------
(***************************************************************************)
(* project_repository of storage/project.py and rebuild_index of           *)
(* storage/sqlite.py: how the index is computed from the files of an       *)
(* investigation and the shared trace, while commands go on writing both,  *)
(* and how it is put in the place of the previous one.                     *)
(*                                                                         *)
(* The workflow commands run their executor without an index, so rows come *)
(* from a rebuild, and from the reconciler that marks some.  The model has *)
(* one investigation with one paper, which is included, and one screening  *)
(* batch, so a role has one job, at which several runs may try.  A process *)
(* that is killed takes no further step, and its run may be executed again *)
(* under the same agent_run_id, at any stage and any number of times.      *)
(***************************************************************************)
EXTENDS Naturals, FiniteSets

CONSTANTS
  Runs,     \* agent_run_ids
  Role,     \* Role[r] : the role in the task of r
  Numbers,  \* Numbers[r] : the attempt numbers the operator may give to r
  None,     \* no file, no row, nothing read
  Scenes,   \* bound: the files that are in place, and the runs to come, at the start
  Repeated, \* bound: the runs that may be executed more than once
  Cut,      \* bound: the runs whose trace lines may be cut short
  Watched   \* bound: the runs that a reconciler may find unfinished

Roles == {"paper_screener", "paper_reader", "critic", "reviewer"}

\* attempt_no BETWEEN 1 AND 2
Attempts == {1, 2}

ASSUME RunAssumption == Role \in [Runs -> Roles] /\ Numbers \in [Runs -> SUBSET Attempts]

\* No task is ever prepared for a run that is absent.
Stages == {"absent", "new", "prepared", "started", "promoted", "judged", "ended"}

Endings == {"completed", "invalid", "failed"}

Statuses == Endings \union {"running", "interrupted"}

ASSUME NoneAssumption == None \notin Runs \union Statuses

\* The one paper-state file is that of an analysed paper, which names a source,
\* or that of a failed one.
States == {"analysed", "failed"}

Files == {"identities", "packet", "candidates", "corpus", "report"} \union States

ASSUME SceneAssumption ==
  Scenes \subseteq [files : SUBSET {"identities", "packet", "candidates", "corpus", "failed"},
                    runs : SUBSET Runs]

Verdicts == {"ready", "ready_with_warnings", "blocked"}

\* The statuses that a projection derives, in the order of the workflow.
Progress ==
  {"inputs_validated", "candidates_frozen", "screening", "corpus_frozen", "analyzing",
   "reviewing", "review_blocked", "rendering", "complete", "complete_with_warnings"}

\* The statuses of an investigation with a canonical review.
Reviewed == {"review_blocked", "rendering", "complete", "complete_with_warnings"}

VARIABLES
  stage,      \* stage[r] : how far the process executing r has come
  outcome,    \* outcome[r] : the status in outcome.json, or None
  canonical,  \* canonical[role] : the run whose record is the canonical one, or None
  verdict,    \* report_status of the canonical review
  made,       \* which of the other files exist
  trace,      \* trace[r] : the events of r that a reader of the trace gets
  numbers,    \* numbers[r] : the attempt numbers in them
  tail,       \* how the trace ends: whole, unterminated, or with a line not JSON
  at,         \* the next read of the rebuild, or idle
  view,       \* what the rebuild has read
  index,      \* the database at data/triage-v2.db, or None
  asked       \* the runs a reconciler is about to mark in the index

runs == <<stage, outcome, canonical, verdict>>
ledger == <<trace, numbers, tail>>
rebuild == <<at, view>>
vars == <<stage, outcome, canonical, verdict, made, trace, numbers, tail, at, view, index, asked>>

\* Mutant: the status is derived after the records have been read.
ReadsLate == <<"identities", "packets", "trace", "corpus", "candidates", "states", "runs",
               "paper_screener", "paper_reader", "critic", "reviewer", "status", "insert">>

Reads == <<"identities", "packets", "trace", "corpus", "status", "candidates", "states", "runs",
           "paper_screener", "paper_reader", "critic", "reviewer", "insert">>

After(read) == Reads[1 + CHOOSE i \in 1..12 : Reads[i] = read]

Rows == [Runs -> Statuses \union {None}]

Records == [Roles -> Runs \union {None}]

\* `corpus' is what the corpus_membership rows show: nothing, the corpus, or the
\* corpus and the paper's terminal state.
Indexes ==
  [status : Progress, rows : Rows, records : Records, corpus : SUBSET ({"corpus"} \union States)]

Views ==
  [seen : SUBSET ({"identities", "packet", "corpus"} \union States),
   numbers : [Runs -> SUBSET Attempts], status : Progress,
   todo : SUBSET Runs, rows : Rows, records : Records]

ASSUME NoIndex == None \notin Indexes

TypeOK ==
  /\ stage \in [Runs -> Stages]
  /\ outcome \in [Runs -> Endings \union {None}]
  /\ canonical \in Records
  /\ verdict \in Verdicts
  /\ made \subseteq Files
  /\ trace \in [Runs -> SUBSET {"started", "ended"}]
  /\ numbers \in [Runs -> SUBSET Attempts]
  /\ tail \in {"whole", "unterminated", "broken"}
  /\ at \in {Reads[i] : i \in 1..13}
  /\ view \in Views
  /\ index \in Indexes \union {None}
  /\ asked \subseteq Runs

Nothing ==
  [seen |-> {}, numbers |-> [r \in Runs |-> {}], status |-> "inputs_validated", todo |-> {},
   rows |-> [r \in Runs |-> None], records |-> [k \in Roles |-> None]]

Init ==
  /\ \E scene \in Scenes :
       /\ stage = [r \in Runs |-> IF r \in scene.runs THEN "new" ELSE "absent"]
       /\ made = scene.files
  /\ outcome = [r \in Runs |-> None]
  /\ canonical = [k \in Roles |-> None]
  /\ verdict = "ready"
  /\ trace = [r \in Runs |-> {}]
  /\ numbers = [r \in Runs |-> {}]
  /\ tail = "whole"
  /\ at = "identities"
  /\ view = Nothing
  /\ index = None
  /\ asked = {}

-----------------------------------------------------------------------------
(***************************************************************************)
(* The commands of the workflow, as far as the projection reads their work *)
(***************************************************************************)

\* What a file is made from: freeze-candidates writes the identities last,
\* accept-run and mark-paper-failed compete for the paper state, and render.py
\* refuses a blocked review.
Ready(file) ==
  CASE file = "identities" -> "candidates" \in made
    [] file = "packet" -> "identities" \in made
    [] file = "corpus" -> "candidates" \in made
    [] file = "analysed" -> canonical["critic"] # None /\ "failed" \notin made
    [] file = "failed" -> "corpus" \in made /\ "analysed" \notin made
    [] file = "report" -> canonical["reviewer"] # None /\ verdict # "blocked"
    [] OTHER -> TRUE

Make(file) ==
  /\ file \notin made
  /\ Ready(file)
  /\ made' = made \union {file}
  /\ UNCHANGED <<runs, ledger, rebuild, index, asked>>

\* A task for r, input.json, is there.
Tasked(r) == stage[r] \notin {"absent", "new"}

\* What the task of a role is prepared from.
Ripe(role) ==
  CASE role = "paper_screener" -> "candidates" \in made
    [] role = "paper_reader" -> {"corpus", "packet"} \subseteq made
    [] role = "critic" -> canonical["paper_reader"] # None
    [] role = "reviewer" -> made \intersect States # {}

Move(r, from, to) == stage[r] = from /\ stage' = [stage EXCEPT ![r] = to]

Prepare(r) ==
  /\ Move(r, "new", "prepared")
  /\ Ripe(Role[r])
  /\ UNCHANGED <<outcome, canonical, verdict, made, ledger, rebuild, index, asked>>

\* TraceAppender.append: one write whose short count is not looked at.  A line
\* cut off before its newline can be read until the next one continues it; one
\* cut off earlier never can.  `number' is {} where the event repeats the number
\* of its run's last start.
Append(r, event, number) ==
  \/ /\ tail = "whole"
     /\ trace' = [trace EXCEPT ![r] = @ \union {event}]
     /\ numbers' = [numbers EXCEPT ![r] = @ \union number]
     /\ tail' \in (IF r \in Cut THEN {"whole", "unterminated"} ELSE {"whole"})
  \/ /\ r \in Cut \/ tail # "whole"
     /\ tail' = "broken"
     /\ UNCHANGED <<trace, numbers>>

\* The first execution of r, or another one after a kill, an exception or an end:
\* input.json is identical, and the attempt number is the operator's again.
Start(r) ==
  /\ stage[r] = "prepared" \/ (r \in Repeated /\ Tasked(r))
  /\ stage' = [stage EXCEPT ![r] = "started"]
  /\ \E n \in Numbers[r] : Append(r, "started", {n})
  /\ UNCHANGED <<outcome, canonical, verdict, made, rebuild, index, asked>>

\* A run judged invalid keeps its raw output, which no other bytes replace; one
\* whose dispatcher raised has none, and may still promote when executed again.
Promote(r) ==
  /\ Move(r, "started", "promoted")
  /\ outcome[r] \in {None, "failed"}
  /\ canonical[Role[r]] \in {None, r}
  /\ canonical' = [canonical EXCEPT ![Role[r]] = r]
  /\ IF Role[r] = "reviewer" /\ canonical["reviewer"] = None
     THEN verdict' \in Verdicts ELSE UNCHANGED verdict
  /\ UNCHANGED <<outcome, made, ledger, rebuild, index, asked>>

\* outcome.json, before the event that reports it; where one is already the
\* execution raises.  The dispatcher may raise in any execution, also when an
\* earlier one has promoted, whose bytes are then the only ones to be judged.
Judge(r) ==
  /\ outcome[r] = None
  /\ \/ Move(r, "promoted", "judged") /\ outcome' = [outcome EXCEPT ![r] = "completed"]
     \/ Move(r, "started", "judged") /\ outcome' = [outcome EXCEPT ![r] = "failed"]
     \/ /\ Move(r, "started", "judged")
        /\ canonical[Role[r]] # r
        /\ outcome' = [outcome EXCEPT ![r] = "invalid"]
  /\ UNCHANGED <<canonical, verdict, made, ledger, rebuild, index, asked>>

End(r) ==
  /\ Move(r, "judged", "ended")
  /\ Append(r, "ended", {})
  /\ UNCHANGED <<outcome, canonical, verdict, made, rebuild, index, asked>>

-----------------------------------------------------------------------------
(***************************************************************************)
(* project_repository: reads in a fixed order, any of which may raise      *)
(***************************************************************************)

\* _investigation_status: the furthest file decides.
Derived ==
  CASE "report" \in made ->
         IF verdict = "ready_with_warnings" THEN "complete_with_warnings" ELSE "complete"
    [] "report" \notin made /\ canonical["reviewer"] # None ->
         IF verdict = "blocked" THEN "review_blocked" ELSE "rendering"
    [] OTHER ->
         IF \E r \in Runs : Role[r] = "reviewer" /\ Tasked(r) THEN "reviewing"
         ELSE IF "corpus" \in made
         THEN IF \/ canonical["paper_reader"] # None
                 \/ canonical["critic"] # None
                 \/ made \intersect States # {}
              THEN "analyzing" ELSE "corpus_frozen"
         ELSE IF canonical["paper_screener"] # None THEN "screening"
         ELSE IF "candidates" \in made THEN "candidates_frozen"
         ELSE "inputs_validated"

Continue(v) ==
  /\ view' = v
  /\ at' = After(at)
  /\ UNCHANGED <<runs, made, ledger, index, asked>>

Raise ==
  /\ view' = Nothing
  /\ at' = "identities"
  /\ UNCHANGED <<runs, made, ledger, index, asked>>

\* What of the files in `names' the rebuild finds.
Seeing(names) == [view EXCEPT !.seen = @ \union (made \intersect names)]

ReadIdentities ==
  /\ at = "identities"
  /\ Continue(Seeing({"identities"}))

\* A packet whose paper had no identity when the identities were read raises.
ReadPackets ==
  /\ at = "packets"
  /\ IF "packet" \in made /\ "identities" \notin view.seen
     THEN Raise ELSE Continue(Seeing({"packet"}))

\* iter_trace raises at a line that is not JSON.
ReadTrace ==
  /\ at = "trace"
  /\ IF tail = "broken" THEN Raise ELSE Continue([view EXCEPT !.numbers = numbers])

\* corpus.json is read before the status is derived from what exists then.
ReadCorpus ==
  /\ at = "corpus"
  /\ Continue(Seeing({"corpus"}))

ReadStatus ==
  /\ at = "status"
  /\ Continue([view EXCEPT !.status = Derived])

\* A candidate without a frozen identity raises.
ReadCandidates ==
  /\ at = "candidates"
  /\ IF "candidates" \in made /\ "identities" \notin view.seen THEN Raise ELSE Continue(view)

\* The paper states; then the run directories are listed.
ReadStates ==
  /\ at = "states"
  /\ Continue([Seeing(States) EXCEPT !.todo = {r \in Runs : Tasked(r)}])

\* Mutant: a state of the run diagram that the schema does not have.
ProjectedAsStage(r) ==
  IF outcome[r] # None THEN outcome[r]
  ELSE IF canonical[Role[r]] = r THEN "canonicalized" ELSE "running"


\* Mutant: a run that has promoted its record is projected as completed.
ProjectedEarly(r) ==
  IF outcome[r] # None THEN outcome[r]
  ELSE IF canonical[Role[r]] = r THEN "completed" ELSE "running"

\* The outcome decides, whatever the last event of the run is.
Projected(r) == IF outcome[r] # None THEN outcome[r] ELSE "running"

\* _project_runs: a run without events has no row, and must have no outcome; the
\* events of one with a row must agree on its attempt number.
ReadRun(r) ==
  /\ at = "runs"
  /\ r \in view.todo
  /\ \/ /\ Cardinality(view.numbers[r]) = 1
        /\ view' = [view EXCEPT !.todo = @ \ {r}, !.rows[r] = Projected(r)]
        /\ UNCHANGED <<runs, made, ledger, index, asked, at>>
     \/ /\ view.numbers[r] = {}
        /\ outcome[r] = None
        /\ view' = [view EXCEPT !.todo = @ \ {r}]
        /\ UNCHANGED <<runs, made, ledger, index, asked, at>>
     \/ /\ \/ view.numbers[r] = {} /\ outcome[r] # None
           \/ Cardinality(view.numbers[r]) > 1
        /\ Raise

EndRuns ==
  /\ at = "runs"
  /\ view.todo = {}
  /\ Continue(view)

\* The canonical record of a role; a critic's needs the reader's read before.
ReadRecord(role) ==
  /\ at = role
  /\ IF /\ role = "critic"
        /\ canonical["critic"] # None
        /\ view.records["paper_reader"] = None
     THEN Raise
     ELSE Continue([view EXCEPT !.records[role] = canonical[role]])

-----------------------------------------------------------------------------
(***************************************************************************)
(* rebuild_index                                                           *)
(***************************************************************************)

\* one_paper_job_attempt and its two companions.
AttemptsDiffer ==
  \A r, q \in Runs :
    r # q /\ view.rows[r] # None /\ view.rows[q] # None /\ Role[r] = Role[q]
      => view.numbers[r] # view.numbers[q]

\* Mutant: without PRAGMA foreign_keys the references are not looked at.
Unreferenced == TRUE

\* The foreign keys of the record tables and of the corpus_membership rows.
References ==
  /\ \A k \in Roles : view.records[k] # None => view.rows[view.records[k]] # None
  /\ view.records["paper_reader"] # None => "packet" \in view.seen
  /\ {"corpus", "analysed"} \subseteq view.seen => "packet" \in view.seen

\* The corpus_membership rows: none without the corpus, whatever states were read.
Membership ==
  IF "corpus" \in view.seen THEN view.seen \intersect ({"corpus"} \union States) ELSE {}

\* A database beside the target, one transaction, one os.replace; a row that
\* breaks a key leaves the target as it was.  A reconciler that has opened the
\* replaced file marks rows there that nobody will read.
Replace ==
  /\ at = "insert"
  /\ AttemptsDiffer
  /\ References
  /\ index' = [status |-> view.status, rows |-> view.rows, records |-> view.records,
                corpus |-> Membership]
  /\ asked' = {}
  /\ view' = Nothing
  /\ at' = "identities"
  /\ UNCHANGED <<runs, made, ledger>>

Conflict ==
  /\ at = "insert"
  /\ ~(AttemptsDiffer /\ References)
  /\ Raise

Rebuild ==
  \/ ReadIdentities \/ ReadPackets \/ ReadTrace \/ ReadCorpus \/ ReadStatus
  \/ ReadCandidates \/ ReadStates \/ EndRuns \/ Replace \/ Conflict
  \/ \E r \in Runs : ReadRun(r)
  \/ \E k \in Roles : ReadRecord(k)

-----------------------------------------------------------------------------
(***************************************************************************)
(* reconcile.py --repair, RunLifecycle's subject: what it does to the      *)
(* index, and the event that it appends for a run that has completed.      *)
(***************************************************************************)

Inspect ==
  /\ asked = {}
  /\ index # None
  /\ tail # "broken"
  /\ asked' = {r \in Runs : r \in Watched /\ trace[r] = {"started"} /\ outcome[r] = None}
  /\ UNCHANGED <<runs, made, ledger, rebuild, index>>

Mark(r) ==
  /\ r \in asked
  /\ asked' = asked \ {r}
  /\ index' = IF index.rows[r] = "running"
              THEN [index EXCEPT !.rows[r] = "interrupted"] ELSE index
  /\ UNCHANGED <<runs, made, ledger, rebuild>>

\* The event takes its attempt number from the events that are there.
AppendReconciled(r) ==
  /\ trace[r] = {"started"}
  /\ outcome[r] = "completed"
  /\ Append(r, "ended", {})
  /\ UNCHANGED <<runs, made, rebuild, index, asked>>

KillReconciler ==
  /\ asked # {}
  /\ asked' = {}
  /\ UNCHANGED <<runs, made, ledger, rebuild, index>>

Next ==
  \/ \E file \in Files : Make(file)
  \/ \E r \in Runs : Prepare(r) \/ Start(r) \/ Promote(r) \/ Judge(r) \/ End(r)
  \/ Rebuild
  \/ Inspect \/ KillReconciler
  \/ \E r \in Runs : Mark(r) \/ AppendReconciled(r)

Spec == Init /\ [][Next]_vars

\* The operator keeps rebuilding.
Fairness == WF_vars(Rebuild)

FairSpec == Spec /\ Fairness

-----------------------------------------------------------------------------
(***************************************************************************)
(* Properties                                                              *)
(***************************************************************************)

\* A terminal row says what outcome.json says, from whatever mixture of earlier
\* and later reads the index was built and whichever rebuild came last.
RowsAreRecorded ==
  index # None =>
    \A r \in Runs : index.rows[r] \in Endings => outcome[r] = index.rows[r]

\* The records in an index are the canonical files, each with the row of a run
\* that its validator did not refuse; a run indexed as completed is indexed with
\* its record, and a critique with the reading that it is about.
RecordsAreClosed ==
  index # None =>
    /\ \A k \in Roles : index.records[k] # None =>
         /\ index.records[k] = canonical[k]
         /\ index.rows[index.records[k]] \notin {None, "invalid"}
    /\ \A r \in Runs : index.rows[r] = "completed" => index.records[Role[r]] = r
    /\ index.records["critic"] # None => index.records["paper_reader"] # None

\* What "failed run has no returned artifacts" suggests: TLC refutes it, because
\* a run that has promoted its record can fail when it is executed again.
NoRecordOfFailedRun ==
  index # None =>
    \A k \in Roles : index.records[k] # None => index.rows[index.records[k]] # "failed"

\* A status that tells of a record, and a corpus beside a status, fit: files that
\* appear during a rebuild may add records, never a status without the record
\* that it is derived from, nor a corpus with a status from before it.
StatusIsShown ==
  index # None =>
    /\ index.status \in Reviewed => index.records["reviewer"] # None
    /\ index.status = "screening" => index.records["paper_screener"] # None
    /\ index.status = "analyzing" /\ "corpus" \in index.corpus
         => index.records["paper_reader"] # None \/ index.corpus \intersect States # {}
    /\ "corpus" \in index.corpus
         => index.status \notin {"inputs_validated", "candidates_frozen", "screening"}

\* A status from after the corpus is indexed with the corpus: TLC refutes it,
\* because corpus.json is read before the status.
CorpusIsShown ==
  index # None =>
    (index.status \in {"corpus_frozen", "analyzing"} => "corpus" \in index.corpus)

\* What ends every rebuild from then on: a line of the trace that is not JSON, a
\* run executed under two attempt numbers, or two runs at one job under one.
Unprojectable ==
  \/ tail = "broken"
  \/ \E r \in Runs : Cardinality(numbers[r]) > 1
  \/ \E r, q \in Runs : r # q /\ Role[r] = Role[q] /\ numbers[r] \intersect numbers[q] # {}


\* What the description of the projection says of a missing trace binding: a row
\* it builds for a terminal run is one the trace supports.
RowsAreSupported ==
  index # None /\ tail = "whole" =>
    \A r \in Runs : index.rows[r] \in Endings => "ended" \in trace[r]
=============================================================================
