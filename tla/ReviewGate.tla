----------------------------- MODULE ReviewGate -----------------------------
(***************************************************************************)
(* From the inputs of an investigation to its rendered outputs: rank.py,   *)
(* prepare-reviewer, accept-run of a review, render.py, and the two        *)
(* functions that derive the state of an investigation from the files      *)
(* that exist, cmd_status and the projection's _investigation_status.      *)
(*                                                                         *)
(* How records are promoted is RunLifecycle's subject, how papers become   *)
(* terminal PaperAnalysis's, how the corpus is frozen Screening's; here    *)
(* each is one step.  prepare-reviewer runs without --papers and           *)
(* --ranking, and the component is not the workshop analysis.              *)
(***************************************************************************)
EXTENDS Ranking

CONSTANTS
  ReviewRuns,  \* agent_run_ids of reviewer runs
  Challenges,  \* challenge_ids a reviewer may raise
  Renderers,   \* processes that run render.py
  None,        \* a file that does not exist, a process without work
  MaxKills     \* bound: how many processes are killed

ASSUME KillAssumption == MaxKills \in Nat

Outcomes == {"complete", "analysis_unresolved", "failed"}

Memberships == {"included", "excluded", "membership_unresolved"}

Corpora == [Papers -> Memberships]

\* CriticRecord: what analysis_status makes of it, and the scores.
Critiques == [status : {"complete", "analysis_unresolved"}, scores : Assessments]

\* ReviewerTask: the analysis status of every included paper, and the papers with
\* a row in the ranking artifact.
Tasks == [papers : [Papers -> Outcomes \union {None}], ranked : {None} \union SUBSET Papers]

\* ReviewRecord
Reviews ==
  [run : ReviewRuns, challenges : SUBSET Challenges, items : SUBSET Challenges,
   status : {"ready", "ready_with_warnings", "blocked"}]

\* The outputs, in the order in which they are written.
Files == <<"report.md", "papers.csv", "human-review.json">>

ASSUME NoneAssumption ==
  /\ None \notin Corpora \union Critiques \union Tasks \union Reviews \union ReviewRuns
  /\ None \notin Outcomes \union Memberships
  /\ \A ranked \in SUBSET Papers : None # ranked

VARIABLES
  inputs,    \* what exists before the corpus: nothing, inputs, candidates, decisions
  corpus,    \* corpus.json, or None
  read,      \* the papers with a canonical reader record
  critique,  \* critique[p] : the canonical critique of p, or None
  state,     \* state[p] : terminal_state of paper-state/<p>.json, or None
  identified, \* whether every candidate has its identity.json
  exhausted, \* whether a screening run has failed at attempt 2
  ranker,    \* the papers with a critique when a rank.py began to look, or None
  ranking,   \* the papers with a row in ranking.json, or None
  preparing, \* the run that a prepare-reviewer is at work for, or None
  looked,    \* the papers whose files that command has read
  task,      \* task[v] : input.json of reviewer run v, or None
  review,    \* review/canonical.json, or None
  at,        \* at[x] : which output renderer x writes next; 0 when idle
  out,       \* out[f] : the content of output f, or None
  kills      \* how many processes have been killed

aside == <<identified, exhausted>>
files == <<inputs, corpus, read, critique, state, aside>>
ranks == <<ranker, ranking>>
reviewing == <<preparing, looked, task, review>>
rendering == <<at, out>>
vars == <<inputs, corpus, read, critique, state, identified, exhausted, ranker, ranking,
          preparing, looked, task, review, at, out, kills>>

Included(p) == corpus # None /\ corpus[p] = "included"

Criticised == {p \in Papers : critique[p] # None}

-----------------------------------------------------------------------------
(***************************************************************************)
(* What render_investigation writes                                        *)
(***************************************************************************)

ScoresOf == [p \in Papers |-> IF p \in Criticised THEN critique[p].scores ELSE None]

\* analysis_status of the ReviewPaper, which only included papers have.
Analysis(p) ==
  LET status == task[review.run].papers[p] IN IF status = None THEN "not_analyzed" ELSE status

\* Rank 0 for a paper without a ranking row.
RankShown(p) ==
  LET ranked == task[review.run].ranked
  IN  IF p \in ranked THEN RankAmong(ranked, ScoresOf, p) ELSE 0

\* The rows of report.md, one for every corpus entry: they do not say whether the
\* paper is a member.
Rows == [p \in Papers |-> [analysis |-> Analysis(p), rank |-> RankShown(p)]]

\* The rows of papers.csv do.
MemberRows ==
  [p \in Papers |->
     [membership |-> corpus[p], analysis |-> Analysis(p), rank |-> RankShown(p)]]

\* CorpusAccounting of a reviewer task: how many papers ended in which way.
Accounting(t) ==
  [s \in Memberships \union Outcomes |->
     Cardinality({p \in Papers : corpus[p] = s \/ t.papers[p] = s})]

\* Mutant: failed papers are taken for handled.
OpenUnlessFailed == {p \in Papers : task[review.run].papers[p] = "analysis_unresolved"}

\* The papers listed as unresolved or failed.
Open == {p \in Papers : task[review.run].papers[p] \in {"analysis_unresolved", "failed"}}

Content(f) ==
  CASE f = "report.md" ->
         [counts |-> Accounting(task[review.run]), rows |-> Rows, open |-> Open,
          challenges |-> review.challenges]
    [] f = "papers.csv" -> [rows |-> MemberRows]
    [] f = "human-review.json" -> [open |-> Open, challenges |-> review.challenges]

Analyses == Outcomes \union {"not_analyzed"}

Contents ==
  [counts : [Memberships \union Outcomes -> Nat], rows : [Papers -> [analysis : Analyses, rank : Nat]],
   open : SUBSET Papers, challenges : SUBSET Challenges]
    \union [rows : [Papers -> [membership : Memberships, analysis : Analyses, rank : Nat]]]
    \union [open : SUBSET Papers, challenges : SUBSET Challenges]

ASSUME ContentAssumption == None \notin Contents

Outputs == {Files[i] : i \in 1..3}

TypeOK ==
  /\ inputs \in {"nothing", "inputs", "candidates", "decisions"}
  /\ corpus \in Corpora \union {None}
  /\ read \subseteq Papers
  /\ critique \in [Papers -> Critiques \union {None}]
  /\ state \in [Papers -> Outcomes \union {None}]
  /\ identified \in BOOLEAN
  /\ exhausted \in BOOLEAN
  /\ ranker \in {None} \union SUBSET Papers
  /\ ranking \in {None} \union SUBSET Papers
  /\ preparing \in ReviewRuns \union {None}
  /\ looked \subseteq Papers
  /\ task \in [ReviewRuns -> Tasks \union {None}]
  /\ review \in Reviews \union {None}
  /\ at \in [Renderers -> 0..3]
  /\ out \in [Outputs -> Contents \union {None}]
  /\ kills \in Nat

Init ==
  /\ inputs = "nothing"
  /\ corpus = None
  /\ read = {}
  /\ critique = [p \in Papers |-> None]
  /\ state = [p \in Papers |-> None]
  /\ identified = FALSE
  /\ exhausted = FALSE
  /\ ranker = None
  /\ ranking = None
  /\ preparing = None
  /\ looked = {}
  /\ task = [v \in ReviewRuns |-> None]
  /\ review = None
  /\ at = [x \in Renderers |-> 0]
  /\ out = [f \in Outputs |-> None]
  /\ kills = 0

-----------------------------------------------------------------------------
(***************************************************************************)
(* What the other modules detail                                           *)
(***************************************************************************)

\* create, freeze-candidates, and the first canonical screening record.
Begin ==
  /\ \/ inputs = "nothing" /\ inputs' = "inputs"
     \/ inputs = "inputs" /\ inputs' = "candidates"
     \/ inputs = "candidates" /\ inputs' = "decisions"
  /\ UNCHANGED <<corpus, read, critique, state, aside, ranks, reviewing, rendering, kills>>

\* freeze-candidates writes the identities last, one by one, and this is the last one.
\* Killed before, or stopped by an identity that another investigation has written
\* differently, the command leaves the papers after that without one.
Identify ==
  /\ inputs \in {"candidates", "decisions"}
  /\ identified' = TRUE
  /\ UNCHANGED <<inputs, corpus, read, critique, state, exhausted, ranks, reviewing, rendering,
                 kills>>

\* A screening task, of whatever partition, gets a second invalid or failed outcome:
\* accept-run does not ask how far the investigation is.
Exhaust ==
  /\ inputs \in {"candidates", "decisions"}
  /\ exhausted' = TRUE
  /\ UNCHANGED <<inputs, corpus, read, critique, state, identified, ranks, reviewing, rendering,
                 kills>>

FreezeCorpus ==
  /\ inputs \in {"candidates", "decisions"}
  /\ corpus = None
  /\ corpus' \in Corpora
  /\ UNCHANGED <<inputs, read, critique, state, aside, ranks, reviewing, rendering, kills>>

Read(p) ==
  /\ Included(p)
  /\ read' = read \union {p}
  /\ UNCHANGED <<inputs, corpus, critique, state, aside, ranks, reviewing, rendering, kills>>

Criticise(p) ==
  /\ p \in read
  /\ critique[p] = None
  /\ \E c \in Critiques : critique' = [critique EXCEPT ![p] = c]
  /\ UNCHANGED <<inputs, corpus, read, state, aside, ranks, reviewing, rendering, kills>>

\* The state is that of the critique, or failed: by an attempt, or because the
\* operator says so.
Conclude(p) ==
  /\ Included(p)
  /\ state[p] = None
  /\ \/ p \in Criticised /\ state' = [state EXCEPT ![p] = critique[p].status]
     \/ state' = [state EXCEPT ![p] = "failed"]
  /\ UNCHANGED <<inputs, corpus, read, critique, aside, ranks, reviewing, rendering, kills>>

-----------------------------------------------------------------------------
(***************************************************************************)
(* rank.py                                                                 *)
(***************************************************************************)

\* The walk over the papers begins: neither the corpus nor the states are looked at.
\* With the artifact in place the command changes nothing, and is left out.
ReadCritiques ==
  /\ inputs # "nothing"
  /\ ranking = None
  /\ ranker = None
  /\ ranker' = Criticised
  /\ UNCHANGED <<files, ranking, reviewing, rendering, kills>>

\* It has met the critiques that were there, and may have met some that came since.
WriteRanking ==
  /\ ranker # None
  /\ \E met \in SUBSET Criticised : ranker \subseteq met /\ ranking' = met
  /\ ranker' = None
  /\ UNCHANGED <<files, reviewing, rendering, kills>>

-----------------------------------------------------------------------------
(***************************************************************************)
(* prepare-reviewer and accept-run of its task                             *)
(***************************************************************************)

\* With the task in place the command changes nothing and is left out.
StartReview(v) ==
  /\ corpus # None
  /\ preparing = None
  /\ task[v] = None
  /\ preparing' = v
  /\ UNCHANGED <<files, ranks, looked, task, review, rendering, kills>>

\* A paper needs a state, and ReviewPaper the records that go with it.
Concluded(p) == state[p] # None /\ (state[p] = "failed") = (p \notin Criticised)

\* The files of the next paper: others may be written between two papers.
ReadPaper(p) ==
  /\ preparing # None
  /\ Included(p)
  /\ p \notin looked
  /\ Concluded(p)
  /\ looked' = looked \union {p}
  /\ UNCHANGED <<files, ranks, preparing, task, review, rendering, kills>>

\* The ranking is read last, and may be missing.
WriteTask ==
  /\ preparing # None
  /\ \A p \in Papers : Included(p) => p \in looked
  /\ task' = [task EXCEPT ![preparing] = [papers |-> state, ranked |-> ranking]]
  /\ preparing' = None
  /\ looked' = {}
  /\ UNCHANGED <<files, ranks, review, rendering, kills>>

\* prepare-reviewer fails at a check, or is killed.
EndReview ==
  /\ preparing # None
  /\ preparing' = None
  /\ looked' = {}
  /\ UNCHANGED <<files, ranks, task, review, rendering, kills>>

\* The three counts that a reader must be warned of.
Warned(t) ==
  \E p \in Papers :
    corpus[p] = "membership_unresolved" \/ t.papers[p] \in {"analysis_unresolved", "failed"}

\* Mutant: papers whose membership is not resolved do not count.
StatusOfIncluded(t, challenges, items) ==
  IF items # {} THEN "blocked"
  ELSE IF challenges # {} \/ \E p \in Papers : t.papers[p] \in {"analysis_unresolved", "failed"}
  THEN "ready_with_warnings" ELSE "ready"

\* Mutant: the report status is named like the state of the investigation.
StatusOfInvestigation(t, challenges, items) ==
  IF items # {} THEN "blocked"
  ELSE IF challenges # {} \/ Warned(t) THEN "complete_with_warnings" ELSE "complete"

\* ReviewRecord derives the only report_status it accepts.
StatusOf(t, challenges, items) ==
  IF items # {} THEN "blocked"
  ELSE IF challenges # {} \/ Warned(t) THEN "ready_with_warnings" ELSE "ready"

\* A valid review is promoted unless another one is canonical.
Accept(v) ==
  /\ task[v] # None
  /\ review = None
  /\ \E challenges \in SUBSET Challenges : \E items \in SUBSET challenges :
       review' = [run |-> v, challenges |-> challenges, items |-> items,
                  status |-> StatusOf(task[v], challenges, items)]
  /\ UNCHANGED <<files, ranks, preparing, looked, task, rendering, kills>>

-----------------------------------------------------------------------------
(***************************************************************************)
(* render.py                                                               *)
(***************************************************************************)

\* Mutant: a blocked review is rendered too.
RenderBlocked(x) ==
  /\ at[x] = 0
  /\ review # None
  /\ task[review.run].ranked # None
  /\ identified
  /\ at' = [at EXCEPT ![x] = 1]
  /\ UNCHANGED <<files, ranks, reviewing, out, kills>>

\* The review is not blocked, its task has a ranking, and every corpus entry an identity.
Render(x) ==
  /\ at[x] = 0
  /\ review # None
  /\ review.status # "blocked"
  /\ task[review.run].ranked # None
  /\ identified
  /\ at' = [at EXCEPT ![x] = 1]
  /\ UNCHANGED <<files, ranks, reviewing, out, kills>>

\* Mutant: a report that exists is taken for a set of outputs that is complete.
WriteOnceOnly(x) ==
  /\ at[x] # 0
  /\ out' = [out EXCEPT ![Files[at[x]]] = Content(Files[at[x]])]
  /\ at' = [at EXCEPT ![x] = IF at[x] = 3 \/ out["report.md"] # None THEN 0 ELSE at[x] + 1]
  /\ UNCHANGED <<files, ranks, reviewing, kills>>

\* _atomic_write: the three outputs replace earlier ones, one at a time.
Write(x) ==
  /\ at[x] # 0
  /\ out' = [out EXCEPT ![Files[at[x]]] = Content(Files[at[x]])]
  /\ at' = [at EXCEPT ![x] = IF at[x] = 3 THEN 0 ELSE at[x] + 1]
  /\ UNCHANGED <<files, ranks, reviewing, kills>>

-----------------------------------------------------------------------------

\* rank.py or render.py is killed.
Kill ==
  /\ kills < MaxKills
  /\ kills' = kills + 1
  /\ \/ ranker # None /\ ranker' = None /\ UNCHANGED at
     \/ \E x \in Renderers : at[x] # 0 /\ at' = [at EXCEPT ![x] = 0] /\ UNCHANGED ranker
  /\ UNCHANGED <<files, ranking, reviewing, out>>

Next ==
  \/ Begin \/ FreezeCorpus
  \/ Identify \/ Exhaust
  \/ \E p \in Papers : Read(p) \/ Criticise(p) \/ Conclude(p) \/ ReadPaper(p)
  \/ ReadCritiques \/ WriteRanking
  \/ \E v \in ReviewRuns : StartReview(v) \/ Accept(v)
  \/ WriteTask \/ EndReview
  \/ \E x \in Renderers : Render(x) \/ Write(x)
  \/ Kill

Spec == Init /\ [][Next]_vars

\* The operator runs rank.py and render.py until they have ended, and a process
\* goes on unless it is killed.
FairSpec ==
  /\ Spec
  /\ WF_vars(ReadCritiques) /\ WF_vars(WriteRanking)
  /\ WF_vars(\E x \in Renderers : Render(x)) /\ \A x \in Renderers : WF_vars(Write(x))

-----------------------------------------------------------------------------
(***************************************************************************)
(* The derived state of the investigation                                  *)
(***************************************************************************)

Done == out["report.md"] # None

\* _investigation_status
Status ==
  IF Done THEN IF review.status = "ready_with_warnings" THEN "complete_with_warnings"
               ELSE "complete"
  ELSE IF review # None THEN IF review.status = "blocked" THEN "review_blocked" ELSE "rendering"
  ELSE IF \E v \in ReviewRuns : task[v] # None THEN "reviewing"
  ELSE IF corpus # None
  THEN IF \E p \in Papers : p \in read \/ state[p] # None
       THEN "analyzing" ELSE "corpus_frozen"
  ELSE CASE inputs = "decisions" -> "screening"
         [] inputs = "candidates" -> "candidates_frozen"
         [] inputs = "inputs" -> "inputs_validated"
         [] inputs = "nothing" -> "draft"

\* Mutant: the screening records are looked for before the corpus.
ShownByScreening ==
  IF exhausted THEN "failed"
  ELSE IF Done THEN "complete"
  ELSE IF review # None THEN IF review.status = "blocked" THEN "review_blocked" ELSE "rendering"
  ELSE IF inputs = "decisions" THEN "screening"
  ELSE IF corpus # None THEN "analyzing"
  ELSE CASE inputs = "candidates" -> "candidates_frozen"
         [] inputs = "inputs" -> "inputs_validated"
         [] inputs = "nothing" -> "draft"

\* cmd_status: a screening run that failed at attempt 2 comes before everything else.
ShownStatus ==
  IF exhausted THEN "failed"
  ELSE IF Done THEN "complete"
  ELSE IF review # None THEN IF review.status = "blocked" THEN "review_blocked" ELSE "rendering"
  ELSE IF corpus # None THEN "analyzing"
  ELSE CASE inputs = "decisions" -> "screening"
         [] inputs = "candidates" -> "candidates_frozen"
         [] inputs = "inputs" -> "inputs_validated"
         [] inputs = "nothing" -> "draft"

-----------------------------------------------------------------------------
(***************************************************************************)
(* Properties                                                              *)
(***************************************************************************)

\* The state of an investigation, read off the files that exist, only ever moves
\* forward in the diagram of workflow/state.py, whatever is killed in between;
\* above all a blocked review is never followed by a rendered report.
Diagram == INSTANCE InvestigationStates WITH status <- Status
FollowsInvestigationStates == Diagram!ISpec

\* What cmd_status shows moves forward in the same diagram, although it is derived
\* from other files in another order, or turns to failed, whatever was shown before;
\* a screening failure is never forgotten.
ShownGoesForward ==
  [][ShownStatus # "failed" /\ ShownStatus' \in Diagram!Later(ShownStatus) \union {"failed"}]_ShownStatus

\* The diagram calls complete and review_blocked final; what cmd_status shows is not
\* bound by it.
ShownFollowsDiagram == [][ShownStatus' \in Diagram!Later(ShownStatus)]_ShownStatus

\* A review that reports no warning speaks of a corpus that is settled, and of
\* papers that are all complete, in the files as they are now and not only in
\* the task the review was made from.
ReadyIsClean ==
  review # None /\ review.status = "ready" =>
    \A p \in Papers :
      \/ corpus[p] = "included" /\ state[p] = "complete" /\ p \in Criticised
      \/ corpus[p] = "excluded"

\* Nothing is lost on the way to the reader: an output, whoever wrote it and
\* however often, lists every paper the paper states leave open and every challenge
\* of the canonical review, and shows each member as it ended and no other paper as
\* analysed.  That a paper is unresolved rather than excluded is in the rows of
\* papers.csv, and in report.md only in the counts.
OutputsAccount ==
  /\ \A f \in {"report.md", "human-review.json"} : out[f] # None =>
       /\ out[f].open = {p \in Papers : state[p] \in {"analysis_unresolved", "failed"}}
       /\ out[f].challenges = review.challenges
  /\ \A f \in {"report.md", "papers.csv"} : out[f] # None =>
       \A p \in Papers :
         out[f].rows[p].analysis = IF Included(p) THEN state[p] ELSE "not_analyzed"
  /\ out["papers.csv"] # None =>
       \A p \in Papers : out["papers.csv"].rows[p].membership = corpus[p]
  /\ out["report.md"] # None =>
       /\ \A s \in Memberships :
            out["report.md"].counts[s] = Cardinality({p \in Papers : corpus[p] = s})
       /\ \A s \in Outcomes :
            out["report.md"].counts[s] = Cardinality({p \in Papers : state[p] = s})

\* The ranks shown are those of an order: distinct, without gaps, no paper that fails
\* a gate before one that passes, among papers that pass alike by the total score as
\* it is rounded, and by id when that is equal.
RanksAreAnOrder ==
  out["papers.csv"] # None =>
    LET Rank(p) == out["papers.csv"].rows[p].rank
        Ranked == {p \in Papers : Rank(p) # 0}
        Score(p) == TotalScore(critique[p].scores)
    IN  /\ {Rank(p) : p \in Ranked} = 1..Cardinality(Ranked)
        /\ \A p, q \in Ranked : Rank(p) < Rank(q) =>
             /\ Passes(critique[q].scores) => Passes(critique[p].scores)
             /\ Passes(critique[p].scores) = Passes(critique[q].scores)
                  => Score(p) > Score(q) \/ (Score(p) = Score(q) /\ p < q)

\* A review that is not blocked and has a ranking to render ends in all three outputs,
\* although a renderer may be killed between any two, if freeze-candidates has got as
\* far as the identities of all papers.
RankedReviewIsRendered ==
  (/\ review # None
   /\ review.status # "blocked"
   /\ task[review.run].ranked # None
   /\ identified)
    ~> \A f \in Outputs : out[f] # None

\* What the architecture diagrams promise of a review that is not blocked: rank
\* and render follow it.  That papers may lack an identity is not held against it.
ReviewIsRendered ==
  (review # None /\ review.status # "blocked" /\ identified)
    ~> out["report.md"] # None
=============================================================================
