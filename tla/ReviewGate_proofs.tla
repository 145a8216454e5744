-------------------------- MODULE ReviewGate_proofs --------------------------
(***************************************************************************)
(* The guarantees of ReviewGate, proved for any papers, objective profile, *)
(* reviewer runs, challenges, renderers and number of kills.               *)
(***************************************************************************)
EXTENDS ReviewGate, Ranking_proofs

\* Every included paper is settled, and can no longer change.
AllStated ==
  \A p \in Papers : Included(p) =>
    state[p] # None /\ (state[p] # "failed" => p \in Criticised)

\* Only included papers are worked on.
OnlyIncluded == \A p \in Papers : state[p] # None \/ p \in read => Included(p)

\* What prepare-reviewer has seen of a paper stays true while it reads on.
Prepared ==
  /\ preparing # None => corpus # None /\ task[preparing] = None
  /\ \A p \in looked : state[p] # None /\ (state[p] # "failed" => p \in Criticised)

\* What a task says of the papers stays true.
Tasked ==
  \A v \in ReviewRuns : task[v] # None => corpus # None /\ AllStated /\ task[v].papers = state

Reviewed ==
  review # None =>
    /\ task[review.run] # None
    /\ review.status = "ready" => ~ Warned(task[review.run])

\* What is rendered is a review that is not blocked, and has ranks to show.
ReadyToRender ==
  review # None /\ review.status # "blocked" /\ task[review.run].ranked # None

Rendered ==
  /\ \A x \in Renderers : at[x] # 0 => ReadyToRender
  /\ \A f \in Outputs : out[f] # None => ReadyToRender

GateInv == TypeOK /\ OnlyIncluded /\ Prepared /\ Tasked /\ Reviewed /\ Rendered

LEMMA OutputNames ==
  /\ Outputs = {"report.md", "papers.csv", "human-review.json"}
  /\ \A i \in 1..3 : Files[i] \in Outputs
  /\ Files[1] = "report.md" /\ Files[2] = "papers.csv" /\ Files[3] = "human-review.json"
<1>1. Files[1] = "report.md" /\ Files[2] = "papers.csv" /\ Files[3] = "human-review.json"
  BY DEF Files
<1>2. 1..3 = {1, 2, 3}
  OBVIOUS
<1> QED
  BY <1>1, <1>2 DEF Outputs

LEMMA NoneIsNothing ==
  /\ None \notin Corpora /\ None \notin Critiques /\ None \notin Tasks /\ None \notin Reviews
  /\ None \notin ReviewRuns /\ None \notin Outcomes /\ None \notin Memberships
  /\ None \notin Contents
BY NoneAssumption, ContentAssumption

\* The parts of the type invariant, one for each variable.
LEMMA Types ==
  ASSUME TypeOK
  PROVE  /\ corpus # None => corpus \in Corpora /\ \A p \in Papers : corpus[p] \in Memberships
         /\ \A p \in Papers : state[p] \in Outcomes \union {None}
         /\ \A v \in ReviewRuns : task[v] # None =>
              /\ task[v] \in Tasks
              /\ \A p \in Papers : task[v].papers[p] \in Outcomes \union {None}
              /\ task[v].ranked # None => task[v].ranked \subseteq Papers
         /\ review # None => /\ review.run \in ReviewRuns
                             /\ review.challenges \subseteq Challenges
                             /\ review.status \in {"ready", "ready_with_warnings", "blocked"}
BY NoneAssumption DEF TypeOK, Corpora, Tasks, Reviews

LEMMA RankType ==
  ASSUME NEW ranked \in SUBSET Papers, NEW scores, NEW p
  PROVE  RankAmong(ranked, scores, p) \in Nat
<1> DEFINE ahead == {q \in ranked : Before(q, scores[q], p, scores[p])}
<1>1. IsFiniteSet(ahead)
  <2>1. ahead \subseteq Papers
    OBVIOUS
  <2> HIDE DEF ahead
  <2> QED
    BY <2>1, PaperAssumption, FS_Subset
<1>2. Cardinality(ahead) \in Nat
  BY <1>1, FS_CardinalityType
<1> QED
  BY <1>2 DEF RankAmong

\* However many papers end in one way, it is a number.
LEMMA Counted ==
  ASSUME NEW chosen \in SUBSET Papers
  PROVE  Cardinality(chosen) \in Nat
BY PaperAssumption, FS_Subset, FS_CardinalityType

LEMMA ContentType ==
  ASSUME TypeOK, corpus # None, review # None, task[review.run] # None,
         task[review.run].ranked # None, NEW f \in Outputs
  PROVE  Content(f) \in Contents
<1> DEFINE t == task[review.run]
<1>1. /\ \A p \in Papers : corpus[p] \in Memberships
      /\ \A p \in Papers : t.papers[p] \in Outcomes \union {None}
      /\ t.ranked \subseteq Papers /\ review.challenges \subseteq Challenges
  BY Types
<1>2. \A p \in Papers : Analysis(p) \in Analyses
  BY <1>1 DEF Analysis, Analyses
<1>3. \A p \in Papers : RankShown(p) \in Nat
  BY <1>1, RankType DEF RankShown
<1>4. Rows \in [Papers -> [analysis : Analyses, rank : Nat]]
  BY <1>2, <1>3 DEF Rows
<1>5. MemberRows \in [Papers -> [membership : Memberships, analysis : Analyses, rank : Nat]]
  BY <1>1, <1>2, <1>3 DEF MemberRows
<1>6. Open \in SUBSET Papers
  BY DEF Open
<1>7. Accounting(t) \in [Memberships \union Outcomes -> Nat]
  <2> SUFFICES ASSUME NEW s \in Memberships \union Outcomes
               PROVE  Cardinality({p \in Papers : corpus[p] = s \/ t.papers[p] = s}) \in Nat
    BY DEF Accounting
  <2> QED
    BY Counted
<1>8. CASE f = "report.md"
  BY <1>1, <1>4, <1>6, <1>7, <1>8 DEF Content, Contents
<1>9. CASE f = "papers.csv"
  BY <1>5, <1>9 DEF Content, Contents
<1>10. CASE f = "human-review.json"
  BY <1>1, <1>6, <1>10 DEF Content, Contents
<1> QED
  BY <1>8, <1>9, <1>10, OutputNames

-----------------------------------------------------------------------------
(***************************************************************************)
(* The invariant                                                           *)
(***************************************************************************)

LEMMA GateInit == Init => GateInv
<1> SUFFICES ASSUME Init PROVE GateInv
  OBVIOUS
<1>1. TypeOK
  <2>1. identified \in BOOLEAN /\ exhausted \in BOOLEAN
    BY Zenon DEF Init
  <2> QED
    BY <2>1 DEF Init, TypeOK
<1>2. OnlyIncluded /\ Prepared /\ Tasked
  BY DEF Init, OnlyIncluded, Prepared, Tasked
<1>3. Reviewed /\ Rendered
  BY DEF Init, Reviewed, Rendered
<1> QED
  BY <1>1, <1>2, <1>3 DEF GateInv

\* A step that leaves alone the corpus, the states, the tasks and the review.
LEMMA Settled ==
  ASSUME GateInv, TypeOK', UNCHANGED <<corpus, state, preparing, looked, task, review>>,
         \A p \in Papers : p \in Criticised => p \in Criticised',
         \A p \in Papers : p \in read' => p \in read \/ Included(p)
  PROVE  OnlyIncluded' /\ Prepared' /\ Tasked' /\ Reviewed'
<1>1. OnlyIncluded'
  BY DEF GateInv, OnlyIncluded, Included
<1>2. AllStated => AllStated'
  BY DEF AllStated, Included
<1>3. Prepared' /\ Tasked'
  BY <1>2 DEF GateInv, TypeOK, Prepared, Tasked
<1>4. Reviewed'
  BY DEF GateInv, Reviewed, Warned
<1> QED
  BY <1>1, <1>3, <1>4

LEMMA RenderedStays ==
  ASSUME GateInv, UNCHANGED <<at, out, review>>,
         review # None => task'[review.run] = task[review.run]
  PROVE  Rendered'
BY DEF GateInv, Rendered, ReadyToRender

LEMMA GateStep == GateInv /\ [Next]_vars => GateInv'
<1> SUFFICES ASSUME GateInv, [Next]_vars PROVE GateInv'
  OBVIOUS
<1> USE DEF files, aside, ranks, reviewing, rendering
<1>1. CASE Begin \/ Identify \/ Exhaust
  <2>1. TypeOK'
    BY <1>1 DEF Begin, Identify, Exhaust, GateInv, TypeOK
  <2>2. OnlyIncluded' /\ Prepared' /\ Tasked' /\ Reviewed'
    BY <1>1, <2>1, Settled DEF Begin, Identify, Exhaust, Criticised
  <2> QED
    BY <1>1, <2>1, <2>2, RenderedStays DEF Begin, Identify, Exhaust, GateInv
<1>2. CASE FreezeCorpus
  <2>1. TypeOK'
    BY <1>2 DEF FreezeCorpus, GateInv, TypeOK
  <2>2. /\ preparing = None /\ \A v \in ReviewRuns : task[v] = None
        /\ looked = {}
        /\ \A p \in Papers : state[p] = None /\ p \notin read
    BY <1>2 DEF FreezeCorpus, GateInv, TypeOK, Prepared, Tasked, OnlyIncluded, Included
  <2>3. review = None
    BY <2>2, Types DEF GateInv, Reviewed
  <2>4. OnlyIncluded' /\ Prepared' /\ Tasked' /\ Reviewed'
    BY <1>2, <2>2, <2>3 DEF FreezeCorpus, OnlyIncluded, Prepared, Tasked, Reviewed
  <2> QED
    BY <1>2, <2>1, <2>4, RenderedStays DEF FreezeCorpus, GateInv
<1>3. ASSUME NEW p \in Papers, Read(p) PROVE GateInv'
  <2>1. TypeOK'
    BY <1>3 DEF Read, GateInv, TypeOK
  <2>2. OnlyIncluded' /\ Prepared' /\ Tasked' /\ Reviewed'
    BY <1>3, <2>1, Settled DEF Read, Criticised
  <2> QED
    BY <1>3, <2>1, <2>2, RenderedStays DEF Read, GateInv
<1>4. ASSUME NEW p \in Papers, Criticise(p) PROVE GateInv'
  <2>1. TypeOK'
    BY <1>4 DEF Criticise, GateInv, TypeOK
  <2>2. PICK c \in Critiques : critique' = [critique EXCEPT ![p] = c]
    BY <1>4 DEF Criticise
  <2>3. \A q \in Papers : q \in Criticised => q \in Criticised'
    BY <2>2, NoneIsNothing DEF Criticised, GateInv, TypeOK
  <2>4. OnlyIncluded' /\ Prepared' /\ Tasked' /\ Reviewed'
    BY <1>4, <2>1, <2>3, Settled DEF Criticise
  <2> QED
    BY <1>4, <2>1, <2>4, RenderedStays DEF Criticise, GateInv
<1>5. ASSUME NEW p \in Papers, Conclude(p) PROVE GateInv'
  <2>1. PICK s \in Outcomes : state' = [state EXCEPT ![p] = s]
    <3>1. "failed" \in Outcomes
      BY DEF Outcomes
    <3>2. p \in Criticised => critique[p].status \in Outcomes
      BY DEF GateInv, TypeOK, Criticised, Critiques, Outcomes
    <3> QED
      BY <1>5, <3>1, <3>2 DEF Conclude
  <2>2. TypeOK'
    BY <1>5, <2>1 DEF Conclude, GateInv, TypeOK
  <2>3. ~ AllStated
    BY <1>5 DEF Conclude, AllStated
  <2>4. p \notin looked /\ (\A v \in ReviewRuns : task[v] = None)
    BY <1>5, <2>3 DEF Conclude, GateInv, Prepared, Tasked
  <2>5. review = None
    BY <2>4, Types DEF GateInv, Reviewed
  <2>6. OnlyIncluded'
    BY <1>5, <2>1 DEF Conclude, GateInv, TypeOK, OnlyIncluded, Included
  <2>7. Prepared'
    <3>1. \A q \in looked : state'[q] = state[q]
      BY <2>1, <2>4 DEF GateInv, TypeOK
    <3> QED
      BY <1>5, <3>1 DEF Conclude, GateInv, Prepared, Criticised
  <2>8. Tasked' /\ Reviewed'
    BY <1>5, <2>4, <2>5 DEF Conclude, Tasked, Reviewed
  <2> QED
    BY <1>5, <2>2, <2>6, <2>7, <2>8, RenderedStays DEF Conclude, GateInv
<1>6. CASE ReadCritiques \/ WriteRanking
  <2>1. TypeOK'
    BY <1>6 DEF ReadCritiques, WriteRanking, Criticised, GateInv, TypeOK
  <2>2. OnlyIncluded' /\ Prepared' /\ Tasked' /\ Reviewed'
    BY <1>6, <2>1, Settled DEF ReadCritiques, WriteRanking, Criticised
  <2> QED
    BY <1>6, <2>1, <2>2, RenderedStays DEF ReadCritiques, WriteRanking, GateInv
<1>7. CASE EndReview \/ (\E v \in ReviewRuns : StartReview(v)) \/ (\E p \in Papers : ReadPaper(p))
  <2>1. TypeOK'
    BY <1>7 DEF EndReview, StartReview, ReadPaper, GateInv, TypeOK
  <2>2. AllStated' = AllStated
    BY <1>7 DEF EndReview, StartReview, ReadPaper, AllStated, Included, Criticised
  <2>3. Prepared'
    BY <1>7, NoneIsNothing DEF EndReview, StartReview, ReadPaper, Concluded, GateInv, Prepared,
       Criticised
  <2>4. OnlyIncluded' /\ Tasked'
    BY <1>7, <2>2 DEF EndReview, StartReview, ReadPaper, GateInv, OnlyIncluded, Included, Tasked
  <2>5. Reviewed'
    BY <1>7 DEF EndReview, StartReview, ReadPaper, GateInv, Reviewed, Warned
  <2> QED
    BY <1>7, <2>1, <2>3, <2>4, <2>5, RenderedStays DEF EndReview, StartReview, ReadPaper, GateInv
<1>8. CASE WriteTask
  <2> DEFINE v == preparing
             t == [papers |-> state, ranked |-> ranking]
  <2>1. v \in ReviewRuns /\ t \in Tasks /\ task[v] = None /\ corpus # None /\ AllStated
    BY <1>8 DEF WriteTask, GateInv, TypeOK, Prepared, Tasks, AllStated
  <2>2. task \in [ReviewRuns -> Tasks \union {None}]
    BY DEF GateInv, TypeOK
  <2>3. task' = [task EXCEPT ![v] = t] /\ UNCHANGED <<corpus, state, critique, read, review, at, out>>
    BY <1>8 DEF WriteTask
  <2>4. /\ task' \in [ReviewRuns -> Tasks \union {None}]
        /\ task'[v] = t /\ \A w \in ReviewRuns : w # v => task'[w] = task[w]
    <3> HIDE DEF v, t
    <3> QED
      BY <2>1, <2>2, <2>3
  <2>5. TypeOK'
    BY <1>8, <2>4 DEF WriteTask, GateInv, TypeOK
  <2>6. AllStated'
    BY <2>1, <2>3 DEF AllStated, Included, Criticised
  <2>7. OnlyIncluded'
    BY <2>3 DEF GateInv, OnlyIncluded, Included
  <2>8. Prepared'
    BY <1>8 DEF WriteTask, GateInv, TypeOK, Prepared
  <2>9. Tasked'
    BY <2>1, <2>3, <2>4, <2>6 DEF GateInv, Tasked
  <2>10. review # None => task'[review.run] = task[review.run]
    BY <2>1, <2>4, Types DEF GateInv, Reviewed
  <2>11. Reviewed'
    BY <2>3, <2>10 DEF GateInv, Reviewed, Warned
  <2> QED
    BY <2>3, <2>5, <2>7, <2>8, <2>9, <2>10, <2>11, RenderedStays DEF GateInv
<1>9. ASSUME NEW v \in ReviewRuns, Accept(v) PROVE GateInv'
  <2>1. PICK challenges \in SUBSET Challenges : \E items \in SUBSET challenges :
          review' = [run |-> v, challenges |-> challenges, items |-> items,
                     status |-> StatusOf(task[v], challenges, items)]
    BY <1>9 DEF Accept
  <2>2. PICK items \in SUBSET challenges :
          review' = [run |-> v, challenges |-> challenges, items |-> items,
                     status |-> StatusOf(task[v], challenges, items)]
    BY <2>1
  <2>3. /\ StatusOf(task[v], challenges, items) \in {"ready", "ready_with_warnings", "blocked"}
        /\ StatusOf(task[v], challenges, items) = "ready" => ~ Warned(task[v])
    BY DEF StatusOf
  <2>4. review' \in Reviews
    BY <2>2, <2>3 DEF Reviews
  <2>5. UNCHANGED <<files, ranks, preparing, looked, task, rendering, kills>> /\ task[v] # None /\ review = None
    BY <1>9 DEF Accept
  <2>6. TypeOK'
    BY <2>4, <2>5 DEF GateInv, TypeOK
  <2>7. review'.run = v /\ (review'.status = "ready" => ~ Warned(task[v]))
    BY <2>2, <2>3
  <2>8. Warned(task[v])' = Warned(task[v])
    BY <2>5 DEF Warned
  <2>9. Reviewed'
    BY <2>5, <2>7, <2>8 DEF Reviewed, Warned
  <2>10. AllStated' = AllStated
    BY <2>5 DEF AllStated, Included, Criticised
  <2>11. OnlyIncluded' /\ Prepared' /\ Tasked'
    BY <2>5, <2>10 DEF GateInv, OnlyIncluded, Included, Prepared, Tasked, Criticised
  <2>12. Rendered'
    BY <2>5 DEF GateInv, Rendered, ReadyToRender
  <2> QED
    BY <2>6, <2>9, <2>11, <2>12 DEF GateInv
<1>10. ASSUME NEW x \in Renderers, Render(x) PROVE GateInv'
  <2>1. TypeOK'
    BY <1>10 DEF Render, GateInv, TypeOK
  <2>2. OnlyIncluded' /\ Prepared' /\ Tasked' /\ Reviewed'
    BY <1>10, <2>1, Settled DEF Render, Criticised
  <2>3. ReadyToRender /\ UNCHANGED <<review, task, out>>
    BY <1>10 DEF Render, ReadyToRender
  <2>4. Rendered'
    BY <2>3 DEF GateInv, Rendered, ReadyToRender
  <2> QED
    BY <2>1, <2>2, <2>4 DEF GateInv
<1>11. ASSUME NEW x \in Renderers, Write(x) PROVE GateInv'
  <2> DEFINE f == Files[at[x]]
             content == Content(f)
  <2>1. at[x] \in 1..3 /\ ReadyToRender
    BY <1>11 DEF Write, GateInv, TypeOK, Rendered
  <2>2. f \in Outputs
    BY <2>1, OutputNames
  <2>3. task[review.run] # None /\ corpus # None
    BY <2>1, Types DEF ReadyToRender, GateInv, Reviewed, Tasked
  <2>4. content \in Contents
    BY <2>1, <2>2, <2>3, ContentType DEF ReadyToRender, GateInv
  <2>5. /\ out' = [out EXCEPT ![f] = content] /\ UNCHANGED <<files, ranks, reviewing, kills>>
        /\ at' = [at EXCEPT ![x] = IF at[x] = 3 THEN 0 ELSE at[x] + 1]
    BY <1>11 DEF Write
  <2>6. out' \in [Outputs -> Contents \union {None}]
    <3>1. out \in [Outputs -> Contents \union {None}]
      BY DEF GateInv, TypeOK
    <3> HIDE DEF f, content
    <3> QED
      BY <2>2, <2>4, <2>5, <3>1
  <2>7. at' \in [Renderers -> 0..3]
    BY <2>1, <2>5 DEF GateInv, TypeOK
  <2>8. TypeOK'
    BY <2>5, <2>6, <2>7 DEF GateInv, TypeOK
  <2>9. OnlyIncluded' /\ Prepared' /\ Tasked' /\ Reviewed'
    BY <2>5, <2>8, Settled DEF Criticised
  <2>10. Rendered'
    BY <2>1, <2>5 DEF Rendered, ReadyToRender
  <2> QED
    BY <2>8, <2>9, <2>10 DEF GateInv
<1>12. CASE Kill
  <2>1. at' \in [Renderers -> 0..3] /\ \A x \in Renderers : at'[x] # 0 => at[x] # 0
    BY <1>12 DEF Kill, GateInv, TypeOK
  <2>2. UNCHANGED <<files, ranking, reviewing, out>> /\ ranker' \in {None, ranker} /\ kills' = kills + 1
    BY <1>12 DEF Kill
  <2>3. TypeOK'
    BY <2>1, <2>2 DEF GateInv, TypeOK
  <2>4. AllStated' = AllStated
    BY <2>2 DEF AllStated, Included, Criticised
  <2>5. OnlyIncluded' /\ Prepared' /\ Tasked'
    BY <2>2, <2>4 DEF GateInv, OnlyIncluded, Included, Prepared, Tasked, Criticised
  <2>6. Reviewed'
    BY <2>2 DEF GateInv, Reviewed, Warned
  <2>7. Rendered'
    BY <2>1, <2>2 DEF GateInv, Rendered, ReadyToRender
  <2> QED
    BY <2>3, <2>5, <2>6, <2>7 DEF GateInv
<1>13. CASE UNCHANGED vars
  <2>1. TypeOK'
    BY <1>13 DEF vars, GateInv, TypeOK
  <2>2. OnlyIncluded' /\ Prepared' /\ Tasked' /\ Reviewed'
    BY <1>13, <2>1, Settled DEF vars, Criticised
  <2> QED
    BY <1>13, <2>1, <2>2, RenderedStays DEF vars, GateInv
<1> QED
  BY <1>1, <1>2, <1>3, <1>4, <1>5, <1>6, <1>7, <1>8, <1>9, <1>10, <1>11, <1>12, <1>13 DEF Next

\* The gate never lets through what is not settled.
THEOREM Gate == Spec => []GateInv
BY GateInit, GateStep, PTL DEF Spec

\* The files and the state of the processes have their types.
THEOREM TypeCorrect == Spec => []TypeOK
<1>1. GateInv => TypeOK
  BY DEF GateInv
<1> QED
  BY <1>1, Gate, PTL

-----------------------------------------------------------------------------
(***************************************************************************)
(* What the reader is told                                                 *)
(***************************************************************************)

\* A review without warnings speaks of papers that are complete, also now.
THEOREM CleanReviews == Spec => []ReadyIsClean
<1>1. GateInv => ReadyIsClean
  <2> SUFFICES ASSUME GateInv, review # None, review.status = "ready", NEW p \in Papers
               PROVE  \/ corpus[p] = "included" /\ state[p] = "complete" /\ p \in Criticised
                      \/ corpus[p] = "excluded"
    BY DEF ReadyIsClean
  <2> DEFINE t == task[review.run]
  <2>1. review.run \in ReviewRuns /\ t # None /\ ~ Warned(t)
    BY Types DEF GateInv, Reviewed
  <2>2. corpus # None /\ AllStated /\ t.papers = state
    BY <2>1 DEF GateInv, Tasked
  <2>3. corpus[p] \in Memberships /\ state[p] \in Outcomes \union {None}
    BY <2>2, Types DEF GateInv
  <2>4. corpus[p] # "membership_unresolved" /\ state[p] \notin {"analysis_unresolved", "failed"}
    BY <2>1, <2>2 DEF Warned
  <2>5. CASE corpus[p] = "included"
    <3>1. state[p] # None /\ (state[p] # "failed" => p \in Criticised)
      BY <2>2, <2>5 DEF AllStated, Included
    <3> QED
      BY <2>3, <2>4, <2>5, <3>1 DEF Outcomes
  <2> QED
    BY <2>3, <2>4, <2>5 DEF Memberships
<1> QED
  BY <1>1, Gate, PTL

\* Once there is an output, what it was made from does not change.
LEMMA OutputsStand ==
  ASSUME GateInv, [Next]_vars, ReadyToRender
  PROVE  UNCHANGED <<corpus, state, review>> /\ task'[review.run] = task[review.run]
<1> USE DEF files, aside, ranks, reviewing, rendering
<1>1. /\ review # None /\ review.run \in ReviewRuns /\ task[review.run] # None
      /\ corpus # None /\ AllStated
  BY Types DEF ReadyToRender, GateInv, Reviewed, Tasked
<1>2. \A p \in Papers : ~ Conclude(p)
  BY <1>1 DEF Conclude, AllStated
<1>3. ~ FreezeCorpus /\ \A v \in ReviewRuns : ~ Accept(v)
  BY <1>1 DEF FreezeCorpus, Accept
<1>4. CASE WriteTask
  <2>1. preparing # review.run
    BY <1>1, <1>4 DEF WriteTask, GateInv, Prepared
  <2> QED
    BY <1>1, <1>4, <2>1 DEF WriteTask, GateInv, TypeOK
<1>5. CASE ~ WriteTask
  BY <1>2, <1>3, <1>5 DEF Next, Begin, Identify, Exhaust, Read, Criticise, ReadCritiques,
     WriteRanking, StartReview,
     ReadPaper, EndReview,
     Render, Write, Kill, vars
<1> QED
  BY <1>4, <1>5

\* What the rows of an output show of each paper.
RowsShow(content) ==
  \A p \in Papers :
    content.rows[p].analysis = IF Included(p) THEN state[p] ELSE "not_analyzed"

\* What an output shows, in terms of the files as they are now.
Shows(f, content) ==
  /\ f \in {"report.md", "human-review.json"} =>
       /\ content.open = {p \in Papers : state[p] \in {"analysis_unresolved", "failed"}}
       /\ content.challenges = review.challenges
  /\ f \in {"report.md", "papers.csv"} => RowsShow(content)
  /\ f = "papers.csv" => \A p \in Papers : content.rows[p].membership = corpus[p]
  /\ f = "report.md" =>
       /\ \A s \in Memberships : content.counts[s] = Cardinality({p \in Papers : corpus[p] = s})
       /\ \A s \in Outcomes : content.counts[s] = Cardinality({p \in Papers : state[p] = s})

\* An excluded paper does not count as one that was analysed, nor the reverse.
LEMMA NamesApart == Memberships \intersect Outcomes = {} /\ "not_analyzed" \notin Outcomes
BY DEF Memberships, Outcomes

LEMMA ContentShows ==
  ASSUME GateInv, ReadyToRender, NEW f \in Outputs
  PROVE  Shows(f, Content(f))
<1> DEFINE t == task[review.run]
<1>1. review.run \in ReviewRuns /\ t # None
  BY Types DEF ReadyToRender, GateInv, Reviewed
<1>2. t.papers = state /\ corpus # None /\ AllStated
  BY <1>1 DEF GateInv, Tasked
<1>3. Open = {p \in Papers : state[p] \in {"analysis_unresolved", "failed"}}
  BY <1>2 DEF Open
<1>4. \A p \in Papers : Analysis(p) = IF Included(p) THEN state[p] ELSE "not_analyzed"
  BY <1>2 DEF Analysis, AllStated, GateInv, OnlyIncluded
<1>5. /\ \A p \in Papers : corpus[p] \in Memberships /\ state[p] \in Outcomes \union {None}
      /\ None \notin Outcomes
  BY <1>2, Types, NoneIsNothing DEF GateInv
<1>6. \A s \in Memberships : Accounting(t)[s] = Cardinality({p \in Papers : corpus[p] = s})
  <2> TAKE s \in Memberships
  <2>1. \A p \in Papers : state[p] # s
    BY <1>5, NamesApart, NoneIsNothing
  <2>2. {p \in Papers : corpus[p] = s \/ state[p] = s} = {p \in Papers : corpus[p] = s}
    BY <2>1
  <2> QED
    BY <1>2, <2>2 DEF Accounting
<1>7. \A s \in Outcomes : Accounting(t)[s] = Cardinality({p \in Papers : state[p] = s})
  <2> TAKE s \in Outcomes
  <2>1. \A p \in Papers : corpus[p] # s
    BY <1>5, NamesApart
  <2>2. {p \in Papers : corpus[p] = s \/ state[p] = s} = {p \in Papers : state[p] = s}
    BY <2>1
  <2> QED
    BY <1>2, <2>2 DEF Accounting
<1> HIDE DEF t
<1>8. CASE f = "report.md"
  <2>1. RowsShow(Content(f))
    BY <1>4, <1>8 DEF Content, Rows, RowsShow
  <2>2. /\ Content(f).open = Open /\ Content(f).challenges = review.challenges
        /\ Content(f).counts = Accounting(t)
    BY <1>8 DEF Content, t
  <2> QED
    BY <1>3, <1>6, <1>7, <1>8, <2>1, <2>2 DEF Shows
<1>9. CASE f = "papers.csv"
  BY <1>4, <1>9 DEF Content, MemberRows, RowsShow, Shows
<1>10. CASE f = "human-review.json"
  BY <1>3, <1>10 DEF Content, Shows
<1> QED
  BY <1>8, <1>9, <1>10, OutputNames

\* Every output there is shows it.
AllShow == \A f \in Outputs : out[f] # None => Shows(f, out[f])

LEMMA ShowsStays ==
  ASSUME NEW f, NEW content, Shows(f, content), UNCHANGED <<corpus, state, review>>
  PROVE  Shows(f, content)'
BY DEF Shows, RowsShow, Included

LEMMA ShowStep == GateInv /\ AllShow /\ [Next]_vars => AllShow'
<1> SUFFICES ASSUME GateInv, AllShow, [Next]_vars, NEW f \in Outputs, out'[f] # None,
                    NEW content, content = out'[f]
             PROVE  Shows(f, content)'
  BY DEF AllShow
<1>1. CASE out'[f] = out[f]
  <2>1. ReadyToRender
    BY <1>1 DEF GateInv, Rendered
  <2>2. Shows(f, content)
    BY <1>1 DEF AllShow
  <2> QED
    BY <2>1, <2>2, OutputsStand, ShowsStays
<1>2. CASE out'[f] # out[f]
  <2>1. PICK x \in Renderers : Write(x)
    BY <1>2 DEF Next, Begin, Identify, Exhaust, FreezeCorpus, Read, Criticise, Conclude,
       ReadCritiques, WriteRanking,
       StartReview, ReadPaper, EndReview, WriteTask, Accept, Render, Kill, vars, files, aside, ranks,
          reviewing, rendering
  <2> DEFINE g == Files[at[x]]
  <2>2. at[x] \in 1..3 /\ ReadyToRender
    BY <2>1 DEF Write, GateInv, TypeOK, Rendered
  <2>3. g \in Outputs
    BY <2>2, OutputNames
  <2>4. out' = [out EXCEPT ![g] = Content(g)]
    BY <2>1 DEF Write
  <2> HIDE DEF g
  <2>5. f = g /\ content = Content(f)
    BY <1>2, <2>3, <2>4 DEF GateInv, TypeOK
  <2>6. Shows(f, content)
    BY <2>2, <2>5, ContentShows
  <2> QED
    BY <2>2, <2>6, OutputsStand, ShowsStays
<1> QED
  BY <1>1, <1>2

\* Nothing is lost on the way to the reader, who was killed and whatever was written twice.
THEOREM AccountedOutputs == Spec => []OutputsAccount
<1>1. Init => AllShow
  BY DEF Init, AllShow
<1>2. AllShow => OutputsAccount
  <2> SUFFICES ASSUME AllShow PROVE OutputsAccount
    OBVIOUS
  <2>1. \A f \in {"report.md", "human-review.json"} : f \in Outputs
    BY OutputNames
  <2>2. \A f \in {"report.md", "papers.csv"} : f \in Outputs
    BY OutputNames
  <2> QED
    BY <2>1, <2>2 DEF AllShow, Shows, RowsShow, OutputsAccount
<1> QED
  BY <1>1, <1>2, ShowStep, Gate, PTL DEF Spec

-----------------------------------------------------------------------------
(***************************************************************************)
(* The ranks that the reader sees                                          *)
(***************************************************************************)

\* Whoever is ranked has a critique, which nobody takes back.
OnlyCriticised ==
  /\ ranker # None => ranker \subseteq Criticised
  /\ ranking # None => ranking \subseteq Criticised
  /\ \A v \in ReviewRuns : task[v] # None /\ task[v].ranked # None => task[v].ranked \subseteq Criticised

\* The rank that a row shows.
RankIn(ranked, p) == IF p \in ranked THEN RankAmong(ranked, ScoresOf, p) ELSE 0

\* The table shows the ranks as they follow from the critiques there are now.
RanksShown ==
  out["papers.csv"] # None =>
    \A p \in Papers : out["papers.csv"].rows[p].rank = RankIn(task[review.run].ranked, p)

LEMMA CritiquesStay ==
  ASSUME TypeOK, [Next]_vars, NEW p \in Criticised
  PROVE  p \in Criticised' /\ critique'[p] = critique[p]
<1> USE DEF files, aside, ranks, reviewing, rendering
<1>1. ASSUME NEW q \in Papers, Criticise(q) PROVE p \in Criticised' /\ critique'[p] = critique[p]
  BY <1>1 DEF Criticise, Criticised, TypeOK
<1>2. CASE \A q \in Papers : ~ Criticise(q)
  BY <1>2 DEF Next, Begin, Identify, Exhaust, FreezeCorpus, Read, Conclude, ReadCritiques, WriteRanking,
     StartReview, ReadPaper, EndReview,
     WriteTask, Accept, Render, Write, Kill, vars, Criticised
<1> QED
  BY <1>1, <1>2

LEMMA RankInStays ==
  ASSUME TypeOK, [Next]_vars, NEW ranked, ranked \subseteq Criticised, NEW p \in Papers
  PROVE  RankIn(ranked, p)' = RankIn(ranked, p)
<1>1. \A q \in ranked : ScoresOf'[q] = ScoresOf[q]
  BY CritiquesStay DEF ScoresOf, Criticised
<1>2. ASSUME p \in ranked PROVE RankAmong(ranked, ScoresOf, p)' = RankAmong(ranked, ScoresOf, p)
  <2>1. {q \in ranked : Before(q, ScoresOf'[q], p, ScoresOf'[p])}
          = {q \in ranked : Before(q, ScoresOf[q], p, ScoresOf[p])}
    BY <1>1, <1>2
  <2> QED
    BY <2>1 DEF RankAmong
<1> QED
  BY <1>2 DEF RankIn

LEMMA OnlyCriticisedStep == TypeOK /\ OnlyCriticised /\ [Next]_vars => OnlyCriticised'
<1> SUFFICES ASSUME TypeOK, OnlyCriticised, [Next]_vars PROVE OnlyCriticised'
  OBVIOUS
<1> USE DEF files, aside, ranks, reviewing, rendering
<1>1. Criticised \subseteq Criticised'
  BY CritiquesStay
<1>2. CASE ReadCritiques
  BY <1>1, <1>2 DEF ReadCritiques, OnlyCriticised
<1>3. CASE WriteRanking
  BY <1>1, <1>3 DEF WriteRanking, OnlyCriticised
<1>4. CASE WriteTask
  BY <1>1, <1>4 DEF WriteTask, OnlyCriticised, TypeOK
<1>5. CASE Kill
  BY <1>1, <1>5 DEF Kill, OnlyCriticised
<1>6. CASE UNCHANGED <<ranker, ranking, task>>
  BY <1>1, <1>6 DEF OnlyCriticised
<1> QED
  BY <1>2, <1>3, <1>4, <1>5, <1>6
  DEF Next, Begin, Identify, Exhaust, FreezeCorpus, Read, Criticise, Conclude, StartReview,
     ReadPaper, EndReview,
     Accept, Render, Write, vars

LEMMA RanksShownStep == GateInv /\ OnlyCriticised /\ RanksShown /\ [Next]_vars => RanksShown'
<1> SUFFICES ASSUME GateInv, OnlyCriticised, RanksShown, [Next]_vars, out'["papers.csv"] # None,
                    NEW p \in Papers
             PROVE  out'["papers.csv"].rows[p].rank = RankIn(task[review.run].ranked, p)'
  BY DEF RanksShown
<1>1. ReadyToRender
  <2>1. CASE out'["papers.csv"] = out["papers.csv"]
    BY <2>1, OutputNames DEF GateInv, Rendered
  <2>2. CASE out'["papers.csv"] # out["papers.csv"]
    <3>1. PICK x \in Renderers : Write(x)
      BY <2>2 DEF Next, Begin, Identify, Exhaust, FreezeCorpus, Read, Criticise, Conclude,
       ReadCritiques, WriteRanking,
         StartReview, ReadPaper, EndReview, WriteTask, Accept, Render, Kill, vars, files, aside, ranks,
            reviewing, rendering
    <3> QED
      BY <3>1 DEF Write, GateInv, Rendered
  <2> QED
    BY <2>1, <2>2
<1>2. PICK ranked : ranked = task[review.run].ranked
  OBVIOUS
<1>3. RankIn(task[review.run].ranked, p)' = RankIn(ranked, p)
  <2>1. review.run \in ReviewRuns /\ task[review.run] # None
    BY <1>1, Types DEF ReadyToRender, GateInv, Reviewed
  <2>2. ranked \subseteq Criticised
    BY <1>1, <1>2, <2>1 DEF ReadyToRender, OnlyCriticised
  <2>3. RankIn(ranked, p)' = RankIn(ranked, p)
    BY <2>2, RankInStays DEF GateInv
  <2>4. task'[review'.run].ranked = ranked
    BY <1>1, <1>2, OutputsStand
  <2>5. RankIn(task[review.run].ranked, p)' = RankIn(ranked, p)'
    BY <2>4 DEF RankIn, RankAmong
  <2> QED
    BY <2>3, <2>5
<1>4. CASE out'["papers.csv"] = out["papers.csv"]
  BY <1>2, <1>3, <1>4 DEF RanksShown
<1>5. CASE out'["papers.csv"] # out["papers.csv"]
  <2>1. PICK x \in Renderers : Write(x)
    BY <1>5 DEF Next, Begin, Identify, Exhaust, FreezeCorpus, Read, Criticise, Conclude,
       ReadCritiques, WriteRanking,
       StartReview, ReadPaper, EndReview, WriteTask, Accept, Render, Kill, vars, files, aside, ranks,
          reviewing, rendering
  <2> DEFINE g == Files[at[x]]
  <2>2. g \in Outputs
    BY <2>1, OutputNames DEF Write, GateInv, TypeOK
  <2>3. out' = [out EXCEPT ![g] = Content(g)]
    BY <2>1 DEF Write
  <2> HIDE DEF g
  <2>4. out'["papers.csv"] = Content("papers.csv")
    BY <1>5, <2>2, <2>3, OutputNames DEF GateInv, TypeOK
  <2> QED
    BY <1>2, <1>3, <2>4 DEF Content, MemberRows, RankShown, RankIn
<1> QED
  BY <1>4, <1>5

\* The ranks shown are 1, 2, ... without gaps, and those of an order in which no paper
\* that fails a gate comes before one that passes, and otherwise the rounded total score
\* decides, and the id when it is equal.
THEOREM OrderedRanks == Spec => []RanksAreAnOrder
<1>1. Init => OnlyCriticised /\ RanksShown
  BY OutputNames DEF Init, OnlyCriticised, RanksShown
<1>2. GateInv /\ OnlyCriticised /\ RanksShown => RanksAreAnOrder
  <2> SUFFICES ASSUME GateInv, OnlyCriticised, RanksShown, out["papers.csv"] # None
               PROVE  RanksAreAnOrder
    BY DEF RanksAreAnOrder
  <2> DEFINE ranked == task[review.run].ranked
             Rank(p) == out["papers.csv"].rows[p].rank
  <2>1. ReadyToRender
    BY OutputNames DEF GateInv, Rendered
  <2>2. review.run \in ReviewRuns /\ task[review.run] # None
    BY <2>1, Types DEF ReadyToRender, GateInv, Reviewed
  <2>3. ranked \subseteq Papers /\ ranked \subseteq Criticised
    BY <2>1, <2>2 DEF ReadyToRender, OnlyCriticised, Criticised
  <2>4. \A p \in Papers : Rank(p) = RankIn(ranked, p)
    BY DEF RanksShown
  <2> HIDE DEF ranked, Rank
  <2>5. \A p \in ranked : ScoresOf[p] = critique[p].scores /\ critique[p].scores \in Assessments
    BY <2>3 DEF ScoresOf, Criticised, GateInv, TypeOK, Critiques
  <2>6. Ranked(ranked, ScoresOf)
    BY <2>3, <2>5 DEF Ranked
  <2>7. \A p \in ranked : Rank(p) = RankAmong(ranked, ScoresOf, p)
    BY <2>3, <2>4 DEF RankIn
  <2>8. \A p \in ranked : RankAmong(ranked, ScoresOf, p) # 0
    <3>1. Cardinality(ranked) \in Nat
      BY <2>3, PaperAssumption, FS_Subset, FS_CardinalityType
    <3> QED
      BY <2>6, <3>1, RankIsPlace
  <2>9. {p \in Papers : Rank(p) # 0} = ranked
    BY <2>3, <2>4, <2>7, <2>8 DEF RankIn
  <2>10. {Rank(p) : p \in ranked} = 1..Cardinality(ranked)
    BY <2>6, <2>7, RanksFollowKey
  <2>11. ASSUME NEW p \in ranked, NEW q \in ranked, Rank(p) < Rank(q)
         PROVE  /\ Passes(critique[q].scores) => Passes(critique[p].scores)
                /\ Passes(critique[p].scores) = Passes(critique[q].scores)
                     => \/ TotalScore(critique[p].scores) > TotalScore(critique[q].scores)
                        \/ TotalScore(critique[p].scores) = TotalScore(critique[q].scores) /\ p < q
    <3>1. Before(p, critique[p].scores, q, critique[q].scores)
      BY <2>5, <2>6, <2>7, <2>11, RanksFollowKey DEF First
    <3> QED
      BY <3>1, KeyByCases DEF Passes
  <2> QED
    BY <2>9, <2>10, <2>11 DEF RanksAreAnOrder, Rank
<1>3. GateInv => TypeOK
  BY DEF GateInv
<1> QED
  BY <1>1, <1>2, <1>3, OnlyCriticisedStep, RanksShownStep, Gate, PTL DEF Spec

-----------------------------------------------------------------------------
(***************************************************************************)
(* The state of the investigation                                          *)
(***************************************************************************)

\* Which files there are, seen from the state.
LEMMA Stages ==
  ASSUME GateInv
  PROVE  /\ Done => review # None /\ review.status \in {"ready", "ready_with_warnings"}
         /\ review # None => \E v \in ReviewRuns : task[v] # None
         /\ (\E v \in ReviewRuns : task[v] # None) => corpus # None
         /\ corpus = None => \A p \in Papers : p \notin read /\ state[p] = None
<1>1. "report.md" \in Outputs
  BY OutputNames
<1>2. Done => review # None /\ review.status # "blocked"
  BY <1>1 DEF GateInv, Rendered, ReadyToRender, Done
<1>3. Done => review.status \in {"ready", "ready_with_warnings"}
  BY <1>2, Types DEF GateInv
<1>4. review # None => review.run \in ReviewRuns /\ task[review.run] # None
  BY Types DEF GateInv, Reviewed
<1>5. (\E v \in ReviewRuns : task[v] # None) => corpus # None
  BY DEF GateInv, Tasked
<1>6. corpus = None => \A p \in Papers : p \notin read /\ state[p] = None
  BY DEF GateInv, OnlyIncluded, Included
<1> QED
  BY <1>2, <1>3, <1>4, <1>5, <1>6

\* Status, up to the phases that cmd_status does not tell apart.
Coarse(s) ==
  CASE s \in {"corpus_frozen", "analyzing", "reviewing"} -> "analyzing"
    [] s \in {"complete", "complete_with_warnings"} -> "complete"
    [] OTHER -> s

\* The states that Status takes.
Statuses ==
  {"draft", "inputs_validated", "candidates_frozen", "screening", "corpus_frozen", "analyzing",
   "reviewing", "rendering", "review_blocked", "complete", "complete_with_warnings"}

\* cmd_status and the projection show the same, up to phases not told apart and to failed.
LEMMA ShownIsCoarse ==
  ASSUME GateInv
  PROVE  /\ Status \in Statuses
         /\ ShownStatus = IF exhausted THEN "failed" ELSE Coarse(Status)
<1>1. CASE Done
  BY <1>1, Stages DEF Coarse, ShownStatus, Status, Statuses
<1>2. CASE ~ Done /\ review # None
  BY <1>2, Stages DEF Coarse, ShownStatus, Status, Statuses
<1>3. CASE ~ Done /\ review = None /\ corpus # None
  BY <1>3 DEF Coarse, ShownStatus, Status, Statuses
<1>4. CASE ~ Done /\ review = None /\ corpus = None
  <2>1. inputs \in {"nothing", "inputs", "candidates", "decisions"}
    BY DEF GateInv, TypeOK
  <2>2. ~ \E v \in ReviewRuns : task[v] # None
    BY <1>4, Stages
  <2> QED
    BY <1>4, <2>1, <2>2 DEF Coarse, ShownStatus, Status, Statuses
<1> QED
  BY <1>1, <1>2, <1>3, <1>4

\* The part of the diagram that the files take: what follows what.
LEMMA Forward ==
  /\ "inputs_validated" \in Diagram!Later("draft")
  /\ "candidates_frozen" \in Diagram!Later("inputs_validated")
  /\ {"screening", "corpus_frozen"} \subseteq Diagram!Later("candidates_frozen")
  /\ "corpus_frozen" \in Diagram!Later("screening")
  /\ {"analyzing", "reviewing"} \subseteq Diagram!Later("corpus_frozen")
  /\ "reviewing" \in Diagram!Later("analyzing")
  /\ {"review_blocked", "rendering"} \subseteq Diagram!Later("reviewing")
  /\ {"complete", "complete_with_warnings"} \subseteq Diagram!Later("rendering")
BY DEF Diagram!Later, Diagram!States, Diagram!Final

\* Later is Targets, transitively closed.
LEMMA Closure ==
  \A s \in Diagram!States :
    Diagram!Later(s) =
      Diagram!Targets(s) \union UNION {Diagram!Later(t) : t \in Diagram!Targets(s)}
BY SMTT(60) DEF Diagram!Later, Diagram!Targets, Diagram!States, Diagram!Final

\* A step of the diagram, or none.
Advances == Status' = Status \/ Status' \in Diagram!Later(Status)

\* The state is a matter of the files, and of whether there is any work on papers.
Working == \E p \in Papers : p \in read \/ state[p] # None
Tasking == \E v \in ReviewRuns : task[v] # None

LEMMA SameFiles ==
  ASSUME inputs' = inputs \/ corpus # None, Working' = Working, Tasking' = Tasking,
         Done' = Done, UNCHANGED <<corpus, review>>
  PROVE  Status' = Status
<1>1. CASE Done \/ review # None
  BY <1>1 DEF Status
<1>2. CASE ~ Done /\ review = None /\ Tasking
  BY <1>2 DEF Status, Tasking
<1>3. CASE ~ Done /\ review = None /\ ~ Tasking /\ corpus # None
  <2>1. CASE Working
    <3>1. Status = "analyzing" /\ Status' = "analyzing"
      BY <1>3, <2>1 DEF Status, Tasking, Working
    <3> QED
      BY <3>1
  <2>2. CASE ~ Working
    <3>1. Status = "corpus_frozen" /\ Status' = "corpus_frozen"
      BY <1>3, <2>2 DEF Status, Tasking, Working
    <3> QED
      BY <3>1
  <2> QED
    BY <2>1, <2>2
<1>4. CASE ~ Done /\ review = None /\ ~ Tasking /\ corpus = None
  <2>1. inputs' = inputs
    BY <1>4
  <2>2. ~ Tasking' /\ ~ Done' /\ review' = None /\ corpus' = None
    BY <1>4
  <2> DEFINE early(i) == CASE i = "decisions" -> "screening"
                           [] i = "candidates" -> "candidates_frozen"
                           [] i = "inputs" -> "inputs_validated"
                           [] i = "nothing" -> "draft"
  <2>3. Status = early(inputs)
    BY <1>4 DEF Status, Tasking
  <2>4. Status' = early(inputs')
    BY <2>2 DEF Status, Tasking
  <2> HIDE DEF early
  <2> QED
    BY <2>1, <2>3, <2>4
<1> QED
  BY <1>1, <1>2, <1>3, <1>4

LEMMA StatusStep ==
  ASSUME GateInv, GateInv', [Next]_vars
  PROVE  Advances
<1> USE DEF files, aside, ranks, reviewing, rendering
<1>1. CASE Begin
  <2>1. /\ UNCHANGED <<corpus, review>> /\ Working' = Working /\ Tasking' = Tasking /\ Done' = Done
    BY <1>1 DEF Begin, Working, Tasking, Done
  <2>2. CASE corpus # None
    BY <2>1, <2>2, SameFiles DEF Advances
  <2>3. CASE corpus = None
    <3>1. ~ Done /\ review = None /\ ~ Tasking
      BY <2>3, Stages DEF Tasking
    <3>2. /\ Status = CASE inputs = "decisions" -> "screening"
                        [] inputs = "candidates" -> "candidates_frozen"
                        [] inputs = "inputs" -> "inputs_validated"
                        [] inputs = "nothing" -> "draft"
          /\ Status' = CASE inputs' = "decisions" -> "screening"
                         [] inputs' = "candidates" -> "candidates_frozen"
                         [] inputs' = "inputs" -> "inputs_validated"
                         [] inputs' = "nothing" -> "draft"
      BY <2>1, <2>3, <3>1 DEF Status, Tasking
    <3> QED
      BY <1>1, <3>2, Forward DEF Begin, Advances
  <2> QED
    BY <2>2, <2>3
<1>2. CASE FreezeCorpus
  <2>1. /\ corpus = None /\ corpus' # None /\ inputs \in {"candidates", "decisions"}
        /\ UNCHANGED <<inputs, read, critique, state, task, review, out>>
    BY <1>2, NoneIsNothing DEF FreezeCorpus
  <2>2. ~ Done /\ review = None /\ ~ Tasking /\ ~ Working
    BY <2>1, Stages DEF Tasking, Working
  <2>3. Status \in {"candidates_frozen", "screening"}
    BY <2>1, <2>2 DEF Status, Tasking
  <2>4. Status' = "corpus_frozen"
    BY <2>1, <2>2 DEF Status, Tasking, Working, Done
  <2> QED
    BY <2>3, <2>4, Forward DEF Advances
<1>3. ASSUME NEW p \in Papers, Read(p) \/ Conclude(p) PROVE Advances
  <2>1. corpus # None /\ UNCHANGED <<inputs, corpus, task, review, out>>
    BY <1>3 DEF Read, Conclude, Included
  <2>2. Tasking' = Tasking /\ Done' = Done
    BY <2>1 DEF Tasking, Done
  <2>3. CASE Done \/ review # None \/ Tasking
    BY <2>1, <2>2, <2>3 DEF Status, Tasking, Advances
  <2>4. CASE ~ Done /\ review = None /\ ~ Tasking
    <3>1. Status \in {"corpus_frozen", "analyzing"} /\ Status' \in {"corpus_frozen", "analyzing"}
      BY <2>1, <2>2, <2>4 DEF Status, Tasking
    <3>2. Working => Working'
      <4>1. CASE Read(p)
        BY <4>1 DEF Read, Working
      <4>2. CASE Conclude(p)
        <5>1. \A q \in Papers : state[q] # None => state'[q] = state[q]
          BY <4>2 DEF Conclude, GateInv, TypeOK
        <5> QED
          BY <4>2, <5>1 DEF Conclude, Working
      <4> QED
        BY <1>3, <4>1, <4>2
    <3>3. Status = "analyzing" => Working
      BY <2>1, <2>4 DEF Status, Tasking, Working
    <3>4. Working' => Status' = "analyzing"
      BY <2>1, <2>2, <2>4 DEF Status, Tasking, Working
    <3> QED
      BY <3>1, <3>2, <3>3, <3>4, Forward DEF Advances
  <2> QED
    BY <2>3, <2>4
<1>4. CASE WriteTask
  <2>1. /\ preparing \in ReviewRuns /\ corpus # None
        /\ UNCHANGED <<inputs, corpus, read, state, review, out>>
    BY <1>4 DEF WriteTask, GateInv, TypeOK, Prepared
  <2>2. Tasking'
    <3>1. [papers |-> state, ranked |-> ranking] \in Tasks
      BY DEF GateInv, TypeOK, Tasks
    <3>2. task'[preparing] # None
      BY <1>4, <2>1, <3>1, NoneIsNothing DEF WriteTask, GateInv, TypeOK
    <3> QED
      BY <2>1, <3>2 DEF Tasking
  <2>3. Done' = Done
    BY <2>1 DEF Done
  <2>4. CASE Done \/ review # None
    BY <2>1, <2>3, <2>4 DEF Status, Advances
  <2>5. CASE ~ Done /\ review = None
    <3>1. Status \in {"corpus_frozen", "analyzing", "reviewing"}
      BY <2>1, <2>5 DEF Status
    <3>2. Status' = "reviewing"
      BY <2>1, <2>2, <2>3, <2>5 DEF Status, Tasking
    <3> QED
      BY <3>1, <3>2, Forward DEF Advances
  <2> QED
    BY <2>4, <2>5
<1>5. ASSUME NEW v \in ReviewRuns, Accept(v) PROVE Advances
  <2>1. review = None /\ task[v] # None /\ UNCHANGED <<out, task>>
    BY <1>5 DEF Accept
  <2>2. ~ Done /\ ~ Done'
    BY <2>1, Stages DEF Done
  <2>3. Status = "reviewing"
    BY <2>1, <2>2 DEF Status
  <2>4. review' # None
    <3>1. PICK challenges \in SUBSET Challenges, items \in SUBSET Challenges :
            items \subseteq challenges /\ review' =
              [run |-> v, challenges |-> challenges, items |-> items,
               status |-> StatusOf(task[v], challenges, items)]
      BY <1>5 DEF Accept
    <3>2. StatusOf(task[v], challenges, items) \in {"ready", "ready_with_warnings", "blocked"}
      BY DEF StatusOf
    <3>3. review' \in Reviews
      BY <3>1, <3>2 DEF Reviews
    <3> QED
      BY <3>3, NoneIsNothing
  <2>5. Status' \in {"review_blocked", "rendering"}
    BY <2>2, <2>4 DEF Status
  <2> QED
    BY <2>3, <2>5, Forward DEF Advances
<1>6. ASSUME NEW x \in Renderers, Write(x) PROVE Advances
  <2>1. ReadyToRender /\ UNCHANGED <<inputs, corpus, read, state, task, review>>
    BY <1>6 DEF Write, GateInv, Rendered
  <2>2. Working' = Working /\ Tasking' = Tasking
    BY <2>1 DEF Working, Tasking
  <2>3. CASE Done' = Done
    BY <2>1, <2>2, <2>3, SameFiles DEF Advances
  <2>4. CASE Done' # Done
    <3>1. ~ Done /\ Done'
      <4>1. CASE Done
        <5>1. at[x] \in 1..3
          BY <1>6 DEF Write, GateInv, TypeOK
        <5> DEFINE g == Files[at[x]]
        <5>2. g \in Outputs /\ "report.md" \in Outputs
          BY <5>1, OutputNames
        <5>3. task[review.run] # None /\ corpus # None
          BY <2>1, Types DEF ReadyToRender, GateInv, Reviewed, Tasked
        <5>4. Content(g) # None
          BY <2>1, <5>2, <5>3, ContentType, NoneIsNothing DEF ReadyToRender, GateInv
        <5>5. out' = [out EXCEPT ![g] = Content(g)] /\ out \in [Outputs -> Contents \union {None}]
          BY <1>6 DEF Write, GateInv, TypeOK
        <5> HIDE DEF g
        <5>6. out'["report.md"] # None
          BY <4>1, <5>2, <5>4, <5>5 DEF Done
        <5> QED
          BY <2>4, <4>1, <5>6 DEF Done
      <4>2. CASE ~ Done
        BY <2>4, <4>2 DEF Done
      <4> QED
        BY <4>1, <4>2
    <3>2. Status = "rendering"
      BY <2>1, <3>1 DEF ReadyToRender, Status
    <3>3. Status' \in {"complete", "complete_with_warnings"}
      BY <3>1 DEF Status
    <3> QED
      BY <3>2, <3>3, Forward DEF Advances
  <2> QED
    BY <2>3, <2>4
<1>7. CASE UNCHANGED <<inputs, corpus, read, state, task, review, out>>
  BY <1>7, SameFiles DEF Working, Tasking, Done, Advances
<1> QED
  BY <1>1, <1>2, <1>3, <1>4, <1>5, <1>6, <1>7
  DEF Next, Identify, Exhaust, Criticise, ReadCritiques, WriteRanking, StartReview, ReadPaper,
     EndReview, Render, Kill, vars

\* The state of an investigation, read off the files that exist, only ever moves
\* forward in the diagram: FollowsInvestigationStates.
THEOREM ForwardStates == Spec => FollowsInvestigationStates
<1>1. Init => Diagram!IInit
  <2> SUFFICES ASSUME Init PROVE Status = "draft"
    BY DEF Diagram!IInit
  <2>1. ~ Done /\ review = None /\ corpus = None /\ \A v \in ReviewRuns : task[v] = None
    <3>1. "report.md" \in Outputs
      BY OutputNames
    <3> QED
      BY <3>1 DEF Init, Done
  <2>2. inputs = "nothing"
    BY DEF Init
  <2> QED
    BY <2>1, <2>2 DEF Status
<1>2. GateInv /\ GateInv' /\ [Next]_vars => [Diagram!INext]_Status
  BY StatusStep DEF Advances, Diagram!INext
<1> QED
  BY <1>1, <1>2, Gate, PTL DEF Spec, FollowsInvestigationStates, Diagram!ISpec

\* What follows in the diagram follows in what cmd_status tells apart.
LEMMA CoarseForward ==
  \A s, u \in Statuses :
    u \in Diagram!Later(s) => Coarse(u) = Coarse(s) \/ Coarse(u) \in Diagram!Later(Coarse(s))
BY SMTT(60) DEF Statuses, Coarse, Diagram!Later, Diagram!States, Diagram!Final

LEMMA NotYetFailed == \A s \in Statuses : Coarse(s) # "failed"
BY DEF Statuses, Coarse

LEMMA ExhaustedStays == exhausted /\ [Next]_vars => exhausted'
BY DEF Next, Begin, Identify, Exhaust, FreezeCorpus, Read, Criticise, Conclude, ReadCritiques,
   WriteRanking, StartReview, ReadPaper, EndReview, WriteTask, Accept, Render, Write, Kill,
   vars, files, aside, ranks, reviewing, rendering

\* What cmd_status shows moves forward in the diagram, or turns to failed and stays
\* there: ShownGoesForward.
THEOREM ShownForward == Spec => ShownGoesForward
<1> DEFINE Forwards ==
             ShownStatus # "failed" /\ ShownStatus' \in Diagram!Later(ShownStatus) \union {"failed"}
<1>1. ASSUME GateInv, GateInv', [Next]_vars
      PROVE  Forwards \/ ShownStatus' = ShownStatus
  <2>1. CASE exhausted
    <3>1. exhausted'
      BY <1>1, <2>1, ExhaustedStays
    <3> QED
      BY <2>1, <3>1 DEF ShownStatus
  <2>2. CASE ~ exhausted
    <3>1. ShownStatus = Coarse(Status) /\ ShownStatus # "failed" /\ Status \in Statuses
      BY <1>1, <2>2, ShownIsCoarse, NotYetFailed
    <3>2. Status' \in Statuses /\ ShownStatus' = IF exhausted' THEN "failed" ELSE Coarse(Status')
      <4>1. (Status \in Statuses /\ ShownStatus = IF exhausted THEN "failed" ELSE Coarse(Status))'
        BY <1>1, ShownIsCoarse, PTL
      <4> QED
        BY <4>1 DEF Statuses, Coarse
    <3>3. Status' = Status \/ Status' \in Diagram!Later(Status)
      BY <1>1, StatusStep DEF Advances
    <3>4. Coarse(Status') = Coarse(Status) \/ Coarse(Status') \in Diagram!Later(Coarse(Status))
      BY <3>1, <3>2, <3>3, CoarseForward
    <3> QED
      BY <3>1, <3>2, <3>4
  <2> QED
    BY <2>1, <2>2
<1>2. GateInv /\ GateInv' /\ [Next]_vars => [Forwards]_ShownStatus
  BY <1>1
<1> QED
  BY <1>2, Gate, PTL DEF Spec, ShownGoesForward
=============================================================================
