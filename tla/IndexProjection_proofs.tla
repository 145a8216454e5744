----------------------- MODULE IndexProjection_proofs -----------------------
(***************************************************************************)
(* The guarantees of IndexProjection, proved for any number of runs in any *)
(* roles and scenes, executed any number of times under any numbers, and   *)
(* for any mixture of earlier and later reads.                             *)
(***************************************************************************)
EXTENDS IndexProjection, TLAPS

\* A canonical record is that of a run in its role, which its validator did not
\* refuse; a run that has completed, or has just promoted, has its record there.
RecordsOwned ==
  /\ \A k \in Roles : canonical[k] # None =>
       /\ Role[canonical[k]] = k
       /\ Tasked(canonical[k])
       /\ outcome[canonical[k]] # "invalid"
  /\ \A r \in Runs :
       outcome[r] = "completed" \/ stage[r] = "promoted" => canonical[Role[r]] = r

\* A critique is made of a reading, and a report of a review.
WorkInOrder ==
  /\ \A r \in Runs : Role[r] = "critic" /\ Tasked(r) => canonical["paper_reader"] # None
  /\ "report" \in made => canonical["reviewer"] # None

\* Whatever a rebuild has read of an outcome or of a record is still so.
Recorded(rows) == \A r \in Runs : rows[r] \in Endings => outcome[r] = rows[r]

Kept(records) ==
  /\ \A k \in Roles : records[k] # None => records[k] = canonical[k]
  /\ records["critic"] # None => records["paper_reader"] # None

Closed(rows, records) == \A k \in Roles : records[k] # None => rows[records[k]] # None

CompletedIn(rows, records) == \A r \in Runs : rows[r] = "completed" => records[Role[r]] = r

\* The reads after the record of a role.
Past(k) ==
  CASE k = "paper_screener" -> {"paper_reader", "critic", "reviewer", "insert"}
    [] k = "paper_reader" -> {"critic", "reviewer", "insert"}
    [] k = "critic" -> {"reviewer", "insert"}
    [] k = "reviewer" -> {"insert"}

\* A run whose row says completed has its record found in its turn.
CompletedRead ==
  \A k \in Roles : at \in Past(k) =>
    \A r \in Runs : Role[r] = k /\ view.rows[r] = "completed" => view.records[k] = r

Early == {"inputs_validated", "candidates_frozen", "screening"}

AfterStates == {"runs", "paper_screener", "paper_reader", "critic", "reviewer", "insert"}

\* The record that a status tells of is there once the status is derived, and no
\* corpus was read under a status from before it.
StatusHeld ==
  at \in AfterStates \union {"candidates", "states"} =>
    /\ view.status \in Reviewed => canonical["reviewer"] # None
    /\ view.status = "screening" => canonical["paper_screener"] # None
    /\ view.status = "analyzing" => canonical["paper_reader"] # None \/ made \intersect States # {}
    /\ "corpus" \in view.seen => view.status \notin Early

\* A paper state is read after it.
StateHeld ==
  at \in AfterStates =>
    (view.status = "analyzing" =>
       canonical["paper_reader"] # None \/ view.seen \intersect States # {})

\* So is a record.
StatusRead ==
  /\ at \in Past("paper_screener") =>
       (view.status = "screening" => view.records["paper_screener"] # None)
  /\ at \in Past("paper_reader") =>
       (view.status = "analyzing" =>
          view.records["paper_reader"] # None \/ view.seen \intersect States # {})
  /\ at = "insert" => (view.status \in Reviewed => view.records["reviewer"] # None)

-----------------------------------------------------------------------------

\* The reads follow one another in the order of Reads.
LEMMA ReadOrder ==
  \A i \in 1..12 : After(Reads[i]) = Reads[1 + i]
<1> SUFFICES ASSUME NEW i \in 1..12 PROVE After(Reads[i]) = Reads[1 + i]
  OBVIOUS
<1> DEFINE j == CHOOSE n \in 1..12 : Reads[n] = Reads[i]
<1>1. j \in 1..12 /\ Reads[j] = Reads[i]
  OBVIOUS
<1>2. j = i
  BY <1>1 DEF Reads
<1>3. After(Reads[i]) = Reads[1 + j]
  BY DEF After
<1> QED
  BY <1>2, <1>3

\* Which read comes after which.
LEMMA NextRead ==
  /\ After("identities") = "packets"
  /\ After("packets") = "trace"
  /\ After("trace") = "corpus"
  /\ After("corpus") = "status"
  /\ After("status") = "candidates"
  /\ After("candidates") = "states"
  /\ After("states") = "runs"
  /\ After("runs") = "paper_screener"
  /\ After("paper_screener") = "paper_reader"
  /\ After("paper_reader") = "critic"
  /\ After("critic") = "reviewer"
  /\ After("reviewer") = "insert"
<1> DEFINE Seq == <<"identities", "packets", "trace", "corpus", "status", "candidates",
                    "states", "runs", "paper_screener", "paper_reader",
                    "critic", "reviewer", "insert">>
<1>1. \A i \in 1..12 : After(Seq[i]) = Seq[1 + i]
  BY ReadOrder DEF Reads
<1>2. After(Seq[1]) = Seq[2] /\ After(Seq[2]) = Seq[3] /\ After(Seq[3]) = Seq[4]
  BY <1>1
<1>3. After(Seq[4]) = Seq[5] /\ After(Seq[5]) = Seq[6] /\ After(Seq[6]) = Seq[7]
  BY <1>1
<1>4. After(Seq[7]) = Seq[8] /\ After(Seq[8]) = Seq[9] /\ After(Seq[9]) = Seq[10]
  BY <1>1
<1>5. After(Seq[10]) = Seq[11] /\ After(Seq[11]) = Seq[12] /\ After(Seq[12]) = Seq[13]
  BY <1>1
<1> QED
  BY <1>2, <1>3, <1>4, <1>5

ReadNames ==
  {"identities", "packets", "trace", "corpus", "status", "candidates", "states",
   "runs", "paper_screener", "paper_reader", "critic", "reviewer", "insert"}

LEMMA ReadsNamed == {Reads[i] : i \in 1..13} = ReadNames
<1>1. \A i \in 1..13 : Reads[i] \in ReadNames
  BY DEF Reads, ReadNames
<1>2. \A name \in ReadNames : \E i \in 1..13 : Reads[i] = name
  <2> DEFINE Seq == <<"identities", "packets", "trace", "corpus", "status", "candidates",
                      "states", "runs", "paper_screener", "paper_reader",
                      "critic", "reviewer", "insert">>
  <2>1. /\ Seq[1] = "identities" /\ Seq[2] = "packets" /\ Seq[3] = "trace"
        /\ Seq[4] = "corpus" /\ Seq[5] = "status" /\ Seq[6] = "candidates"
    OBVIOUS
  <2>2. /\ Seq[7] = "states" /\ Seq[8] = "runs" /\ Seq[9] = "paper_screener"
        /\ Seq[10] = "paper_reader" /\ Seq[11] = "critic"
        /\ Seq[12] = "reviewer" /\ Seq[13] = "insert"
    OBVIOUS
  <2>3. Reads = Seq
    BY DEF Reads
  <2> HIDE DEF Seq
  <2> QED
    BY <2>1, <2>2, <2>3 DEF ReadNames
<1> QED
  BY <1>1, <1>2

\* The read after one that is not the last.
LEMMA AfterIsRead ==
  ASSUME NEW read \in ReadNames, read # "insert"
  PROVE  After(read) \in ReadNames
BY NextRead DEF ReadNames

-----------------------------------------------------------------------------
(***************************************************************************)
(* Types                                                                   *)
(***************************************************************************)

LEMMA DerivedType == Derived \in Progress
BY DEF Derived, Progress

LEMMA NothingType == Nothing \in Views
BY DEF Nothing, Views, Progress, Rows, Records

LEMMA SeeingType ==
  ASSUME TypeOK, NEW names \in SUBSET ({"identities", "packet", "corpus"} \union States)
  PROVE  Seeing(names) \in Views
BY DEF TypeOK, Views, Seeing

\* A read either goes on with what it has added to the view or raises.
LEMMA StepOfReading ==
  ASSUME TypeOK, NEW v \in Views, Continue(v), at # "insert"
  PROVE  TypeOK'
<1>1. at' \in {Reads[i] : i \in 1..13}
  BY ReadsNamed, AfterIsRead DEF TypeOK, Continue
<1> QED
  BY <1>1 DEF TypeOK, Continue, runs, ledger

LEMMA StepOfRaising ==
  ASSUME TypeOK, Raise
  PROVE  TypeOK'
<1>1. at' \in {Reads[i] : i \in 1..13}
  BY ReadsNamed DEF Raise, ReadNames
<1> QED
  BY <1>1, NothingType DEF TypeOK, Raise, runs, ledger

LEMMA TypeInit == Init => TypeOK
<1> SUFFICES ASSUME Init PROVE TypeOK
  OBVIOUS
<1>1. at \in {Reads[i] : i \in 1..13}
  BY ReadsNamed DEF Init, ReadNames
<1>2. made \subseteq Files /\ stage \in [Runs -> Stages]
  BY SceneAssumption DEF Init, Files, States, Stages
<1> QED
  BY <1>1, <1>2, NothingType DEF Init, TypeOK, Records, Verdicts

\* A reconciler that is about to mark rows has opened an index.
MarksAnIndex == asked # {} => index # None

LEMMA MarksStep == TypeOK /\ MarksAnIndex /\ [Next]_vars => MarksAnIndex'
<1> SUFFICES ASSUME TypeOK, MarksAnIndex, [Next]_vars PROVE MarksAnIndex'
  OBVIOUS
<1>1. CASE Replace
  BY <1>1 DEF Replace, MarksAnIndex
<1>2. CASE Inspect
  BY <1>2 DEF Inspect, MarksAnIndex
<1>3. ASSUME NEW r \in Runs, Mark(r) PROVE MarksAnIndex'
  <2>1. index \in Indexes
    BY <1>3 DEF Mark, MarksAnIndex, TypeOK
  <2>2. index' \in Indexes
    BY <2>1, <1>3 DEF Mark, Indexes, Rows, Statuses
  <2>3. None \notin Indexes
    BY NoIndex
  <2> QED
    BY <2>2, <2>3 DEF MarksAnIndex
<1>4. CASE UNCHANGED <<index, asked>>
  BY <1>4 DEF MarksAnIndex
<1>5. CASE KillReconciler
  BY <1>5 DEF KillReconciler, MarksAnIndex
<1> QED
  BY <1>1, <1>2, <1>3, <1>4, <1>5
  DEF Next, vars, Rebuild, Make, Prepare, Start, Promote, Judge, End, ReadIdentities, ReadPackets,
      ReadTrace, ReadCorpus, ReadStatus, ReadCandidates, ReadStates, EndRuns, ReadRun, ReadRecord,
      Conflict, Continue, Raise, AppendReconciled

LEMMA AppendType ==
  ASSUME TypeOK, NEW r \in Runs, NEW event \in {"started", "ended"},
         NEW number \in SUBSET Attempts, Append(r, event, number)
  PROVE  /\ trace' \in [Runs -> SUBSET {"started", "ended"}]
         /\ numbers' \in [Runs -> SUBSET Attempts]
         /\ tail' \in {"whole", "unterminated", "broken"}
<1>1. CASE tail' = "broken" /\ UNCHANGED <<trace, numbers>>
  BY <1>1 DEF TypeOK
<1>2. CASE /\ trace' = [trace EXCEPT ![r] = @ \union {event}]
           /\ numbers' = [numbers EXCEPT ![r] = @ \union number]
           /\ tail' \in (IF r \in Cut THEN {"whole", "unterminated"} ELSE {"whole"})
  BY <1>2 DEF TypeOK
<1> QED
  BY <1>1, <1>2 DEF Append

LEMMA TypeStep == TypeOK /\ MarksAnIndex /\ [Next]_vars => TypeOK'
<1> SUFFICES ASSUME TypeOK, MarksAnIndex, [Next]_vars PROVE TypeOK'
  OBVIOUS
<1> USE DEF runs, ledger, rebuild
<1>1. ASSUME NEW file \in Files, Make(file) PROVE TypeOK'
  BY <1>1 DEF Make, TypeOK
<1>2. ASSUME NEW r \in Runs, Prepare(r) PROVE TypeOK'
  BY <1>2 DEF Prepare, Move, TypeOK, Stages
<1>3. ASSUME NEW r \in Runs, Start(r) PROVE TypeOK'
  <2>1. stage' \in [Runs -> Stages]
    BY <1>3 DEF Start, TypeOK, Stages
  <2>2. PICK n \in Numbers[r] : Append(r, "started", {n})
    BY <1>3 DEF Start
  <2>3. {n} \subseteq Attempts
    BY RunAssumption
  <2> QED
    BY <1>3, <2>1, <2>2, <2>3, AppendType DEF Start, TypeOK
<1>4. ASSUME NEW r \in Runs, Promote(r) PROVE TypeOK'
  <2>1. stage' \in [Runs -> Stages]
    BY <1>4 DEF Promote, Move, TypeOK, Stages
  <2>2. canonical' \in Records
    BY <1>4, RunAssumption DEF Promote, TypeOK, Records
  <2>3. verdict' \in Verdicts
    BY <1>4 DEF Promote, TypeOK
  <2> QED
    BY <1>4, <2>1, <2>2, <2>3 DEF Promote, TypeOK
<1>5. ASSUME NEW r \in Runs, Judge(r) PROVE TypeOK'
  BY <1>5 DEF Judge, Move, TypeOK, Stages, Endings
<1>6. ASSUME NEW r \in Runs, End(r) PROVE TypeOK'
  <2>1. stage' \in [Runs -> Stages]
    BY <1>6 DEF End, Move, TypeOK, Stages
  <2> QED
    BY <1>6, <2>1, AppendType DEF End, TypeOK
<1>7. CASE ReadIdentities
  <2>1. Seeing({"identities"}) \in Views
    BY SeeingType
  <2> QED
    BY <1>7, <2>1, StepOfReading DEF ReadIdentities
<1>20. CASE ReadPackets
  <2>1. Seeing({"packet"}) \in Views
    BY SeeingType
  <2> QED
    BY <1>20, <2>1, StepOfReading, StepOfRaising DEF ReadPackets
<1>8. CASE ReadTrace
  <2>1. [view EXCEPT !.numbers = numbers] \in Views
    BY DEF TypeOK, Views
  <2> QED
    BY <1>8, <2>1, StepOfReading, StepOfRaising DEF ReadTrace
<1>21. CASE ReadCorpus
  <2>1. Seeing({"corpus"}) \in Views
    BY SeeingType
  <2> QED
    BY <1>21, <2>1, StepOfReading DEF ReadCorpus
<1>9. CASE ReadStatus
  <2>1. [view EXCEPT !.status = Derived] \in Views
    BY DerivedType DEF TypeOK, Views
  <2> QED
    BY <1>9, <2>1, StepOfReading DEF ReadStatus
<1>10. CASE ReadCandidates
  <2>1. view \in Views
    BY DEF TypeOK
  <2> QED
    BY <1>10, <2>1, StepOfReading, StepOfRaising DEF ReadCandidates
<1>22. CASE ReadStates
  <2>1. Seeing(States) \in Views
    BY SeeingType
  <2>2. [Seeing(States) EXCEPT !.todo = {r \in Runs : Tasked(r)}] \in Views
    BY <2>1 DEF Views
  <2> QED
    BY <1>22, <2>2, StepOfReading DEF ReadStates
<1>11. CASE EndRuns
  <2>1. view \in Views
    BY DEF TypeOK
  <2> QED
    BY <1>11, <2>1, StepOfReading DEF EndRuns
<1>12. ASSUME NEW r \in Runs, ReadRun(r) PROVE TypeOK'
  <2>1. Projected(r) \in Statuses
    BY DEF Projected, Statuses, TypeOK
  <2>2. [view EXCEPT !.todo = @ \ {r}, !.rows[r] = Projected(r)] \in Views
    BY <2>1 DEF TypeOK, Views, Rows
  <2>3. [view EXCEPT !.todo = @ \ {r}] \in Views
    BY DEF TypeOK, Views
  <2>4. CASE Raise
    BY <2>4, StepOfRaising
  <2>5. CASE /\ \/ view' = [view EXCEPT !.todo = @ \ {r}, !.rows[r] = Projected(r)]
                \/ view' = [view EXCEPT !.todo = @ \ {r}]
             /\ UNCHANGED <<runs, made, ledger, index, asked, at>>
    <3>1. view' \in Views
      BY <2>2, <2>3, <2>5
    <3> QED
      BY <2>5, <3>1 DEF TypeOK
  <2> QED
    BY <1>12, <2>4, <2>5 DEF ReadRun
<1>13. ASSUME NEW k \in Roles, ReadRecord(k) PROVE TypeOK'
  <2>1. [view EXCEPT !.records[k] = canonical[k]] \in Views
    BY DEF TypeOK, Views, Records
  <2>2. at # "insert"
    BY <1>13 DEF ReadRecord, Roles
  <2> QED
    BY <1>13, <2>1, <2>2, StepOfReading, StepOfRaising DEF ReadRecord
<1>14. CASE Replace
  <2>1. at' \in {Reads[i] : i \in 1..13}
    BY <1>14, ReadsNamed DEF Replace, ReadNames
  <2>2. index' \in Indexes
    <3>1. Membership \in SUBSET ({"corpus"} \union States)
      BY DEF Membership
    <3> QED
      BY <1>14, <3>1 DEF Replace, TypeOK, Views, Indexes
  <2> QED
    BY <1>14, <2>1, <2>2, NothingType DEF Replace, TypeOK
<1>15. CASE Conflict
  BY <1>15, StepOfRaising DEF Conflict
<1>16. CASE Inspect
  BY <1>16 DEF Inspect, TypeOK
<1>17. ASSUME NEW r \in Runs, Mark(r) PROVE TypeOK'
  <2>1. index' \in Indexes \union {None}
    <3>0. index # None
      BY <1>17 DEF Mark, MarksAnIndex
    <3>1. CASE index.rows[r] = "running"
      <4>1. [index EXCEPT !.rows[r] = "interrupted"] \in Indexes
        BY <3>0, <3>1 DEF TypeOK, Indexes, Rows, Statuses
      <4> QED
        BY <4>1, <3>1, <1>17 DEF Mark
    <3> QED
      BY <3>1, <1>17 DEF Mark, TypeOK
  <2> QED
    BY <1>17, <2>1 DEF Mark, TypeOK
<1>18. CASE KillReconciler
  BY <1>18 DEF KillReconciler, TypeOK
<1>19. CASE UNCHANGED vars
  BY <1>19 DEF vars, TypeOK
<1>23. ASSUME NEW r \in Runs, AppendReconciled(r) PROVE TypeOK'
  BY <1>23, AppendType DEF AppendReconciled, TypeOK
<1> QED
  BY <1>1, <1>2, <1>3, <1>4, <1>5, <1>6, <1>7, <1>8, <1>9, <1>10, <1>11, <1>12, <1>13,
     <1>14, <1>15, <1>16, <1>17, <1>18, <1>19,
     <1>20, <1>21, <1>22, <1>23 DEF Next, Rebuild

\* The variables of the projection have their types.
THEOREM TypeCorrect == Spec => []TypeOK
<1>1. Init => TypeOK /\ MarksAnIndex
  BY TypeInit DEF Init, MarksAnIndex
<1>2. TypeOK /\ MarksAnIndex /\ [Next]_vars => (TypeOK /\ MarksAnIndex)'
  BY TypeStep, MarksStep
<1> QED
  BY <1>1, <1>2, PTL DEF Spec

-----------------------------------------------------------------------------
(***************************************************************************)
(* What the workflow does to the files                                     *)
(***************************************************************************)

\* The steps of the rebuild and of the reconciler leave the files alone.
LEMMA FilesUntouched ==
  ASSUME \/ Rebuild \/ Inspect \/ KillReconciler \/ UNCHANGED vars
         \/ \E r \in Runs : Mark(r) \/ AppendReconciled(r)
  PROVE  UNCHANGED <<runs, made>>
BY DEF Rebuild, Inspect, KillReconciler, Mark, AppendReconciled, vars, runs, ReadIdentities,
       ReadPackets, ReadTrace, ReadCorpus, ReadStatus, ReadCandidates, ReadStates, EndRuns, Replace,
       Conflict, ReadRun, ReadRecord, Continue, Raise

Work == RecordsOwned /\ WorkInOrder

\* Files, outcomes and canonical records, once there, stay as they are.
LEMMA FilesStay ==
  ASSUME TypeOK, Work, [Next]_vars
  PROVE  /\ \A k \in Roles : canonical[k] # None => canonical'[k] = canonical[k]
         /\ \A r \in Runs : outcome[r] # None => outcome'[r] = outcome[r]
         /\ made \subseteq made'
<1> USE DEF TypeOK, Records, Work
<1>1. ASSUME NEW file \in Files, Make(file) PROVE UNCHANGED <<canonical, outcome>> /\ made \subseteq made'
  BY <1>1 DEF Make, runs
<1>2. ASSUME NEW r \in Runs, Prepare(r) \/ Start(r) \/ End(r) PROVE UNCHANGED <<canonical, outcome, made>>
  BY <1>2 DEF Prepare, Start, End
<1>3. ASSUME NEW r \in Runs, Promote(r)
      PROVE  /\ \A k \in Roles : canonical[k] # None => canonical'[k] = canonical[k]
             /\ UNCHANGED <<outcome, made>>
  BY <1>3 DEF Promote
<1>4. ASSUME NEW r \in Runs, Judge(r)
      PROVE  /\ \A q \in Runs : outcome[q] # None => outcome'[q] = outcome[q]
             /\ UNCHANGED <<canonical, made>>
  BY <1>4 DEF Judge, Move
<1> QED
  BY <1>1, <1>2, <1>3, <1>4, FilesUntouched DEF Next, runs

\* A step by r that leaves outcomes, records and reports alone, and r tasked.
LEMMA WorkMoves ==
  ASSUME TypeOK, Work, NEW r \in Runs, NEW to \in {"prepared", "started", "judged", "ended"},
         stage' = [stage EXCEPT ![r] = to], UNCHANGED <<outcome, canonical, made>>,
         Role[r] = "critic" => canonical["paper_reader"] # None
  PROVE  Work'
<1>1. \A q \in Runs : Tasked(q)' <=> Tasked(q) \/ q = r
  BY DEF Tasked, TypeOK
<1>2. RecordsOwned'
  <2>1. \A q \in Runs : stage'[q] = "promoted" => stage[q] = "promoted"
    BY DEF TypeOK
  <2>2. \A k \in Roles : canonical[k] # None => canonical[k] \in Runs
    BY DEF TypeOK, Records
  <2> QED
    BY <1>1, <2>1, <2>2 DEF Work, RecordsOwned
<1>3. WorkInOrder'
  BY <1>1 DEF Work, WorkInOrder
<1> QED
  BY <1>2, <1>3 DEF Work

LEMMA WorkStep == TypeOK /\ Work /\ [Next]_vars => Work'
<1> SUFFICES ASSUME TypeOK, Work, [Next]_vars PROVE Work'
  OBVIOUS
<1>0. \A r \in Runs : Tasked(r) /\ Role[r] = "critic" => canonical["paper_reader"] # None
  BY DEF Work, WorkInOrder
<1>1. ASSUME NEW file \in Files, Make(file) PROVE Work'
  <2>1. file = "report" => canonical["reviewer"] # None
    BY <1>1 DEF Make, Ready
  <2> QED
    BY <1>1, <2>1 DEF Make, runs, Work, RecordsOwned, WorkInOrder, Tasked
<1>2. ASSUME NEW r \in Runs, Prepare(r) PROVE Work'
  <2>1. Role[r] = "critic" => canonical["paper_reader"] # None
    BY <1>2 DEF Prepare, Ripe
  <2> QED
    BY <1>2, <2>1, WorkMoves DEF Prepare, Move
<1>3. ASSUME NEW r \in Runs, Start(r) PROVE Work'
  <2>1. Tasked(r)
    BY <1>3 DEF Start, Tasked
  <2> QED
    BY <1>0, <1>3, <2>1, WorkMoves DEF Start
<1>4. ASSUME NEW r \in Runs, Promote(r) PROVE Work'
  <2>1. /\ Role[r] \in Roles /\ None \notin Runs /\ outcome[r] \in {None, "failed"}
        /\ Tasked(r) /\ stage[r] = "started" /\ canonical[Role[r]] \in {None, r}
    BY <1>4, RunAssumption, NoneAssumption DEF Promote, Move, Tasked
  <2>2. /\ stage' = [stage EXCEPT ![r] = "promoted"]
        /\ canonical' = [canonical EXCEPT ![Role[r]] = r] /\ UNCHANGED <<outcome, made>>
    BY <1>4 DEF Promote, Move
  <2>3. \A q \in Runs : Tasked(q)' <=> Tasked(q)
    BY <2>1, <2>2 DEF Tasked, TypeOK
  <2>4. \A k \in Roles : canonical'[k] = IF k = Role[r] THEN r ELSE canonical[k]
    BY <2>1, <2>2 DEF TypeOK, Records
  <2>5. RecordsOwned'
    <3>1. ASSUME NEW k \in Roles, canonical'[k] # None
          PROVE  /\ Role[canonical'[k]] = k /\ stage'[canonical'[k]] \notin {"absent", "new"}
                 /\ outcome'[canonical'[k]] # "invalid"
      <4>1. CASE k = Role[r]
        <5>1. canonical'[k] = r /\ stage'[r] = "promoted"
          BY <2>2, <2>4, <4>1 DEF TypeOK
        <5>2. outcome'[r] # "invalid"
          BY <2>1, <2>2, NoneAssumption DEF Statuses, Endings
        <5> QED
          BY <4>1, <5>1, <5>2
      <4>2. CASE k # Role[r]
        <5>1. canonical'[k] = canonical[k] /\ canonical[k] \in Runs
          BY <2>4, <3>1, <4>2 DEF TypeOK, Records
        <5>2. Role[canonical[k]] = k /\ Tasked(canonical[k]) /\ outcome[canonical[k]] # "invalid"
          BY <3>1, <5>1 DEF Work, RecordsOwned
        <5>3. stage'[canonical[k]] \notin {"absent", "new"}
          BY <2>3, <5>1, <5>2 DEF Tasked
        <5> QED
          BY <2>2, <5>1, <5>2, <5>3
      <4> QED
        BY <4>1, <4>2
    <3>2. ASSUME NEW q \in Runs, outcome'[q] = "completed" \/ stage'[q] = "promoted"
          PROVE  canonical'[Role[q]] = q
      <4>1. CASE q = r
        BY <2>1, <2>4, <4>1
      <4>2. CASE q # r
        <5>1. outcome[q] = "completed" \/ stage[q] = "promoted"
          BY <2>2, <3>2, <4>2 DEF TypeOK
        <5>2. canonical[Role[q]] = q
          BY <5>1 DEF Work, RecordsOwned
        <5>3. Role[q] # Role[r]
          BY <2>1, <4>2, <5>2
        <5>4. Role[q] \in Roles
          BY RunAssumption
        <5> QED
          BY <2>4, <5>2, <5>3, <5>4
      <4> QED
        BY <4>1, <4>2
    <3> QED
      BY <3>1, <3>2 DEF RecordsOwned, Tasked
  <2>6. WorkInOrder'
    <3>1. \A k \in Roles : canonical[k] # None => canonical'[k] # None
      BY <2>1, <2>4
    <3> QED
      BY <2>2, <2>3, <3>1 DEF Work, WorkInOrder, Roles
  <2> QED
    BY <2>5, <2>6 DEF Work
<1>5. ASSUME NEW r \in Runs, Judge(r) PROVE Work'
  <2>1. /\ Tasked(r) /\ stage' = [stage EXCEPT ![r] = "judged"] /\ UNCHANGED <<canonical, made>>
        /\ Role[r] \in Roles
    BY <1>5, RunAssumption DEF Judge, Move, Tasked
  <2>2. \/ outcome' = [outcome EXCEPT ![r] = "completed"] /\ stage[r] = "promoted"
        \/ outcome' = [outcome EXCEPT ![r] = "failed"]
        \/ outcome' = [outcome EXCEPT ![r] = "invalid"] /\ canonical[Role[r]] # r
    BY <1>5 DEF Judge, Move
  <2>3. \A q \in Runs : Tasked(q)' <=> Tasked(q)
    BY <2>1 DEF Tasked, TypeOK
  <2>4. ASSUME NEW k \in Roles, canonical[k] # None
        PROVE  /\ Role[canonical[k]] = k /\ Tasked(canonical[k])'
               /\ outcome'[canonical[k]] # "invalid"
    <3>1. /\ canonical[k] \in Runs /\ Role[canonical[k]] = k
          /\ Tasked(canonical[k]) /\ outcome[canonical[k]] # "invalid"
      BY <2>4 DEF TypeOK, Records, Work, RecordsOwned
    <3>2. canonical[k] = r => outcome'[r] # "invalid"
      BY <2>2, <3>1 DEF TypeOK
    <3>3. canonical[k] # r => outcome'[canonical[k]] = outcome[canonical[k]]
      BY <2>2, <3>1 DEF TypeOK
    <3>4. Tasked(canonical[k])'
      BY <2>1, <2>3, <3>1 DEF Tasked
    <3> QED
      BY <2>1, <3>1, <3>2, <3>3, <3>4 DEF Tasked
  <2>5. ASSUME NEW q \in Runs, outcome'[q] = "completed" \/ stage'[q] = "promoted"
        PROVE  canonical[Role[q]] = q
    <3>1. outcome[q] = "completed" \/ stage[q] = "promoted"
      BY <2>1, <2>2, <2>5 DEF TypeOK
    <3> QED
      BY <3>1 DEF Work, RecordsOwned
  <2>6. RecordsOwned'
    BY <2>1, <2>4, <2>5 DEF RecordsOwned
  <2>7. WorkInOrder'
    BY <2>1, <2>3 DEF Work, WorkInOrder
  <2> QED
    BY <2>6, <2>7 DEF Work
<1>6. ASSUME NEW r \in Runs, End(r) PROVE Work'
  <2>1. Tasked(r)
    BY <1>6 DEF End, Move, Tasked
  <2> QED
    BY <1>0, <1>6, <2>1, WorkMoves DEF End, Move
<1>7. CASE UNCHANGED <<runs, made>>
  BY <1>7 DEF runs, Work, RecordsOwned, WorkInOrder, Tasked
<1> QED
  BY <1>1, <1>2, <1>3, <1>4, <1>5, <1>6, <1>7, FilesUntouched DEF Next

\* A status is derived from the record that it tells of.
LEMMA DerivedHeld ==
  ASSUME TypeOK, Work
  PROVE  /\ Derived \in Reviewed => canonical["reviewer"] # None
         /\ Derived = "screening" => canonical["paper_screener"] # None
         /\ Derived = "analyzing" =>
              canonical["paper_reader"] # None \/ made \intersect States # {}
         /\ "corpus" \in made => Derived \notin Early
<1>1. canonical["critic"] # None => canonical["paper_reader"] # None
  <2>1. SUFFICES ASSUME canonical["critic"] # None PROVE canonical["paper_reader"] # None
    OBVIOUS
  <2>2. canonical["critic"] \in Runs
    BY <2>1 DEF TypeOK, Records, Roles
  <2> QED
    BY <2>1, <2>2 DEF Work, RecordsOwned, WorkInOrder, Roles
<1>2. "report" \in made => canonical["reviewer"] # None
  BY DEF Work, WorkInOrder
<1> QED
  BY <1>1, <1>2 DEF Derived, Reviewed, Early

-----------------------------------------------------------------------------
(***************************************************************************)
(* What a rebuild has read                                                 *)
(***************************************************************************)

ViewInv ==
  /\ Recorded(view.rows)
  /\ Kept(view.records)
  /\ view.seen \subseteq made
  /\ CompletedRead
  /\ StatusHeld
  /\ StateHeld
  /\ StatusRead

IndexInv ==
  /\ index # None =>
       /\ Recorded(index.rows)
       /\ Kept(index.records)
       /\ Closed(index.rows, index.records)
       /\ CompletedIn(index.rows, index.records)
  /\ StatusIsShown

IInv == TypeOK /\ MarksAnIndex /\ Work /\ ViewInv /\ IndexInv

LEMMA NothingRead ==
  /\ \A r \in Runs : Nothing.rows[r] = None
  /\ \A k \in Roles : Nothing.records[k] = None
  /\ Nothing.seen = {}
  /\ None \notin Endings
BY NoneAssumption DEF Nothing, Statuses

\* At the reads before the runs nothing is claimed of a status or of a record.
LEMMA NothingClaimed ==
  ASSUME at \in {"identities", "packets", "trace", "corpus", "status"}
  PROVE  CompletedRead /\ StatusHeld /\ StateHeld /\ StatusRead
BY DEF CompletedRead, StatusHeld, StateHeld, StatusRead, Past, AfterStates, Roles

LEMMA NothingClaimedNext ==
  ASSUME at' \in {"identities", "packets", "trace", "corpus", "status"}
  PROVE  CompletedRead' /\ StatusHeld' /\ StateHeld' /\ StatusRead'
BY DEF CompletedRead, StatusHeld, StateHeld, StatusRead, Past, AfterStates, Roles

LEMMA NothingHeld ==
  ASSUME view = Nothing, at = "identities"
  PROVE  ViewInv
<1>1. Recorded(view.rows) /\ Kept(view.records) /\ view.seen \subseteq made
  BY NothingRead DEF Recorded, Kept, Roles
<1> QED
  BY <1>1, NothingClaimed DEF ViewInv

LEMMA NothingHeldNext ==
  ASSUME view' = Nothing, at' = "identities"
  PROVE  ViewInv'
<1>1. Recorded(view.rows)' /\ Kept(view.records)' /\ view'.seen \subseteq made'
  BY NothingRead DEF Recorded, Kept, Roles
<1> QED
  BY <1>1, NothingClaimedNext DEF ViewInv

\* While the view is left alone, it stays true.
LEMMA ViewStays ==
  ASSUME TypeOK, TypeOK', Work, ViewInv, [Next]_vars, UNCHANGED rebuild
  PROVE  ViewInv'
<1>1. Recorded(view.rows)'
  BY FilesStay, NoneAssumption DEF ViewInv, Recorded, rebuild, Endings, Statuses
<1>2. Kept(view.records)'
  BY FilesStay DEF ViewInv, Kept, rebuild
<1>3. view'.seen \subseteq made'
  BY FilesStay DEF ViewInv, rebuild
<1>4. CompletedRead'
  BY DEF ViewInv, CompletedRead, rebuild
<1>5. StatusHeld'
  BY FilesStay DEF ViewInv, StatusHeld, rebuild, Roles
<1>6. StateHeld'
  BY FilesStay DEF ViewInv, StateHeld, rebuild, Roles
<1>7. StatusRead'
  BY DEF ViewInv, StatusRead, rebuild
<1> QED
  BY <1>1, <1>2, <1>3, <1>4, <1>5, <1>6, <1>7 DEF ViewInv

\* A read that adds neither rows nor records nor a status nor files.
LEMMA ViewExtended ==
  ASSUME ViewInv, UNCHANGED <<runs, made>>,
         view'.rows = view.rows, view'.records = view.records,
         view'.status = view.status, view'.seen = view.seen,
         \/ at' = at
         \/ at = "candidates" /\ at' = "states"
         \/ at = "runs" /\ at' = "paper_screener"
  PROVE  ViewInv'
<1>1. Recorded(view.rows)' /\ Kept(view.records)' /\ view'.seen \subseteq made'
  BY DEF ViewInv, Recorded, Kept, runs
<1>2. CompletedRead'
  BY DEF ViewInv, CompletedRead, Past, Roles
<1>3. StatusHeld' /\ StateHeld'
  BY DEF ViewInv, StatusHeld, StateHeld, AfterStates, runs
<1>4. StatusRead'
  BY DEF ViewInv, StatusRead, Past
<1> QED
  BY <1>1, <1>2, <1>3, <1>4 DEF ViewInv

\* A read before the status is derived.
LEMMA ViewBegun ==
  ASSUME ViewInv, UNCHANGED <<runs, made>>,
         view'.rows = view.rows, view'.records = view.records,
         view'.seen \subseteq made,
         at' \in {"packets", "trace", "corpus", "status"}
  PROVE  ViewInv'
<1>1. Recorded(view.rows)' /\ Kept(view.records)' /\ view'.seen \subseteq made'
  BY DEF ViewInv, Recorded, Kept, runs
<1> QED
  BY <1>1, NothingClaimedNext DEF ViewInv

LEMMA ViewStep == IInv /\ TypeOK' /\ [Next]_vars => ViewInv'
<1> SUFFICES ASSUME IInv, TypeOK', [Next]_vars PROVE ViewInv'
  OBVIOUS
<1>0. TypeOK /\ Work /\ ViewInv
  BY DEF IInv
<1>1. CASE UNCHANGED rebuild
  BY <1>0, <1>1, ViewStays
<1>2. ASSUME Raise PROVE ViewInv'
  BY <1>2, NothingHeldNext DEF Raise
<1>3. CASE ReadIdentities
  <2>1. /\ view'.rows = view.rows /\ view'.records = view.records
        /\ view'.seen \subseteq made /\ at' = "packets" /\ UNCHANGED <<runs, made>>
    BY <1>0, <1>3, NextRead DEF ReadIdentities, Continue, Seeing, TypeOK, Views, ViewInv
  <2> QED
    BY <1>0, <2>1, ViewBegun
<1>4. CASE ReadPackets
  <2>1. CASE Continue(Seeing({"packet"}))
    <3>1. /\ view'.rows = view.rows /\ view'.records = view.records
          /\ view'.seen \subseteq made /\ at' = "trace" /\ UNCHANGED <<runs, made>>
      BY <1>0, <1>4, <2>1, NextRead DEF ReadPackets, Continue, Seeing, TypeOK, Views, ViewInv
    <3> QED
      BY <1>0, <3>1, ViewBegun
  <2> QED
    BY <1>2, <1>4, <2>1 DEF ReadPackets
<1>5. CASE ReadTrace
  <2>1. CASE Continue([view EXCEPT !.numbers = numbers])
    <3>1. /\ view'.rows = view.rows /\ view'.records = view.records
          /\ view'.seen \subseteq made /\ at' = "corpus" /\ UNCHANGED <<runs, made>>
      BY <1>0, <1>5, <2>1, NextRead DEF ReadTrace, Continue, TypeOK, Views, ViewInv
    <3> QED
      BY <1>0, <3>1, ViewBegun
  <2> QED
    BY <1>2, <1>5, <2>1 DEF ReadTrace
<1>6. CASE ReadCorpus
  <2>1. /\ view'.rows = view.rows /\ view'.records = view.records
        /\ view'.seen \subseteq made /\ at' = "status" /\ UNCHANGED <<runs, made>>
    BY <1>0, <1>6, NextRead DEF ReadCorpus, Continue, Seeing, TypeOK, Views, ViewInv
  <2> QED
    BY <1>0, <2>1, ViewBegun
<1>7. CASE ReadStatus
  <2>1. /\ view'.rows = view.rows /\ view'.records = view.records /\ view'.status = Derived
        /\ view'.seen = view.seen /\ at' = "candidates" /\ UNCHANGED <<runs, made>>
    BY <1>0, <1>7, NextRead DEF ReadStatus, Continue, TypeOK, Views
  <2>2. Recorded(view.rows)' /\ Kept(view.records)' /\ view'.seen \subseteq made'
    BY <1>0, <2>1 DEF ViewInv, Recorded, Kept, runs
  <2>3. CompletedRead' /\ StateHeld' /\ StatusRead'
    BY <2>1 DEF CompletedRead, StateHeld, StatusRead, Past, AfterStates, Roles
  <2>4. StatusHeld'
    BY <1>0, <2>1, DerivedHeld DEF ViewInv, StatusHeld, runs
  <2> QED
    BY <2>2, <2>3, <2>4 DEF ViewInv
<1>8. CASE ReadCandidates
  <2>1. CASE Continue(view)
    <3>1. view' = view /\ at = "candidates" /\ at' = "states" /\ UNCHANGED <<runs, made>>
      BY <1>8, <2>1, NextRead DEF ReadCandidates, Continue
    <3> QED
      BY <1>0, <3>1, ViewExtended
  <2> QED
    BY <1>2, <1>8, <2>1 DEF ReadCandidates
<1>9. CASE ReadStates
  <2>1. /\ view'.rows = view.rows /\ view'.records = view.records /\ view'.status = view.status
        /\ view'.seen = view.seen \union (made \intersect States)
        /\ at = "states" /\ at' = "runs" /\ UNCHANGED <<runs, made>>
    BY <1>0, <1>9, NextRead DEF ReadStates, Continue, Seeing, TypeOK, Views
  <2>2. Recorded(view.rows)' /\ Kept(view.records)' /\ view'.seen \subseteq made'
    BY <1>0, <2>1 DEF ViewInv, Recorded, Kept, runs
  <2>3. CompletedRead' /\ StatusRead'
    BY <2>1 DEF CompletedRead, StatusRead, Past, Roles
  <2>4. StatusHeld'
    BY <1>0, <2>1 DEF ViewInv, StatusHeld, runs, States
  <2>5. StateHeld'
    BY <1>0, <2>1 DEF ViewInv, StatusHeld, StateHeld, runs
  <2> QED
    BY <2>2, <2>3, <2>4, <2>5 DEF ViewInv
<1>10. CASE EndRuns
  <2>1. view' = view /\ at = "runs" /\ at' = "paper_screener" /\ UNCHANGED <<runs, made>>
    BY <1>10, NextRead DEF EndRuns, Continue
  <2> QED
    BY <1>0, <2>1, ViewExtended
<1>11. ASSUME NEW r \in Runs, ReadRun(r) PROVE ViewInv'
  <2>1. CASE Raise
    BY <2>1, <1>2
  <2>2. CASE view' = [view EXCEPT !.todo = @ \ {r}] /\ UNCHANGED <<runs, made, at>>
    <3>1. /\ view'.rows = view.rows /\ view'.records = view.records
          /\ view'.status = view.status /\ view'.seen = view.seen
      BY <1>0, <2>2 DEF TypeOK, Views
    <3> QED
      BY <1>0, <2>2, <3>1, ViewExtended
  <2>3. CASE view' = [view EXCEPT !.todo = @ \ {r}, !.rows[r] = Projected(r)]
             /\ UNCHANGED <<runs, made, at>>
    <3>1. /\ view'.rows = [view.rows EXCEPT ![r] = Projected(r)]
          /\ view'.records = view.records /\ view'.status = view.status
          /\ view'.seen = view.seen
      BY <1>0, <2>3 DEF TypeOK, Views
    <3>2. at = "runs" /\ at' = "runs"
      BY <1>11, <2>3 DEF ReadRun
    <3>3. Recorded(view.rows)'
      BY <1>0, <2>3, <3>1, NoneAssumption
      DEF Recorded, ViewInv, Projected, runs, Endings, Statuses, TypeOK, Views, Rows
    <3>4. Kept(view.records)' /\ view'.seen \subseteq made'
      BY <1>0, <2>3, <3>1 DEF ViewInv, Kept, runs
    <3>5. CompletedRead' /\ StatusRead'
      BY <3>2 DEF CompletedRead, StatusRead, Past, Roles
    <3>6. StatusHeld' /\ StateHeld'
      BY <1>0, <2>3, <3>1, <3>2 DEF ViewInv, StatusHeld, StateHeld, runs
    <3> QED
      BY <3>3, <3>4, <3>5, <3>6 DEF ViewInv
  <2> QED
    BY <1>11, <2>1, <2>2, <2>3 DEF ReadRun
<1>12. ASSUME NEW k \in Roles, ReadRecord(k) PROVE ViewInv'
  <2>1. CASE Raise
    BY <2>1, <1>2
  <2>2. CASE /\ Continue([view EXCEPT !.records[k] = canonical[k]])
             /\ ~(/\ k = "critic"
                  /\ canonical["critic"] # None
                  /\ view.records["paper_reader"] = None)
    <3>1. /\ view'.rows = view.rows /\ view'.status = view.status /\ view'.seen = view.seen
          /\ UNCHANGED <<runs, made>>
      BY <1>0, <2>2 DEF Continue, TypeOK, Views
    <3>2. at = k /\ at' = After(k)
      BY <1>12, <2>2 DEF ReadRecord, Continue
    <3>3. \A j \in Roles : view'.records[j] = IF j = k THEN canonical[k] ELSE view.records[j]
      BY <1>0, <2>2 DEF Continue, TypeOK, Views, Records
    <3>4. Recorded(view.rows)' /\ view'.seen \subseteq made'
      BY <1>0, <3>1 DEF ViewInv, Recorded, runs
    <3>5. Kept(view.records)'
      BY <1>0, <2>2, <3>1, <3>3 DEF ViewInv, Kept, runs, Roles
    <3>6. at \in AfterStates /\ at' \in AfterStates
      BY <3>2, NextRead DEF Roles, AfterStates
    <3>7. StatusHeld' /\ StateHeld'
      BY <1>0, <3>1, <3>6 DEF ViewInv, StatusHeld, StateHeld, runs
    <3>8. \A j \in Roles : at' \in Past(j) => j = k \/ at \in Past(j)
      BY <3>2, NextRead DEF Past, Roles
    <3>9. CompletedRead'
      <4> SUFFICES ASSUME NEW j \in Roles, at' \in Past(j), NEW r \in Runs,
                          Role[r] = j, view.rows[r] = "completed"
                   PROVE  view'.records[j] = r
        BY <3>1 DEF CompletedRead
      <4>1. CASE j = k
        <5>1. outcome[r] = "completed"
          BY <1>0 DEF ViewInv, Recorded, Endings
        <5>2. canonical[j] = r
          BY <1>0, <5>1 DEF Work, RecordsOwned
        <5> QED
          BY <3>3, <4>1, <5>2
      <4>2. CASE j # k
        BY <1>0, <3>3, <3>8, <4>2 DEF ViewInv, CompletedRead
      <4> QED
        BY <4>1, <4>2
    <3>10. StatusRead'
      <4>1. /\ view.status \in Reviewed => canonical["reviewer"] # None
            /\ view.status = "screening" => canonical["paper_screener"] # None
            /\ view.status = "analyzing" =>
                 canonical["paper_reader"] # None \/ view.seen \intersect States # {}
        BY <1>0, <3>6 DEF ViewInv, StatusHeld, StateHeld
      <4>2. \A j \in {"paper_screener", "paper_reader"} :
              at' \in Past(j) => j = k \/ at \in Past(j)
        BY <3>8 DEF Roles
      <4>3. at' = "insert" => k = "reviewer"
        BY <3>2, NextRead DEF Roles
      <4>4. at' \in Past("paper_screener") =>
              (view'.status = "screening" => view'.records["paper_screener"] # None)
        BY <1>0, <3>1, <3>3, <4>1, <4>2 DEF ViewInv, StatusRead, Roles
      <4>5. at' \in Past("paper_reader") =>
              (view'.status = "analyzing" =>
                 view'.records["paper_reader"] # None \/ view'.seen \intersect States # {})
        BY <1>0, <3>1, <3>3, <4>1, <4>2 DEF ViewInv, StatusRead, Roles
      <4>6. at' = "insert" =>
              (view'.status \in Reviewed => view'.records["reviewer"] # None)
        BY <3>1, <3>3, <4>1, <4>3 DEF Roles
      <4> QED
        BY <4>4, <4>5, <4>6 DEF StatusRead
    <3> QED
      BY <3>4, <3>5, <3>7, <3>9, <3>10 DEF ViewInv
  <2> QED
    BY <1>12, <2>1, <2>2 DEF ReadRecord
<1>13. CASE Replace
  BY <1>13, NothingHeldNext DEF Replace
<1>14. CASE Conflict
  BY <1>14, <1>2 DEF Conflict
<1> QED
  BY <1>1, <1>3, <1>4, <1>5, <1>6, <1>7, <1>8, <1>9, <1>10, <1>11, <1>12, <1>13, <1>14
  DEF Next, vars, Rebuild, rebuild, Make, Prepare, Start, Promote, Judge, End, Inspect, Mark,
      KillReconciler, AppendReconciled

-----------------------------------------------------------------------------
(***************************************************************************)
(* What is in the index                                                    *)
(***************************************************************************)

LEMMA IndexStep == IInv /\ TypeOK' /\ [Next]_vars => IndexInv'
<1> SUFFICES ASSUME IInv, TypeOK', [Next]_vars PROVE IndexInv'
  OBVIOUS
<1>0. TypeOK /\ MarksAnIndex /\ Work /\ ViewInv /\ IndexInv
  BY DEF IInv
<1>1. CASE UNCHANGED index
  <2>1. index # None =>
          Recorded(index.rows)' /\ Kept(index.records)' /\ Closed(index.rows, index.records)'
    BY <1>0, <1>1, FilesStay, NoneAssumption
    DEF IndexInv, Recorded, Kept, Closed, Endings, Statuses
  <2>2. (index # None => CompletedIn(index.rows, index.records))' /\ StatusIsShown'
    BY <1>0, <1>1 DEF IndexInv, CompletedIn, StatusIsShown
  <2> QED
    BY <2>1, <2>2, <1>1 DEF IndexInv
<1>2. CASE Replace
  <2>1. /\ index'.rows = view.rows /\ index'.records = view.records
        /\ index'.status = view.status /\ index'.corpus = Membership
        /\ at = "insert" /\ References /\ UNCHANGED <<runs, made>>
    BY <1>2 DEF Replace
  <2>2. Recorded(index.rows)' /\ Kept(index.records)'
    BY <1>0, <2>1 DEF ViewInv, Recorded, Kept, runs
  <2>3. Closed(index.rows, index.records)'
    BY <2>1 DEF Closed, References
  <2>4. CompletedIn(index.rows, index.records)'
    <3>1. \A k \in Roles : "insert" \in Past(k)
      BY DEF Past, Roles
    <3>2. \A r \in Runs : Role[r] \in Roles
      BY RunAssumption
    <3> QED
      BY <1>0, <2>1, <3>1, <3>2 DEF ViewInv, CompletedRead, CompletedIn
  <2>5. StatusIsShown'
    <3>1. /\ view.status = "screening" => view.records["paper_screener"] # None
          /\ view.status = "analyzing" =>
               view.records["paper_reader"] # None \/ view.seen \intersect States # {}
          /\ view.status \in Reviewed => view.records["reviewer"] # None
          /\ "corpus" \in view.seen => view.status \notin Early
      BY <1>0, <2>1 DEF ViewInv, StatusRead, StatusHeld, Past, AfterStates
    <3>2. "corpus" \in index'.corpus =>
            /\ "corpus" \in view.seen
            /\ index'.corpus \intersect States = view.seen \intersect States
      BY <2>1 DEF Membership
    <3> QED
      BY <2>1, <3>1, <3>2 DEF StatusIsShown, Early
  <2> QED
    BY <2>2, <2>3, <2>4, <2>5 DEF IndexInv
<1>3. ASSUME NEW r \in Runs, Mark(r) PROVE IndexInv'
  <2>1. index # None
    BY <1>0, <1>3 DEF Mark, MarksAnIndex
  <2>2. CASE index.rows[r] = "running"
    <3>1. /\ index'.rows = [index.rows EXCEPT ![r] = "interrupted"]
          /\ index'.records = index.records /\ index'.status = index.status
          /\ index'.corpus = index.corpus /\ UNCHANGED <<runs, made>>
      BY <1>0, <1>3, <2>1, <2>2 DEF Mark, TypeOK, Indexes
    <3>2. Recorded(index.rows)' /\ Kept(index.records)'
      BY <1>0, <2>1, <3>1 DEF IndexInv, Recorded, Kept, runs, Endings, TypeOK, Indexes, Rows
    <3>3. Closed(index.rows, index.records)'
      BY <1>0, <2>1, <3>1, NoneAssumption
      DEF IndexInv, Closed, Statuses, TypeOK, Indexes, Rows, Records
    <3>4. CompletedIn(index.rows, index.records)'
      BY <1>0, <2>1, <3>1 DEF IndexInv, CompletedIn, TypeOK, Indexes, Rows
    <3>5. StatusIsShown'
      BY <1>0, <2>1, <3>1 DEF IndexInv, StatusIsShown
    <3> QED
      BY <3>2, <3>3, <3>4, <3>5 DEF IndexInv
  <2> QED
    BY <2>2, <1>1, <1>3 DEF Mark
<1> QED
  BY <1>1, <1>2, <1>3
  DEF Next, vars, Rebuild, Make, Prepare, Start, Promote, Judge, End, Inspect, KillReconciler,
      AppendReconciled, ReadIdentities, ReadPackets, ReadTrace, ReadCorpus, ReadStatus,
      ReadCandidates, ReadStates, EndRuns, ReadRun, ReadRecord, Conflict, Continue, Raise

LEMMA InitInv == Init => IInv
<1> SUFFICES ASSUME Init PROVE IInv
  OBVIOUS
<1>1. TypeOK
  BY TypeInit
<1>2. "report" \notin made /\ \A r \in Runs : ~Tasked(r) /\ stage[r] # "promoted"
  BY SceneAssumption DEF Init, Tasked, States
<1>3. MarksAnIndex /\ Work
  BY <1>2, NoneAssumption
  DEF Init, MarksAnIndex, Work, RecordsOwned, WorkInOrder, Statuses, Endings
<1>4. ViewInv
  BY NothingHeld DEF Init
<1>5. IndexInv
  BY DEF Init, IndexInv, StatusIsShown
<1> QED
  BY <1>1, <1>3, <1>4, <1>5 DEF IInv

LEMMA StepInv == IInv /\ [Next]_vars => IInv'
<1> SUFFICES ASSUME IInv, [Next]_vars PROVE IInv'
  OBVIOUS
<1>1. TypeOK' /\ MarksAnIndex' /\ Work'
  BY TypeStep, MarksStep, WorkStep DEF IInv
<1> QED
  BY <1>1, ViewStep, IndexStep DEF IInv

THEOREM Invariance == Spec => []IInv
BY InitInv, StepInv, PTL DEF Spec

\* A terminal row says what outcome.json says, whatever reads it was built from.
THEOREM RecordedRows == Spec => []RowsAreRecorded
<1>1. IInv => RowsAreRecorded
  BY DEF IInv, IndexInv, Recorded, RowsAreRecorded
<1> QED
  BY <1>1, Invariance, PTL

\* The records in an index are the canonical ones, each with the row of a run
\* that was not judged invalid; a run indexed as completed is indexed with its
\* record, and a critique with its reading.
THEOREM ClosedRecords == Spec => []RecordsAreClosed
<1>1. IInv => RecordsAreClosed
  <2> SUFFICES ASSUME IInv, index # None PROVE RecordsAreClosed
    BY DEF RecordsAreClosed
  <2>1. ASSUME NEW k \in Roles, index.records[k] # None
        PROVE  /\ index.records[k] = canonical[k]
               /\ index.rows[index.records[k]] \notin {None, "invalid"}
    <3>1. index.records[k] = canonical[k] /\ index.rows[index.records[k]] # None
      BY <2>1 DEF IInv, IndexInv, Kept, Closed
    <3>2. canonical[k] \in Runs /\ outcome[canonical[k]] # "invalid"
      BY <2>1, <3>1 DEF IInv, Work, RecordsOwned, TypeOK, Records
    <3>3. index.rows[canonical[k]] # "invalid"
      BY <3>2 DEF IInv, IndexInv, Recorded, Endings
    <3> QED
      BY <3>1, <3>3
  <2>2. \A r \in Runs : index.rows[r] = "completed" => index.records[Role[r]] = r
    BY DEF IInv, IndexInv, CompletedIn
  <2>3. index.records["critic"] # None => index.records["paper_reader"] # None
    BY DEF IInv, IndexInv, Kept
  <2> QED
    BY <2>1, <2>2, <2>3 DEF RecordsAreClosed
<1> QED
  BY <1>1, Invariance, PTL

\* The status in an index is not ahead of the records that it is derived from,
\* nor behind the corpus and the paper states beside it.
THEOREM ShownStatus == Spec => []StatusIsShown
<1>1. IInv => StatusIsShown
  BY DEF IInv, IndexInv
<1> QED
  BY <1>1, Invariance, PTL
=============================================================================
