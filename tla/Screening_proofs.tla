-------------------------- MODULE Screening_proofs --------------------------
(***************************************************************************)
(* The guarantees of Screening, proved for any candidate sets, scopes,     *)
(* prefixes, batch sizes and number of commands at work.                   *)
(***************************************************************************)
EXTENDS Screening, FiniteSetTheorems, TLAPS

\* A command at work goes by the frozen files.
CommandsBound ==
  /\ \A f \in freezing : f.step = "scope" => candidates = f.cands
  /\ \A c \in preparing : c.cands = candidates /\ c.scope = scope
  /\ \A c \in collecting : c.cands = candidates /\ c.scope = scope

\* A prepare-screening command at work has written all batches before its next.
PreparedSoFar ==
  \A c \in preparing : \A a \in Ordinals : a < c.next => task[c.prefix][a] = TaskOf(c)

\* A canonical record was made for the frozen candidates and scope.
RecordsBound ==
  \A b \in Ordinals : record[b] # None =>
    record[b].cands = candidates /\ record[b].scope = scope

\* What a freeze-corpus command has found is there.
FoundThere == \A c \in collecting : \A b \in c.found : record[b] # None

IInv ==
  /\ TypeOK
  /\ CommandsBound
  /\ PreparedSoFar
  /\ PrefixIsOnePartition
  /\ RecordsBound
  /\ FoundThere
  /\ CorpusIsComplete
  /\ CorpusIsScreened

\* Files are written once.
Kept ==
  /\ candidates # None => candidates' = candidates
  /\ scope # None => scope' = scope
  /\ \A x \in Prefixes, b \in Ordinals : task[x][b] # None => task'[x][b] = task[x][b]
  /\ \A b \in Ordinals : record[b] # None => record'[b] = record[b]
  /\ corpus # None => corpus' = corpus
-----------------------------------------------------------------------------
\* Every step leaves records of their contracts in the files.
LEMMA TypeKeeps == IInv /\ [Next]_vars => TypeOK'
<1> USE NoneAssumption, SizeAssumption DEF files, Freezes, Prepares, Collects
<1> SUFFICES ASSUME IInv, [Next]_vars PROVE TypeOK'
  OBVIOUS
<1> USE DEF IInv, TypeOK
<1>1. ASSUME NEW s \in CandidateSets, NEW c \in Scopes, StartFreeze(s, c) PROVE TypeOK'
  BY <1>1 DEF StartFreeze
<1>2. ASSUME NEW f \in freezing, FreezeCandidates(f) PROVE TypeOK'
  BY <1>2 DEF FreezeCandidates
<1>3. ASSUME NEW f \in freezing, FreezeScope(f) \/ EndFreeze(f) PROVE TypeOK'
  BY <1>3 DEF FreezeScope, EndFreeze
<1>4. ASSUME NEW x \in Prefixes, NEW k \in Sizes, StartPrepare(x, k) PROVE TypeOK'
  BY <1>4 DEF StartPrepare
<1>5. ASSUME NEW c \in preparing, WriteTask(c) PROVE TypeOK'
  <2>1. c \in Prepares /\ TaskOf(c) \in Tasks
    BY DEF TaskOf, Tasks
  <2>2. preparing' \subseteq Prepares
    BY <1>5, <2>1 DEF WriteTask
  <2>3. task' \in [Prefixes -> [Ordinals -> Tasks \union {None}]]
    BY <1>5, <2>1 DEF WriteTask
  <2> QED BY <1>5, <2>2, <2>3 DEF WriteTask
<1>6. ASSUME NEW c \in preparing, EndPrepare(c) PROVE TypeOK'
  BY <1>6 DEF EndPrepare
<1>7. ASSUME NEW x \in Prefixes, NEW b \in Ordinals, Accept(x, b) PROVE TypeOK'
  <2>1. PICK d \in [Batch(task[x][b].cands, task[x][b].size, b) -> Decisions] :
          record' = [record EXCEPT ![b] =
            [cands |-> task[x][b].cands, scope |-> task[x][b].scope,
             decided |-> [p \in Papers |-> IF p \in Batch(task[x][b].cands, task[x][b].size, b)
                                           THEN d[p] ELSE None]]]
    BY <1>7 DEF Accept
  <2>2. task[x][b] \in Tasks
    BY <1>7 DEF Accept
  <2>3. record' \in [Ordinals -> Records \union {None}]
    BY <2>1, <2>2 DEF Records, Tasks
  <2> QED BY <1>7, <2>3 DEF Accept
<1>8. ASSUME NEW failures \in SUBSET Papers, StartCollect(failures) PROVE TypeOK'
  BY <1>8 DEF StartCollect
<1>9. ASSUME NEW c \in collecting, NEW b \in Ordinals, Look(c, b) PROVE TypeOK'
  <2> DEFINE new == [c EXCEPT !.unread = @ \ {b},
                              !.found = IF record[b] = None THEN @ ELSE @ \union {b}]
  <2>1. c \in Collects
    OBVIOUS
  <2>2. new \in Collects
    BY <2>1
  <2>3. collecting' = (collecting \ {c}) \union {new}
    BY <1>9 DEF Look
  <2> QED BY <1>9, <2>2, <2>3 DEF Look
<1>10. ASSUME NEW c \in collecting, Route(c) PROVE TypeOK'
  <2>1. \A p \in Papers : Entry(c, p) \in Memberships \union {None}
    BY DEF Entry, Routed, Memberships
  <2>2. corpus' \in Manifests \union {None}
    BY <1>10, <2>1 DEF Route, Manifests
  <2> QED BY <1>10, <2>2 DEF Route
<1>11. ASSUME NEW c \in collecting, EndCollect(c) PROVE TypeOK'
  BY <1>11 DEF EndCollect
<1>12. ASSUME FreezeAuthoritative PROVE TypeOK'
  BY <1>12 DEF FreezeAuthoritative, Manifests, Memberships
<1>13. CASE UNCHANGED vars
  BY <1>13 DEF vars
<1> QED
  BY <1>1, <1>2, <1>3, <1>4, <1>5, <1>6, <1>7, <1>8, <1>9, <1>10, <1>11, <1>12, <1>13 DEF Next
-----------------------------------------------------------------------------
\* No step rewrites a file.
LEMMA FilesKept == IInv /\ [Next]_vars => Kept
<1> SUFFICES ASSUME IInv, [Next]_vars PROVE Kept
  OBVIOUS
<1> USE DEF IInv, TypeOK, Kept, files
<1>1. ASSUME NEW f \in freezing, FreezeCandidates(f) \/ FreezeScope(f) PROVE Kept
  BY <1>1 DEF FreezeCandidates, FreezeScope
<1>2. ASSUME NEW c \in preparing, WriteTask(c) PROVE Kept
  BY <1>2 DEF WriteTask, Prepares
<1>3. ASSUME NEW x \in Prefixes, NEW b \in Ordinals, Accept(x, b) PROVE Kept
  BY <1>3 DEF Accept
<1>4. ASSUME NEW c \in collecting, Route(c) PROVE Kept
  BY <1>4 DEF Route
<1>5. CASE FreezeAuthoritative
  BY <1>5 DEF FreezeAuthoritative
<1>6. CASE UNCHANGED files
  BY <1>6
<1> QED
  BY <1>1, <1>2, <1>3, <1>4, <1>5, <1>6
  DEF Next, vars, StartFreeze, EndFreeze, StartPrepare, EndPrepare, StartCollect, Look, EndCollect
-----------------------------------------------------------------------------
\* A command reads the frozen files and they stay as it read them.
LEMMA CommandsKeep == IInv /\ TypeOK' /\ Kept /\ [Next]_vars => CommandsBound'
<1> USE NoneAssumption DEF files
<1> SUFFICES ASSUME IInv, TypeOK', Kept, [Next]_vars PROVE CommandsBound'
  OBVIOUS
<1> USE DEF IInv, TypeOK, Kept, CommandsBound
<1>1. \A c \in preparing : candidates # None /\ scope # None
  BY DEF Prepares
<1>2. \A c \in collecting : candidates # None /\ scope # None
  BY DEF Collects
<1>3. \A f \in freezing : f.step = "scope" => candidates # None
  BY DEF Freezes
<1>4. ASSUME NEW f \in freezing', f.step = "scope" PROVE candidates' = f.cands
  <2>1. CASE f \in freezing
    BY <1>3, <1>4, <2>1
  <2>2. CASE f \notin freezing
    <3>1. ASSUME NEW g \in freezing, FreezeCandidates(g) PROVE candidates' = f.cands
      BY <2>2, <3>1 DEF FreezeCandidates, Freezes
    <3>2. ASSUME NEW s \in CandidateSets, NEW c \in Scopes, StartFreeze(s, c) PROVE FALSE
      BY <1>4, <2>2, <3>2 DEF StartFreeze
    <3> QED
      BY <2>2, <3>1, <3>2
      DEF Next, vars, FreezeScope, EndFreeze, StartPrepare, WriteTask, EndPrepare, Accept,
          StartCollect, Look, Route, EndCollect, FreezeAuthoritative
  <2> QED BY <2>1, <2>2
<1>5. ASSUME NEW c \in preparing' PROVE c.cands = candidates' /\ c.scope = scope'
  <2>1. CASE c \in preparing
    BY <1>1, <2>1
  <2>2. CASE c \notin preparing
    <3>1. ASSUME NEW x \in Prefixes, NEW k \in Sizes, StartPrepare(x, k)
          PROVE  c.cands = candidates' /\ c.scope = scope'
      BY <2>2, <3>1 DEF StartPrepare
    <3>2. ASSUME NEW d \in preparing, WriteTask(d)
          PROVE  c.cands = candidates' /\ c.scope = scope'
      BY <2>2, <3>2 DEF WriteTask, Prepares
    <3> QED
      BY <2>2, <3>1, <3>2
      DEF Next, vars, StartFreeze, FreezeCandidates, FreezeScope, EndFreeze, EndPrepare, Accept,
          StartCollect, Look, Route, EndCollect, FreezeAuthoritative
  <2> QED BY <2>1, <2>2
<1>6. ASSUME NEW c \in collecting' PROVE c.cands = candidates' /\ c.scope = scope'
  <2>1. CASE c \in collecting
    BY <1>2, <2>1
  <2>2. CASE c \notin collecting
    <3>1. ASSUME NEW failures \in SUBSET Papers, StartCollect(failures)
          PROVE  c.cands = candidates' /\ c.scope = scope'
      BY <2>2, <3>1 DEF StartCollect
    <3>2. ASSUME NEW d \in collecting, NEW b \in Ordinals, Look(d, b)
          PROVE  c.cands = candidates' /\ c.scope = scope'
      BY <2>2, <3>2 DEF Look, Collects
    <3> QED
      BY <2>2, <3>1, <3>2
      DEF Next, vars, StartFreeze, FreezeCandidates, FreezeScope, EndFreeze, StartPrepare,
          WriteTask, EndPrepare, Accept, Route, EndCollect, FreezeAuthoritative
  <2> QED BY <2>1, <2>2
<1> QED BY <1>4, <1>5, <1>6
-----------------------------------------------------------------------------
\* The batches are written in order, each only after the ones before it.
LEMMA TasksKeep ==
  IInv /\ TypeOK' /\ Kept /\ CommandsBound' /\ [Next]_vars => PreparedSoFar' /\ PrefixIsOnePartition'
<1> USE NoneAssumption, SizeAssumption DEF files, Ordinals
<1> SUFFICES ASSUME IInv, TypeOK', Kept, CommandsBound', [Next]_vars
             PROVE  PreparedSoFar' /\ PrefixIsOnePartition'
  OBVIOUS
<1> USE DEF IInv, TypeOK, Kept
<1>1. \A c \in Prepares : TaskOf(c) \in Tasks
  BY DEF TaskOf, Prepares, Tasks
<1>2. \A c \in preparing : candidates # None /\ scope # None
  BY DEF Prepares, CommandsBound
<1>3. ASSUME NEW d \in preparing, WriteTask(d) PROVE PreparedSoFar' /\ PrefixIsOnePartition'
  <2>1. CASE task[d.prefix][d.next] \notin {None, TaskOf(d)}
    BY <1>3, <2>1 DEF WriteTask, PreparedSoFar, PrefixIsOnePartition
  <2>2. CASE task[d.prefix][d.next] \in {None, TaskOf(d)}
    <3>1. d \in Prepares /\ d.next \in Ordinals
      BY <1>3, CountAssumption DEF WriteTask, Prepares
    <3>2. task' = [task EXCEPT ![d.prefix][d.next] = TaskOf(d)]
      BY <1>3, <2>2 DEF WriteTask
    <3>3. /\ task'[d.prefix][d.next] = TaskOf(d)
          /\ \A x \in Prefixes, b \in Ordinals :
               x # d.prefix \/ b # d.next => task'[x][b] = task[x][b]
      BY <3>1, <3>2 DEF Prepares
    <3>6. ASSUME NEW a \in Ordinals, a < d.next + 1 PROVE task'[d.prefix][a] = TaskOf(d)
      <4>1. CASE a = d.next
        BY <3>3, <4>1
      <4>2. CASE a < d.next
        <5>1. task[d.prefix][a] = TaskOf(d)
          BY <4>2 DEF PreparedSoFar
        <5> QED BY <3>1, <3>3, <4>2, <5>1 DEF Prepares
      <4> QED BY <3>1, <3>6, <4>1, <4>2 DEF Prepares
    <3>4. PreparedSoFar'
      <4>1. ASSUME NEW c \in preparing, NEW a \in Ordinals, a < c.next
            PROVE  task'[c.prefix][a] = TaskOf(c)
        BY <1>1, <4>1 DEF PreparedSoFar, Prepares
      <4> DEFINE n == [d EXCEPT !.next = @ + 1]
      <4>3. n.prefix = d.prefix /\ n.next = d.next + 1 /\ TaskOf(n) = TaskOf(d)
        BY <3>1 DEF TaskOf, Prepares
      <4>4. preparing' = (preparing \ {d}) \union {n}
        BY <1>3, <2>2 DEF WriteTask
      <4>5. ASSUME NEW c \in preparing', NEW a \in Ordinals, a < c.next
            PROVE  task'[c.prefix][a] = TaskOf(c)
        <5>1. CASE c \in preparing
          BY <4>1, <4>5, <5>1
        <5>2. CASE c = n
          <6>1. task'[d.prefix][a] = TaskOf(d)
            BY <3>6, <4>3, <4>5, <5>2
          <6> QED BY <4>3, <5>2, <6>1
        <5> QED BY <4>4, <5>1, <5>2
      <4> QED BY <4>5 DEF PreparedSoFar, TaskOf
    <3>5. PrefixIsOnePartition'
      <4>1. candidates' = candidates /\ scope' = scope
        BY <1>3 DEF WriteTask
      <4>2. TaskOf(d).cands = candidates /\ TaskOf(d).scope = scope
        BY DEF TaskOf, CommandsBound
      <4>3. \A a \in 1..d.next : task'[d.prefix][a] = TaskOf(d)
        <5>1. ASSUME NEW a \in 1..d.next PROVE a \in Ordinals /\ a < d.next + 1
          BY <3>1, <5>1 DEF Prepares
        <5> QED BY <3>6, <5>1
      <4>4. ASSUME NEW x \in Prefixes, NEW b \in Ordinals, task'[x][b] # None,
                   NEW a \in 1..b
            PROVE  /\ task'[x][b].cands = candidates
                   /\ task'[x][b].scope = scope
                   /\ task'[x][a] = task'[x][b]
        <5>1. CASE x # d.prefix
          <6>1. a \in Ordinals
            BY <4>4
          <6>2. task'[x][a] = task[x][a] /\ task'[x][b] = task[x][b]
            BY <3>3, <5>1, <6>1
          <6>3. /\ task[x][b].cands = candidates /\ task[x][b].scope = scope
                /\ \A e \in 1..b : task[x][e] = task[x][b]
            BY <4>4, <6>2 DEF PrefixIsOnePartition
          <6>4. task[x][a] = task[x][b]
            BY <4>4, <6>3
          <6> QED BY <6>2, <6>3, <6>4
        <5>2. CASE x = d.prefix /\ b <= d.next
          BY <4>2, <4>3, <4>4, <5>2, <3>1 DEF Prepares
        <5>3. CASE x = d.prefix /\ b > d.next
          <6>1. task[x][b] # None /\ task'[x][b] = task[x][b]
            BY <3>1, <3>3, <4>4, <5>3
          <6>2. \A e \in 1..b : task[x][e] = task[x][b]
            BY <6>1 DEF PrefixIsOnePartition
          <6>3. task[x][d.next] = task[x][b] /\ task[x][d.next] = TaskOf(d)
            BY <2>2, <3>1, <5>3, <6>1, <6>2
          <6> QED BY <3>1, <3>3, <4>2, <5>3, <6>1, <6>2, <6>3
        <5> QED BY <3>1, <5>1, <5>2, <5>3 DEF Prepares
      <4> QED BY <4>1, <4>4 DEF PrefixIsOnePartition
    <3> QED BY <3>4, <3>5
  <2> QED BY <2>1, <2>2
<1>4. ASSUME UNCHANGED task,
             \A c \in preparing' : c \in preparing \/ c.next = 1
      PROVE  PreparedSoFar' /\ PrefixIsOnePartition'
  <2>1. PreparedSoFar'
    BY <1>4 DEF PreparedSoFar
  <2>2. \A x \in Prefixes, b \in Ordinals :
          task[x][b] # None => candidates # None /\ scope # None
    BY DEF PrefixIsOnePartition, Tasks
  <2>3. PrefixIsOnePartition'
    BY <1>4, <2>2 DEF PrefixIsOnePartition
  <2> QED BY <2>1, <2>3
<1>5. ASSUME NEW x \in Prefixes, NEW k \in Sizes, StartPrepare(x, k)
      PROVE  UNCHANGED task /\ \A c \in preparing' : c \in preparing \/ c.next = 1
  BY <1>5 DEF StartPrepare
<1> QED
  BY <1>3, <1>4, <1>5
  DEF Next, vars, StartFreeze, FreezeCandidates, FreezeScope, EndFreeze, EndPrepare, Accept,
      StartCollect, Look, Route, EndCollect, FreezeAuthoritative
-----------------------------------------------------------------------------
\* A record is promoted for a task of the frozen candidates, and it stays.
LEMMA RecordsKeep ==
  IInv /\ TypeOK' /\ Kept /\ [Next]_vars => RecordsBound' /\ FoundThere'
<1> USE NoneAssumption DEF files
<1> SUFFICES ASSUME IInv, TypeOK', Kept, [Next]_vars PROVE RecordsBound' /\ FoundThere'
  OBVIOUS
<1> USE DEF IInv, TypeOK, Kept
<1>1. RecordsBound'
  <2>1. \A b \in Ordinals : record[b] # None => candidates # None /\ scope # None
    BY DEF RecordsBound, Records
  <2>2. ASSUME NEW x \in Prefixes, NEW b \in Ordinals, Accept(x, b) PROVE RecordsBound'
    <3>1. \A a \in Ordinals : a # b => record'[a] = record[a]
      BY <2>2 DEF Accept
    <3>2. record'[b].cands = task[x][b].cands /\ record'[b].scope = task[x][b].scope
      BY <2>2 DEF Accept
    <3>3. task[x][b].cands = candidates /\ task[x][b].scope = scope
      BY <2>2 DEF Accept, PrefixIsOnePartition
    <3> QED BY <2>2, <3>1, <3>2, <3>3 DEF Accept, RecordsBound
  <2>3. CASE UNCHANGED record
    BY <2>1, <2>3 DEF RecordsBound
  <2> QED
    BY <2>2, <2>3
    DEF Next, vars, StartFreeze, FreezeCandidates, FreezeScope, EndFreeze, StartPrepare,
        WriteTask, EndPrepare, StartCollect, Look, Route, EndCollect, FreezeAuthoritative
<1>2. FoundThere'
  <2>1. ASSUME NEW c \in collecting, NEW b \in c.found PROVE record'[b] # None
    <3>1. b \in Ordinals
      BY DEF Collects
    <3> QED BY <3>1 DEF FoundThere
  <2>2. ASSUME NEW d \in collecting, NEW b \in Ordinals, Look(d, b) PROVE FoundThere'
    <3> DEFINE new == [d EXCEPT !.unread = @ \ {b},
                                !.found = IF record[b] = None THEN @ ELSE @ \union {b}]
    <3>1. d \in Collects
      OBVIOUS
    <3>2. new.found = IF record[b] = None THEN d.found ELSE d.found \union {b}
      BY <3>1 DEF Collects
    <3>3. \A a \in new.found : record'[a] # None
      BY <2>1, <3>2
    <3>4. collecting' = (collecting \ {d}) \union {new}
      BY <2>2 DEF Look
    <3> QED BY <2>1, <3>3, <3>4 DEF FoundThere
  <2>3. ASSUME NEW failures \in SUBSET Papers, StartCollect(failures) PROVE FoundThere'
    BY <2>1, <2>3 DEF StartCollect, FoundThere
  <2>4. CASE collecting' \subseteq collecting
    BY <2>1, <2>4 DEF FoundThere
  <2> QED
    BY <2>2, <2>3, <2>4
    DEF Next, vars, StartFreeze, FreezeCandidates, FreezeScope, EndFreeze, StartPrepare,
        WriteTask, EndPrepare, Accept, Route, EndCollect, FreezeAuthoritative
<1> QED BY <1>1, <1>2
-----------------------------------------------------------------------------
\* The checks of freeze-corpus suffice for the corpus that it writes.
LEMMA RouteKeeps ==
  ASSUME IInv, TypeOK', Kept, NEW c \in collecting, Route(c), corpus = None
  PROVE  CorpusIsComplete' /\ CorpusIsScreened'
<1> USE NoneAssumption DEF IInv, TypeOK
<1>1. c \in Collects /\ c.cands = candidates /\ c.scope = scope /\ candidates # None
  BY DEF CommandsBound, Collects
<1>2. /\ corpus' = [mode |-> "semantic", entry |-> [p \in Papers |-> Entry(c, p)]]
      /\ UNCHANGED <<candidates, scope, task, record>>
      /\ Covered(c)
  BY DEF Route
<1>3. \A p \in Papers : Entry(c, p) # None <=> p \in Members(candidates)
  BY <1>1 DEF Entry, Routed, Memberships
<1>4. CorpusIsComplete'
  BY <1>1, <1>2, <1>3 DEF CorpusIsComplete, Members
<1>5. ASSUME NEW p \in Papers, p \in Members(candidates)
      PROVE  \E b \in Ordinals :
               /\ record[b] # None
               /\ record[b].cands = candidates
               /\ record[b].scope = scope
               /\ record[b].decided[p] # None
               /\ Entry(c, p) \in {"membership_unresolved", Routed(record[b].decided[p])}
  <2> DEFINE b == CHOOSE b \in Deciders(c, p) : TRUE
  <2>1. Deciders(c, p) # {}
    BY <1>1, <1>2, <1>5 DEF Covered
  <2>2. b \in Deciders(c, p)
    BY <2>1
  <2>3. b \in c.found /\ b \in Ordinals /\ record[b].decided[p] # None
    BY <1>1, <2>2 DEF Deciders, Collects
  <2>4. record[b] # None /\ record[b].cands = candidates /\ record[b].scope = scope
    BY <2>3 DEF FoundThere, RecordsBound
  <2>5. Entry(c, p) \in {"membership_unresolved", Routed(record[b].decided[p])}
    BY <1>1, <1>5 DEF Entry
  <2> QED BY <2>3, <2>4, <2>5
<1>6. Members(candidates) \subseteq Papers
  BY <1>1, CandidateAssumption DEF Members
<1>7. CorpusIsScreened'
  <2>1. Members(candidates') = Members(candidates) /\ corpus'.entry = [p \in Papers |-> Entry(c, p)]
    BY <1>2
  <2>2. ASSUME NEW p \in Members(candidates)
        PROVE  \E b \in Ordinals :
                 /\ record'[b] # None
                 /\ record'[b].cands = candidates'
                 /\ record'[b].scope = scope'
                 /\ record'[b].decided[p] # None
                 /\ corpus'.entry[p] \in {"membership_unresolved", Routed(record'[b].decided[p])}
    <3>1. p \in Papers /\ corpus'.entry[p] = Entry(c, p)
      BY <1>6, <2>1
    <3>2. UNCHANGED <<candidates, scope, record>>
      BY <1>2
    <3>3. PICK b \in Ordinals :
               /\ record[b] # None
               /\ record[b].cands = candidates
               /\ record[b].scope = scope
               /\ record[b].decided[p] # None
               /\ Entry(c, p) \in {"membership_unresolved", Routed(record[b].decided[p])}
      BY <1>5, <3>1
    <3>4. corpus'.entry[p] \in {"membership_unresolved", Routed(record'[b].decided[p])}
      BY <3>1, <3>2, <3>3
    <3> QED BY <3>2, <3>3, <3>4
  <2> QED BY <2>1, <2>2 DEF CorpusIsScreened, Routed, Members
<1> QED BY <1>4, <1>7

\* A corpus is complete when it is written, and neither it nor its basis changes.
LEMMA CorpusKeeps ==
  IInv /\ TypeOK' /\ Kept /\ RecordsBound' /\ [Next]_vars => CorpusIsComplete' /\ CorpusIsScreened'
<1> USE NoneAssumption DEF files
<1> SUFFICES ASSUME IInv, TypeOK', Kept, [Next]_vars
             PROVE  CorpusIsComplete' /\ CorpusIsScreened'
  OBVIOUS
<1>1. CASE corpus # None
  <2>1. corpus' = corpus /\ candidates' = candidates /\ candidates # None
    BY <1>1 DEF IInv, CorpusIsComplete, Kept
  <2>2. \A b \in Ordinals : record[b] # None => record'[b] = record[b] /\ scope' = scope
    BY DEF IInv, TypeOK, Kept, RecordsBound, Records
  <2>3. CorpusIsComplete'
    BY <2>1 DEF IInv, CorpusIsComplete, Members
  <2>4. CorpusIsScreened'
    BY <2>1, <2>2 DEF IInv, CorpusIsScreened, Members, Routed
  <2> QED BY <2>3, <2>4
<1>2. CASE corpus = None /\ corpus' = None
  BY <1>2 DEF CorpusIsComplete, CorpusIsScreened
<1>3. CASE corpus = None /\ FreezeAuthoritative
  <2>1. /\ corpus' = [mode |-> "authoritative",
                       entry |-> [p \in Papers |-> IF p \in Members(candidates)
                                                   THEN "included" ELSE None]]
        /\ candidates' = candidates /\ candidates # None
    BY <1>3 DEF FreezeAuthoritative
  <2>2. \A p \in Papers : corpus'.entry[p] # None <=> p \in Members(candidates)
    BY <2>1 DEF Memberships
  <2>3. corpus'.mode = "authoritative" /\ Members(candidates)' = Members(candidates)
    BY <2>1 DEF Members
  <2> QED BY <2>1, <2>2, <2>3 DEF CorpusIsComplete, CorpusIsScreened
<1> QED
  BY <1>1, <1>2, <1>3, RouteKeeps
  DEF Next, vars, StartFreeze, FreezeCandidates, FreezeScope, EndFreeze, StartPrepare,
      WriteTask, EndPrepare, Accept, StartCollect, Look, EndCollect
-----------------------------------------------------------------------------
\* With nothing written, everything holds.
LEMMA InitIInv == Init => IInv
  BY NoneAssumption
  DEF Init, IInv, TypeOK, CommandsBound, PreparedSoFar, PrefixIsOnePartition, RecordsBound,
      FoundThere, CorpusIsComplete, CorpusIsScreened

\* IInv is inductive.
LEMMA Inductive == Spec => []IInv
<1>1. ASSUME IInv, [Next]_vars PROVE IInv'
  BY <1>1, TypeKeeps, FilesKept, CommandsKeep, TasksKeep, RecordsKeep, CorpusKeeps DEF IInv
<1> QED BY InitIInv, <1>1, PTL DEF Spec
-----------------------------------------------------------------------------
\* The frozen files, the tasks and the decisions are written once, whatever overlaps.
THEOREM WrittenOnce == Spec => [][Kept]_vars
<1>1. IInv /\ [Next]_vars => [Kept]_vars
  BY FilesKept
<1> QED BY Inductive, <1>1, PTL DEF Spec

\* Every file of the screening holds a record of its contract.
THEOREM TypeCorrect == Spec => []TypeOK
<1>1. IInv => TypeOK
  BY DEF IInv
<1> QED BY Inductive, <1>1, PTL

\* However prepare-screening commands overlap and end, the tasks of a prefix are
\* batches of one partition.
THEOREM OnePartition == Spec => []PrefixIsOnePartition
<1>1. IInv => PrefixIsOnePartition
  BY DEF IInv
<1> QED BY Inductive, <1>1, PTL

\* The corpus accounts for every frozen candidate and for nothing else.
THEOREM CompleteCorpus == Spec => []CorpusIsComplete
<1>1. IInv => CorpusIsComplete
  BY DEF IInv
<1> QED BY Inductive, <1>1, PTL

\* No membership of a screened corpus is made up.
THEOREM ScreenedCorpus == Spec => []CorpusIsScreened
<1>1. IInv => CorpusIsScreened
  BY DEF IInv
<1> QED BY Inductive, <1>1, PTL
-----------------------------------------------------------------------------
(***************************************************************************)
(* One decision for each paper                                             *)
(***************************************************************************)

\* A canonical record decides the papers of its batch, as some task had cut it.
RecordsCut ==
  \A b \in Ordinals : record[b] # None =>
    \E x \in Prefixes :
      /\ task[x][b] # None
      /\ \A p \in Papers :
           record[b].decided[p] # None <=> p \in Batch(task[x][b].cands, task[x][b].size, b)

LEMMA CutsKeep == IInv /\ RecordsCut /\ Kept /\ [Next]_vars => RecordsCut'
<1> USE NoneAssumption DEF files
<1> SUFFICES ASSUME IInv, RecordsCut, Kept, [Next]_vars PROVE RecordsCut'
  OBVIOUS
<1> USE DEF IInv, TypeOK, Kept
<1>1. CASE UNCHANGED record
  BY <1>1 DEF RecordsCut
<1>2. ASSUME NEW x \in Prefixes, NEW b \in Ordinals, Accept(x, b) PROVE RecordsCut'
  <2> DEFINE t == task[x][b]
             B == Batch(t.cands, t.size, b)
  <2>1. PICK d \in [B -> Decisions] :
          record' = [record EXCEPT ![b] =
            [cands |-> t.cands, scope |-> t.scope,
             decided |-> [p \in Papers |-> IF p \in B THEN d[p] ELSE None]]]
    BY <1>2 DEF Accept
  <2>2. UNCHANGED task /\ t # None
    BY <1>2 DEF Accept
  <2>3. \A a \in Ordinals : a # b => record'[a] = record[a]
    BY <2>1
  <2>4. \A p \in Papers : record'[b].decided[p] # None <=> p \in B
    <3> HIDE DEF B
    <3> QED BY <2>1
  <2> QED BY <2>2, <2>3, <2>4 DEF RecordsCut
<1> QED
  BY <1>1, <1>2
  DEF Next, vars, StartFreeze, FreezeCandidates, FreezeScope, EndFreeze, StartPrepare, WriteTask,
      EndPrepare, StartCollect, Look, Route, EndCollect, FreezeAuthoritative

\* Slices of one size do not overlap.
LEMMA SlicesDisjoint ==
  ASSUME NEW k \in Nat \ {0}, NEW a \in Nat, NEW b \in Nat, NEW i \in Nat,
         (a - 1) * k < i, i <= a * k, (b - 1) * k < i, i <= b * k
  PROVE  a = b
<1>1. \A x, y \in Int : x <= y => x * k <= y * k
  OBVIOUS
<1>2. ~(a <= b - 1)
  BY <1>1
<1>3. ~(b <= a - 1)
  BY <1>1
<1> QED BY <1>2, <1>3

\* Batches of one size have no paper in common, as no candidate comes twice.
LEMMA BatchesDisjoint ==
  ASSUME NEW s \in CandidateSets, NEW k \in Sizes, NEW a \in Ordinals, NEW b \in Ordinals, NEW p,
         p \in Batch(s, k, a), p \in Batch(s, k, b)
  PROVE  a = b
<1> USE SizeAssumption DEF Ordinals
<1>1. PICK i \in 1..Len(s) : p = s[i] /\ (a - 1) * k < i /\ i <= a * k
  BY DEF Batch
<1>2. PICK j \in 1..Len(s) : p = s[j] /\ (b - 1) * k < j /\ j <= b * k
  BY DEF Batch
<1>3. s \in Seq(Papers) /\ \A m, n \in 1..Len(s) : m # n => s[m] # s[n]
  BY CandidateAssumption
<1>4. i = j
  BY ONLY <1>1, <1>2, <1>3
<1>5. i \in Nat /\ a \in Nat /\ b \in Nat /\ k \in Nat \ {0}
  BY <1>3
<1> QED BY ONLY <1>1, <1>2, <1>4, <1>5, SlicesDisjoint

LEMMA OnceCut == IInv /\ RecordsCut => OneDecisionWithOneSize
<1> USE NoneAssumption DEF IInv, TypeOK
<1> SUFFICES ASSUME IInv, RecordsCut, OneSize, corpus # None, corpus.mode = "semantic",
                    NEW p \in Members(candidates)
             PROVE  Cardinality({b \in Ordinals : record[b] # None
                                                  /\ record[b].decided[p] # None}) = 1
  BY DEF OneDecisionWithOneSize, OneDecisionEach
<1>1. candidates \in CandidateSets /\ p \in Papers
  BY CandidateAssumption DEF CorpusIsComplete, Members
<1>2. PICK b \in Ordinals : record[b] # None /\ record[b].decided[p] # None
  BY DEF CorpusIsScreened
<1>3. ASSUME NEW a \in Ordinals, record[a] # None, record[a].decided[p] # None PROVE a = b
  <2>1. PICK x \in Prefixes : task[x][a] # None /\ p \in Batch(task[x][a].cands, task[x][a].size, a)
    BY <1>1, <1>3 DEF RecordsCut
  <2>2. PICK y \in Prefixes : task[y][b] # None /\ p \in Batch(task[y][b].cands, task[y][b].size, b)
    BY <1>1, <1>2 DEF RecordsCut
  <2>3. task[x][a] \in Tasks /\ task[x][a].size = task[y][b].size
    BY <2>1, <2>2 DEF OneSize
  <2>4. task[x][a].cands = candidates /\ task[y][b].cands = candidates
    BY <2>1, <2>2 DEF PrefixIsOnePartition
  <2> QED BY <1>1, <2>1, <2>2, <2>3, <2>4, BatchesDisjoint DEF Tasks
<1>4. {a \in Ordinals : record[a] # None /\ record[a].decided[p] # None} = {b}
  BY <1>2, <1>3
<1> QED BY <1>4, FS_Singleton

\* The routing of a screened corpus resolves to one decision for each paper, for
\* any number of partitions, as long as all of them have one batch size.
THEOREM SingleDecisions == Spec => []OneDecisionWithOneSize
<1>1. Init => RecordsCut
  BY DEF Init, RecordsCut
<1>2. IInv /\ RecordsCut /\ [Next]_vars => RecordsCut'
  BY CutsKeep, FilesKept
<1> QED BY Inductive, OnceCut, <1>1, <1>2, PTL DEF Spec
-----------------------------------------------------------------------------
(***************************************************************************)
(* The screening as the rest of the investigation sees it                  *)
(***************************************************************************)

\* A batch can only be decided once the candidates are frozen.
LEMMA PhaseOf ==
  ASSUME IInv
  PROVE  /\ candidates = None => Phase = "inputs" /\ \A b \in Ordinals : record[b] = None
         /\ candidates # None => Phase \in {"candidates", "decisions"}
BY NoneAssumption DEF IInv, TypeOK, RecordsBound, Records, Phase

\* The steps of ReviewGate, in terms of what it is shown.
LEMMA ShownSame ==
  ASSUME NEW s \in CandidateSets, UNCHANGED <<Phase, Entries>>
  PROVE  UNCHANGED Gate(s)!vars
BY DEF Gate!vars

LEMMA ShownBegin ==
  ASSUME NEW s \in CandidateSets, UNCHANGED Entries,
         \/ Phase = "inputs" /\ Phase' = "candidates"
         \/ Phase = "candidates" /\ Phase' = "decisions"
  PROVE  Gate(s)!Next
<1>1. Gate(s)!Begin
  BY DEF Gate!Begin, Gate!ranks, Gate!reviewing, Gate!rendering
<1> QED BY <1>1 DEF Gate!Next

LEMMA ShownFreeze ==
  ASSUME NEW s \in CandidateSets, Phase \in {"candidates", "decisions"}, UNCHANGED Phase,
         Entries = None, Entries' \in [Members(s) -> Memberships]
  PROVE  Gate(s)!Next
<1>1. Gate(s)!FreezeCorpus
  BY DEF Gate!FreezeCorpus, Gate!Corpora, Gate!Memberships, Memberships, Gate!ranks,
         Gate!reviewing, Gate!rendering
<1> QED BY <1>1 DEF Gate!Next

\* The first freeze of the candidates, and the first decision, begin a phase; the
\* first freeze of the corpus is FreezeCorpus; the rest is not shown.
LEMMA StepShows ==
  ASSUME IInv, IInv', Kept, [Next]_vars, NEW s \in CandidateSets, candidates' = s
  PROVE  Gate(s)!Next \/ UNCHANGED Gate(s)!vars
<1> USE NoneAssumption DEF IInv, TypeOK
<1>1. CASE UNCHANGED <<candidates, record, corpus>>
  BY <1>1, ShownSame DEF Phase, Entries
<1>2. ASSUME NEW f \in freezing, FreezeCandidates(f), candidates' # candidates
      PROVE  Gate(s)!Next
  <2>1. candidates = None /\ UNCHANGED <<record, corpus>>
    BY <1>2 DEF FreezeCandidates
  <2>2. Phase = "inputs" /\ Phase' = "candidates"
    BY <2>1, PhaseOf DEF Phase
  <2> QED BY <2>1, <2>2, ShownBegin DEF Entries
<1>3. ASSUME NEW x \in Prefixes, NEW b \in Ordinals, Accept(x, b)
      PROVE  Gate(s)!Next \/ UNCHANGED Gate(s)!vars
  <2>1. UNCHANGED <<candidates, corpus>> /\ candidates # None /\ record'[b] # None
    <3> DEFINE t == task[x][b]
               B == Batch(t.cands, t.size, b)
    <3>1. t \in Tasks /\ UNCHANGED <<candidates, corpus>>
      BY <1>3 DEF Accept
    <3>2. PICK d \in [B -> Decisions] :
            record'[b] = [cands |-> t.cands, scope |-> t.scope,
                          decided |-> [p \in Papers |-> IF p \in B THEN d[p] ELSE None]]
      BY <1>3 DEF Accept
    <3>3. [p \in Papers |-> IF p \in B THEN d[p] ELSE None] \in [Papers -> Decisions \union {None}]
      BY <3>2
    <3>4. record'[b] \in Records
      BY ONLY <3>1, <3>2, <3>3 DEF Records, Tasks
    <3>5. candidates # None
      BY <1>3, <3>1 DEF Accept, PrefixIsOnePartition, Tasks
    <3> QED BY <3>1, <3>4, <3>5
  <2>2. Phase' = "decisions" /\ Phase \in {"candidates", "decisions"} /\ UNCHANGED Entries
    BY <2>1, PhaseOf DEF Phase, Entries
  <2> QED BY <2>2, ShownBegin, ShownSame
<1>4. ASSUME (\E c \in collecting : Route(c)) \/ FreezeAuthoritative, corpus' # corpus
      PROVE  Gate(s)!Next
  <2>1. corpus = None /\ corpus' # None /\ UNCHANGED <<candidates, record>>
    BY <1>4 DEF Route, FreezeAuthoritative
  <2>2. {p \in Papers : corpus'.entry[p] # None} = Members(s)
    <3>1. \A p \in Papers : corpus'.entry[p] # None <=> p \in Members(s)
      BY <2>1 DEF CorpusIsComplete
    <3>2. s \in Seq(Papers)
      BY CandidateAssumption
    <3>3. Members(s) \subseteq Papers
      BY ONLY <3>2 DEF Members
    <3> QED BY <3>1, <3>3
  <2>3. Entries' = [p \in Members(s) |-> corpus'.entry[p]]
    BY <2>1, <2>2 DEF Entries
  <2>4. \A p \in Members(s) : corpus'.entry[p] \in Memberships
    BY <2>1, <2>2 DEF Manifests
  <2>5. Entries = None /\ UNCHANGED Phase /\ Phase \in {"candidates", "decisions"}
    BY <2>1, PhaseOf DEF Phase, Entries
  <2> QED BY <2>3, <2>4, <2>5, ShownFreeze
<1>5. \/ UNCHANGED <<candidates, record, corpus>>
      \/ \E f \in freezing : FreezeCandidates(f)
      \/ \E x \in Prefixes, b \in Ordinals : Accept(x, b)
      \/ (\E c \in collecting : Route(c)) \/ FreezeAuthoritative
  BY DEF Next, vars, files, StartFreeze, FreezeScope, EndFreeze, StartPrepare, WriteTask,
         EndPrepare, StartCollect, Look, EndCollect
<1>6. (\E f \in freezing : FreezeCandidates(f)) => UNCHANGED <<record, corpus>>
  BY DEF FreezeCandidates
<1>7. (\E c \in collecting : Route(c)) \/ FreezeAuthoritative => UNCHANGED <<candidates, record>>
  BY DEF Route, FreezeAuthoritative
<1> QED BY <1>1, <1>2, <1>3, <1>4, <1>5, <1>6, <1>7

\* Seen from the rest of the investigation, the commands that freeze and screen
\* the candidates begin its phases in order and write one corpus, of exactly the
\* frozen candidates, whichever of them come first.
THEOREM RefinesGate == Spec => ImplementsGate
<1>1. IInv /\ IInv' /\ [Next]_vars =>
        [\A s \in CandidateSets : candidates' = s => Gate(s)!Next \/ UNCHANGED Gate(s)!vars]_vars
  BY FilesKept, StepShows
<1> QED BY Inductive, <1>1, PTL DEF Spec, ImplementsGate
=============================================================================
