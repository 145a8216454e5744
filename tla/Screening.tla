----------------------------- MODULE Screening -----------------------------
(***************************************************************************)
(* From discovered candidates to the frozen corpus, as scripts/workflow.py *)
(* drives it: freeze-candidates, prepare-screening, accept-run of a        *)
(* screening task and freeze-corpus.                                       *)
(*                                                                         *)
(* Every command is a process of its own; they share nothing but           *)
(* write-once files, overlap, and are killed between any two accesses.     *)
(* The stage they run in is a constant in the code, not read from any      *)
(* file, so nothing orders them but the files they need.  A command that   *)
(* is at work is a record in the set of its kind.                          *)
(*                                                                         *)
(* The investigation and its objective profile are in place and immutable. *)
(* Of accept-run, RunLifecycle's subject, this module keeps the promotion. *)
(***************************************************************************)
EXTENDS Integers, Sequences, FiniteSets

CONSTANTS
  Papers,         \* paper_ids
  CandidateSets,  \* the candidate sets that discovery may hand over, in order
  Scopes,         \* screening scopes that may be handed over with them
  Prefixes,       \* values of --agent-run-prefix
  Sizes,          \* values of --batch-size
  MaxBatches,     \* an upper bound on the number of batches
  None,           \* a file that does not exist, a paper without an entry
  MaxRunning      \* bound: how many commands are at work at once

Ordinals == 1..MaxBatches

Count(s, k) == (Len(s) + k - 1) \div k

\* CandidateSet.candidates_and_hash_are_valid: no paper is a candidate twice.
ASSUME CandidateAssumption ==
  \A s \in CandidateSets :
    s \in Seq(Papers) /\ \A i, j \in 1..Len(s) : i # j => s[i] # s[j]

ASSUME SizeAssumption == MaxBatches \in Nat /\ Sizes \subseteq Nat \ {0}

ASSUME CountAssumption == \A s \in CandidateSets, k \in Sizes : Count(s, k) \in 0..MaxBatches

VARIABLES
  candidates,  \* discovery/candidates.json, or None
  scope,       \* screening-scope.json, or None
  task,        \* task[x][b] : input.json of run <x>-<b>, or None
  record,      \* record[b] : the canonical record of screening-batch-<b>, or None
  corpus,      \* corpus.json, or None
  freezing,    \* the freeze-candidates commands at work
  preparing,   \* the prepare-screening commands at work
  collecting   \* the freeze-corpus --mode semantic commands at work

files == <<candidates, scope, task, record, corpus>>
vars == <<candidates, scope, task, record, corpus, freezing, preparing, collecting>>

Decisions == {"selected", "screened_out", "needs_review"}

Memberships == {"included", "excluded", "membership_unresolved"}

Tasks == [cands : CandidateSets, scope : Scopes, size : Sizes]

Records ==
  [cands : CandidateSets, scope : Scopes, decided : [Papers -> Decisions \union {None}]]

Manifests ==
  [mode : {"semantic", "authoritative"}, entry : [Papers -> Memberships \union {None}]]

Freezes == [cands : CandidateSets, scope : Scopes, step : {"candidates", "scope"}]

Prepares ==
  [prefix : Prefixes, cands : CandidateSets, scope : Scopes, size : Sizes, next : Nat \ {0}]

Collects ==
  [cands : CandidateSets, scope : Scopes, failures : SUBSET Papers,
   unread : SUBSET Ordinals, found : SUBSET Ordinals]

ASSUME NoneAssumption ==
  None \notin CandidateSets \union Scopes \union Tasks \union Records \union Manifests
               \union Decisions \union Memberships

TypeOK ==
  /\ candidates \in CandidateSets \union {None}
  /\ scope \in Scopes \union {None}
  /\ task \in [Prefixes -> [Ordinals -> Tasks \union {None}]]
  /\ record \in [Ordinals -> Records \union {None}]
  /\ corpus \in Manifests \union {None}
  /\ freezing \subseteq Freezes
  /\ preparing \subseteq Prepares
  /\ collecting \subseteq Collects

Init ==
  /\ candidates = None
  /\ scope = None
  /\ task = [x \in Prefixes |-> [b \in Ordinals |-> None]]
  /\ record = [b \in Ordinals |-> None]
  /\ corpus = None
  /\ freezing = {}
  /\ preparing = {}
  /\ collecting = {}

\* There is room for one more command.
Room ==
  Cardinality(freezing) + Cardinality(preparing) + Cardinality(collecting) < MaxRunning

Members(s) == {s[i] : i \in 1..Len(s)}

\* partition_candidates: the papers of batch b, a slice of the frozen order.
Batch(s, k, b) == {s[i] : i \in {j \in 1..Len(s) : (b - 1) * k < j /\ j <= b * k}}

-----------------------------------------------------------------------------
(***************************************************************************)
(* freeze-candidates: two files, written one after the other.  The         *)
(* identity files it writes last, which may be missing when it is killed   *)
(* or one of them collides, are read by render.py and in ReviewGate.       *)
(***************************************************************************)

StartFreeze(s, c) ==
  /\ Room
  /\ freezing' = freezing \union {[cands |-> s, scope |-> c, step |-> "candidates"]}
  /\ UNCHANGED <<files, preparing, collecting>>

\* Mutant: the candidate set of a later discovery replaces the frozen one.
FreezeReplaces(f) ==
  /\ f \in freezing
  /\ f.step = "candidates"
  /\ candidates' = f.cands
  /\ freezing' = (freezing \ {f}) \union {[f EXCEPT !.step = "scope"]}
  /\ UNCHANGED <<scope, task, record, corpus, preparing, collecting>>

\* ArtifactStore.write_json raises when another candidate set is there.
FreezeCandidates(f) ==
  /\ f \in freezing
  /\ f.step = "candidates"
  /\ IF candidates \in {None, f.cands}
     THEN /\ candidates' = f.cands
          /\ freezing' = (freezing \ {f}) \union {[f EXCEPT !.step = "scope"]}
     ELSE /\ freezing' = freezing \ {f}
          /\ UNCHANGED candidates
  /\ UNCHANGED <<scope, task, record, corpus, preparing, collecting>>

\* Likewise, and then the command has ended: its scope may not be the one that
\* the process which wrote the candidates was given.
FreezeScope(f) ==
  /\ f \in freezing
  /\ f.step = "scope"
  /\ scope' = IF scope = None THEN f.scope ELSE scope
  /\ freezing' = freezing \ {f}
  /\ UNCHANGED <<candidates, task, record, corpus, preparing, collecting>>

EndFreeze(f) ==
  /\ f \in freezing
  /\ freezing' = freezing \ {f}
  /\ UNCHANGED <<files, preparing, collecting>>

-----------------------------------------------------------------------------
(***************************************************************************)
(* prepare-screening: one task per batch, in the order of the batches      *)
(***************************************************************************)

StartPrepare(x, k) ==
  /\ Room
  /\ candidates # None
  /\ scope # None
  /\ preparing' = preparing \union
       {[prefix |-> x, cands |-> candidates, scope |-> scope, size |-> k, next |-> 1]}
  /\ UNCHANGED <<files, freezing, collecting>>

TaskOf(c) == [cands |-> c.cands, scope |-> c.scope, size |-> c.size]

\* Mutant: a batch whose task exists already is passed over.
WriteTaskSkips(c) ==
  /\ c \in preparing
  /\ c.next <= Count(c.cands, c.size)
  /\ task' = IF task[c.prefix][c.next] = None
             THEN [task EXCEPT ![c.prefix][c.next] = TaskOf(c)] ELSE task
  /\ preparing' = (preparing \ {c}) \union {[c EXCEPT !.next = @ + 1]}
  /\ UNCHANGED <<candidates, scope, record, corpus, freezing, collecting>>

\* A task that differs from the one at its path ends the command.
WriteTask(c) ==
  /\ c \in preparing
  /\ c.next <= Count(c.cands, c.size)
  /\ IF task[c.prefix][c.next] \in {None, TaskOf(c)}
     THEN /\ task' = [task EXCEPT ![c.prefix][c.next] = TaskOf(c)]
          /\ preparing' = (preparing \ {c}) \union {[c EXCEPT !.next = @ + 1]}
     ELSE /\ preparing' = preparing \ {c}
          /\ UNCHANGED task
  /\ UNCHANGED <<candidates, scope, record, corpus, freezing, collecting>>

\* The command has written its last task, or is killed.
EndPrepare(c) ==
  /\ c \in preparing
  /\ preparing' = preparing \ {c}
  /\ UNCHANGED <<files, freezing, collecting>>

-----------------------------------------------------------------------------
(***************************************************************************)
(* accept-run of a screening task whose output is valid: a decision for    *)
(* each paper of the batch.  The canonical path names the batch by its     *)
(* ordinal alone; a record that is there stays, and the command raises.    *)
(***************************************************************************)

Accept(x, b) ==
  /\ task[x][b] # None
  /\ record[b] = None
  /\ LET t == task[x][b] IN
       \E d \in [Batch(t.cands, t.size, b) -> Decisions] :
         record' = [record EXCEPT ![b] =
           [cands |-> t.cands, scope |-> t.scope,
            decided |-> [p \in Papers |-> IF p \in Batch(t.cands, t.size, b)
                                          THEN d[p] ELSE None]]]
  /\ UNCHANGED <<candidates, scope, task, corpus, freezing, preparing, collecting>>

-----------------------------------------------------------------------------
(***************************************************************************)
(* freeze-corpus                                                           *)
(***************************************************************************)

\* With a corpus in place the command changes nothing and is left out.
StartCollect(failures) ==
  /\ Room
  /\ corpus = None
  /\ candidates # None
  /\ scope # None
  /\ collecting' = collecting \union
       {[cands |-> candidates, scope |-> scope, failures |-> failures,
         unread |-> Ordinals, found |-> {}]}
  /\ UNCHANGED <<files, freezing, preparing>>

\* The walk over the screening directory comes by batch b.
Look(c, b) ==
  /\ c \in collecting
  /\ b \in c.unread
  /\ collecting' = (collecting \ {c}) \union
       {[c EXCEPT !.unread = @ \ {b}, !.found = IF record[b] = None THEN @ ELSE @ \union {b}]}
  /\ UNCHANGED <<files, freezing, preparing>>

\* The checks of route_screening_records.
Bound(c) == \A b \in c.found : record[b].cands = c.cands /\ record[b].scope = c.scope

Deciders(c, p) == {b \in c.found : record[b].decided[p] # None}

\* Mutant: the coverage of the candidates is not checked.
CoveredOnce(c) == \A p \in Papers : \A a, b \in Deciders(c, p) : a = b

Covered(c) ==
  \A p \in Papers :
    /\ \A a, b \in Deciders(c, p) : a = b
    /\ p \in Members(c.cands) <=> Deciders(c, p) # {}

\* Mutant: the state of the decision is taken over as the membership.
RoutedAsIs(decision) == IF decision = "screened_out" THEN "excluded" ELSE decision

Routed(decision) == IF decision = "screened_out" THEN "excluded" ELSE "included"

Entry(c, p) ==
  IF p \notin Members(c.cands) THEN None
  ELSE IF p \in c.failures \/ Deciders(c, p) = {} THEN "membership_unresolved"
  ELSE Routed(record[CHOOSE b \in Deciders(c, p) : TRUE].decided[p])

\* Mutant: a freeze that started without a corpus writes its own over another's.
RouteReplaces(c) ==
  /\ c \in collecting
  /\ c.unread = {}
  /\ c.failures \subseteq Members(c.cands)
  /\ Bound(c)
  /\ Covered(c)
  /\ corpus' = [mode |-> "semantic", entry |-> [p \in Papers |-> Entry(c, p)]]
  /\ collecting' = collecting \ {c}
  /\ UNCHANGED <<candidates, scope, task, record, freezing, preparing>>

\* The records found cover the candidates: the corpus is written, once.
Route(c) ==
  /\ c \in collecting
  /\ c.unread = {}
  /\ c.failures \subseteq Members(c.cands)
  /\ Bound(c)
  /\ Covered(c)
  /\ corpus' = IF corpus = None
               THEN [mode |-> "semantic", entry |-> [p \in Papers |-> Entry(c, p)]]
               ELSE corpus
  /\ collecting' = collecting \ {c}
  /\ UNCHANGED <<candidates, scope, task, record, freezing, preparing>>

\* The command raises at a check, or is killed.
EndCollect(c) ==
  /\ c \in collecting
  /\ collecting' = collecting \ {c}
  /\ UNCHANGED <<files, freezing, preparing>>

\* --mode authoritative asks for the candidates only.
FreezeAuthoritative ==
  /\ candidates # None
  /\ corpus = None
  /\ corpus' = [mode |-> "authoritative",
                entry |-> [p \in Papers |-> IF p \in Members(candidates) THEN "included" ELSE None]]
  /\ UNCHANGED <<candidates, scope, task, record, freezing, preparing, collecting>>

-----------------------------------------------------------------------------

Next ==
  \/ \E s \in CandidateSets, c \in Scopes : StartFreeze(s, c)
  \/ \E f \in freezing : FreezeCandidates(f) \/ FreezeScope(f) \/ EndFreeze(f)
  \/ \E x \in Prefixes, k \in Sizes : StartPrepare(x, k)
  \/ \E c \in preparing : WriteTask(c) \/ EndPrepare(c)
  \/ \E x \in Prefixes, b \in Ordinals : Accept(x, b)
  \/ \E failures \in SUBSET Papers : StartCollect(failures)
  \/ \E c \in collecting, b \in Ordinals : Look(c, b)
  \/ \E c \in collecting : Route(c) \/ EndCollect(c)
  \/ FreezeAuthoritative

Spec == Init /\ [][Next]_vars

-----------------------------------------------------------------------------
(***************************************************************************)
(* Properties                                                              *)
(***************************************************************************)

\* The tasks under one prefix are the first batches of one partition of the frozen
\* candidates, also when commands with other batch sizes or a kill interfere: no
\* paper is in two of them, and together they miss no paper but the last ones.
PrefixIsOnePartition ==
  \A x \in Prefixes, b \in Ordinals : task[x][b] # None =>
    /\ task[x][b].cands = candidates
    /\ task[x][b].scope = scope
    /\ \A a \in 1..b : task[x][a] = task[x][b]

\* The corpus has an entry for every candidate and for no other paper.
CorpusIsComplete ==
  corpus # None =>
    /\ candidates # None
    /\ \A p \in Papers : corpus.entry[p] # None <=> p \in Members(candidates)

\* In a screened corpus each candidate was decided by a canonical record of the
\* frozen candidates and scope, and its membership is the one that record gives
\* it unless its identity failed; no choice of partitions lets one slip through.
CorpusIsScreened ==
  corpus # None /\ corpus.mode = "semantic" =>
    \A p \in Members(candidates) :
      \E b \in Ordinals :
        /\ record[b] # None
        /\ record[b].cands = candidates
        /\ record[b].scope = scope
        /\ record[b].decided[p] # None
        /\ corpus.entry[p] \in {"membership_unresolved", Routed(record[b].decided[p])}

\* What the decision record and the screening contract say of a screened corpus:
\* the routing reason of a paper resolves to its one canonical decision.
OneDecisionEach ==
  corpus # None /\ corpus.mode = "semantic" =>
    \A p \in Members(candidates) :
      Cardinality({b \in Ordinals : record[b] # None /\ record[b].decided[p] # None}) = 1

\* All batches were cut with one --batch-size, under whatever prefixes.
OneSize ==
  \A x, y \in Prefixes, a, b \in Ordinals :
    task[x][a] # None /\ task[y][b] # None => task[x][a].size = task[y][b].size

\* The claim holds as long as the operator keeps to one batch size, however often
\* the candidates are partitioned and whatever is accepted after the freeze.
OneDecisionWithOneSize == OneSize => OneDecisionEach

\* What the rest of the investigation sees, if its candidates are those of s: the
\* phase, and the corpus, which is about the papers that have an entry.  Nothing is
\* analysed, ranked, reviewed or rendered.
Phase ==
  IF candidates = None THEN "inputs"
  ELSE IF \E b \in Ordinals : record[b] # None THEN "decisions" ELSE "candidates"

Entries ==
  IF corpus = None THEN None
  ELSE [p \in {q \in Papers : corpus.entry[q] # None} |-> corpus.entry[p]]

Gate(s) ==
  INSTANCE ReviewGate WITH
    Papers <- Members(s), Criteria <- {}, Weight <- [c \in {} |-> 0], Gates <- {}, Scores <- {},
    Places <- 1, TiesUp <- {}, ReviewRuns <- {}, Challenges <- {}, Renderers <- {}, MaxKills <- 0,
    inputs <- Phase, corpus <- Entries,
    read <- {}, critique <- [p \in Members(s) |-> None], state <- [p \in Members(s) |-> None],
    identified <- FALSE, exhausted <- FALSE, ranker <- None, ranking <- None,
    preparing <- None, looked <- {}, task <- [v \in {} |-> None],
    review <- None, at <- [x \in {} |-> 0],
    out <- [f \in {"report.md", "papers.csv", "human-review.json"} |-> None], kills <- 0

\* Whatever commands overlap or are killed, the frozen candidates get one corpus, of
\* one membership for each of them and nothing else, as ReviewGate has it in one step.
ImplementsGate ==
  [][\A s \in CandidateSets : candidates' = s => Gate(s)!Next \/ UNCHANGED Gate(s)!vars]_vars
=============================================================================
