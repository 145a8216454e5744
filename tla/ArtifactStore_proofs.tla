------------------------ MODULE ArtifactStore_proofs ------------------------
(***************************************************************************)
(* The guarantees of ArtifactStore, proved for any number of writers, any  *)
(* paths in any directories, and any contents.                                                 *)
(*                                                                         *)
(* IInv says what each step of a call relies on.  Its core is DiskSound: a *)
(* file that is visible is flushed and whole, and an entry that is durable *)
(* is visible.  The rest follows one call: what its temporary holds, which *)
(* answers are possible at which step, and why the answer still describes  *)
(* the disk although other calls, kills and losses of power intervene.     *)
(***************************************************************************)
EXTENDS ArtifactStore, TLAPS

\* The disk between any two steps.
DiskSound ==
  /\ \A p \in Paths : file[p] # Torn
  /\ \A p \in Paths : file[p] # Absent => p \in flushed
  /\ \A p \in entered : file[p] # Absent

\* A temporary is complete and fsynced before it is linked.
TempSound ==
  \A w \in Writers :
    /\ pc[w] = "sync" => temp[w] = req[w].data
    /\ pc[w] = "link" => temp[w] = req[w].data /\ w \in tempSynced

\* A call that found the target there can still read it.
TargetFound ==
  \A w \in Writers : pc[w] \in {"compare", "recheck"} => file[req[w].path] # Absent

\* Which answers are decided at which step.
AnswerStage ==
  \A w \in Writers :
    /\ pc[w] \in {"syncdir", "unlink", "return", "done"} <=> reply[w] # "none"
    /\ reply[w] = "created" => pc[w] \in {"syncdir", "unlink", "done"}
    /\ pc[w] = "syncdir" => reply[w] \in {"created", "identical"}

\* A decided answer describes the disk from then on.
AnswerHolds ==
  \A w \in Writers :
    /\ reply[w] \in {"created", "identical"} => file[req[w].path] = req[w].data
    /\ reply[w] = "collision" => file[req[w].path] \notin {Absent, req[w].data}

\* A creator that has passed SyncDirectory has a durable entry.
CreatorSynced ==
  \A w \in Writers :
    reply[w] = "created" /\ pc[w] \in {"unlink", "done"} => req[w].path \in entered

IInv ==
  /\ TypeOK
  /\ DiskSound
  /\ TempSound
  /\ TargetFound
  /\ AnswerStage
  /\ AnswerHolds
  /\ CreatorSynced
  /\ OneCreator

-----------------------------------------------------------------------------
\* Every variable of the store keeps its type: TypeOK of ArtifactStore.
THEOREM TypeCorrect == Spec => []TypeOK
<1> USE ContentAssumption, DirectoryAssumption
<1>1. Init => TypeOK
  BY DEF Init, TypeOK, Steps, Replies
<1>2. TypeOK /\ [Next]_vars => TypeOK'
  <2> SUFFICES ASSUME TypeOK, [Next]_vars PROVE TypeOK'
    OBVIOUS
  <2> USE DEF TypeOK, Steps, Replies, Goto, Answer, disk, directories, sibling, Install
  <2>1. ASSUME NEW w \in Writers, WriteBytes(w) PROVE TypeOK'
    <3>1. CASE Begin(w) BY <3>1 DEF Begin
    <3>2. CASE Check(w) BY <3>2 DEF Check
    <3>12. CASE MakeDirectory(w)
      <4>1. req[w].path \in Paths /\ Within[Dir[req[w].path]] \subseteq Dirs
        OBVIOUS
      <4> QED BY <3>12, <4>1 DEF MakeDirectory
    <3>3. CASE Compare(w) BY <3>3 DEF Compare
    <3>4. CASE Return(w) BY <3>4 DEF Return
    <3>5. CASE Stage(w) BY <3>5 DEF Stage
    <3>6. CASE WriteTemp(w) BY <3>6 DEF WriteTemp
    <3>7. CASE SyncTemp(w) BY <3>7 DEF SyncTemp
    <3>8. CASE Link(w)
      <4>1. req[w].path \in Paths
        OBVIOUS
      <4>2. file' \in [Paths -> Contents \union {Absent, Torn}]
        BY <3>8, <4>1 DEF Link
      <4>3. flushed' \subseteq Paths /\ entered' \subseteq Paths
        BY <3>8, <4>1 DEF Link
      <4>4. pc' \in [Writers -> Steps] /\ reply' \in [Writers -> Replies]
        BY <3>8 DEF Link
      <4> QED BY <3>8, <4>2, <4>3, <4>4 DEF Link
    <3>9. CASE Recheck(w) BY <3>9 DEF Recheck
    <3>10. CASE SyncDirectory(w) BY <3>10 DEF SyncDirectory, FilesIn, DirectoriesIn
    <3>11. CASE Unlink(w) BY <3>11 DEF Unlink
    <3> QED BY <2>1, <3>1, <3>2, <3>3, <3>4, <3>5, <3>6, <3>7, <3>8, <3>9, <3>10, <3>11, <3>12
            DEF WriteBytes
  <2>2. ASSUME NEW w \in Writers, Abort(w) PROVE TypeOK'
    BY <2>2 DEF Abort
  <2>3. CASE PowerLoss
    BY <2>3 DEF PowerLoss, Standing
  <2>4. CASE UNCHANGED vars
    BY <2>4 DEF vars
  <2> QED BY <2>1, <2>2, <2>3, <2>4 DEF Next
<1> QED BY <1>1, <1>2, PTL DEF Spec
-----------------------------------------------------------------------------
LEMMA InitIInv == Init => IInv
BY ContentAssumption, DirectoryAssumption DEF Init, IInv, TypeOK, Steps, Replies, DiskSound, TempSound,
   TargetFound, AnswerStage, AnswerHolds, CreatorSynced, OneCreator

LEMMA BeginKeeps == ASSUME IInv, TypeOK', NEW w \in Writers, Begin(w) PROVE IInv'
<1> USE ContentAssumption DEF IInv, Begin, Goto, Answer, disk, directories, sibling
<1>1. DiskSound'
  BY DEF DiskSound, TypeOK
<1>2. TempSound'
  BY DEF TempSound, TypeOK
<1>3. TargetFound'
  BY DEF TargetFound, TypeOK
<1>4. AnswerStage'
  BY DEF AnswerStage, TypeOK
<1>5. AnswerHolds'
  BY DEF AnswerHolds, TypeOK, AnswerStage, TargetFound
<1>6. CreatorSynced'
  BY DEF CreatorSynced, TypeOK, AnswerStage
<1>7. OneCreator'
  BY DEF OneCreator, TypeOK, AnswerStage
<1> QED BY <1>1, <1>2, <1>3, <1>4, <1>5, <1>6, <1>7

LEMMA MakeDirectoryKeeps == ASSUME IInv, TypeOK', NEW w \in Writers, MakeDirectory(w) PROVE IInv'
<1> USE ContentAssumption DEF IInv, MakeDirectory, Goto, Answer, disk, directories, sibling
<1>1. DiskSound'
  BY DEF DiskSound, TypeOK
<1>2. TempSound'
  BY DEF TempSound, TypeOK
<1>3. TargetFound'
  BY DEF TargetFound, TypeOK
<1>4. AnswerStage'
  BY DEF AnswerStage, TypeOK
<1>5. AnswerHolds'
  BY DEF AnswerHolds, TypeOK, AnswerStage, TargetFound
<1>6. CreatorSynced'
  BY DEF CreatorSynced, TypeOK, AnswerStage
<1>7. OneCreator'
  BY DEF OneCreator, TypeOK, AnswerStage
<1> QED BY <1>1, <1>2, <1>3, <1>4, <1>5, <1>6, <1>7

LEMMA CheckKeeps == ASSUME IInv, TypeOK', NEW w \in Writers, Check(w) PROVE IInv'
<1> USE ContentAssumption DEF IInv, Check, Goto, Answer, disk, directories, sibling
<1>1. DiskSound'
  BY DEF DiskSound, TypeOK
<1>2. TempSound'
  BY DEF TempSound, TypeOK
<1>3. TargetFound'
  BY DEF TargetFound, TypeOK
<1>4. AnswerStage'
  BY DEF AnswerStage, TypeOK
<1>5. AnswerHolds'
  BY DEF AnswerHolds, TypeOK, AnswerStage, TargetFound
<1>6. CreatorSynced'
  BY DEF CreatorSynced, TypeOK, AnswerStage
<1>7. OneCreator'
  BY DEF OneCreator, TypeOK, AnswerStage
<1> QED BY <1>1, <1>2, <1>3, <1>4, <1>5, <1>6, <1>7

LEMMA CompareKeeps == ASSUME IInv, TypeOK', NEW w \in Writers, Compare(w) PROVE IInv'
<1> USE ContentAssumption DEF IInv, Compare, Goto, Answer, disk, directories, sibling
<1>1. DiskSound'
  BY DEF DiskSound, TypeOK
<1>2. TempSound'
  BY DEF TempSound, TypeOK
<1>3. TargetFound'
  BY DEF TargetFound, TypeOK
<1>4. AnswerStage'
  BY DEF AnswerStage, TypeOK
<1>5. AnswerHolds'
  BY DEF AnswerHolds, TypeOK, AnswerStage, TargetFound
<1>6. CreatorSynced'
  BY DEF CreatorSynced, TypeOK, AnswerStage
<1>7. OneCreator'
  BY DEF OneCreator, TypeOK, AnswerStage
<1> QED BY <1>1, <1>2, <1>3, <1>4, <1>5, <1>6, <1>7

LEMMA ReturnKeeps == ASSUME IInv, TypeOK', NEW w \in Writers, Return(w) PROVE IInv'
<1> USE ContentAssumption DEF IInv, Return, Goto, Answer, disk, directories, sibling
<1>1. DiskSound'
  BY DEF DiskSound, TypeOK
<1>2. TempSound'
  BY DEF TempSound, TypeOK
<1>3. TargetFound'
  BY DEF TargetFound, TypeOK
<1>4. AnswerStage'
  BY DEF AnswerStage, TypeOK
<1>5. AnswerHolds'
  BY DEF AnswerHolds, TypeOK, AnswerStage, TargetFound
<1>6. CreatorSynced'
  BY DEF CreatorSynced, TypeOK, AnswerStage
<1>7. OneCreator'
  BY DEF OneCreator, TypeOK, AnswerStage
<1> QED BY <1>1, <1>2, <1>3, <1>4, <1>5, <1>6, <1>7

LEMMA StageKeeps == ASSUME IInv, TypeOK', NEW w \in Writers, Stage(w) PROVE IInv'
<1> USE ContentAssumption DEF IInv, Stage, Goto, Answer, disk, directories, sibling
<1>1. DiskSound'
  BY DEF DiskSound, TypeOK
<1>2. TempSound'
  BY DEF TempSound, TypeOK
<1>3. TargetFound'
  BY DEF TargetFound, TypeOK
<1>4. AnswerStage'
  BY DEF AnswerStage, TypeOK
<1>5. AnswerHolds'
  BY DEF AnswerHolds, TypeOK, AnswerStage, TargetFound
<1>6. CreatorSynced'
  BY DEF CreatorSynced, TypeOK, AnswerStage
<1>7. OneCreator'
  BY DEF OneCreator, TypeOK, AnswerStage
<1> QED BY <1>1, <1>2, <1>3, <1>4, <1>5, <1>6, <1>7

LEMMA WriteTempKeeps == ASSUME IInv, TypeOK', NEW w \in Writers, WriteTemp(w) PROVE IInv'
<1> USE ContentAssumption DEF IInv, WriteTemp, Goto, Answer, disk, directories, sibling
<1>1. DiskSound'
  BY DEF DiskSound, TypeOK
<1>2. TempSound'
  BY DEF TempSound, TypeOK
<1>3. TargetFound'
  BY DEF TargetFound, TypeOK
<1>4. AnswerStage'
  BY DEF AnswerStage, TypeOK
<1>5. AnswerHolds'
  BY DEF AnswerHolds, TypeOK, AnswerStage, TargetFound
<1>6. CreatorSynced'
  BY DEF CreatorSynced, TypeOK, AnswerStage
<1>7. OneCreator'
  BY DEF OneCreator, TypeOK, AnswerStage
<1> QED BY <1>1, <1>2, <1>3, <1>4, <1>5, <1>6, <1>7

LEMMA SyncTempKeeps == ASSUME IInv, TypeOK', NEW w \in Writers, SyncTemp(w) PROVE IInv'
<1> USE ContentAssumption DEF IInv, SyncTemp, Goto, Answer, disk, directories, sibling
<1>1. DiskSound'
  BY DEF DiskSound, TypeOK
<1>2. TempSound'
  BY DEF TempSound, TypeOK
<1>3. TargetFound'
  BY DEF TargetFound, TypeOK
<1>4. AnswerStage'
  BY DEF AnswerStage, TypeOK
<1>5. AnswerHolds'
  BY DEF AnswerHolds, TypeOK, AnswerStage, TargetFound
<1>6. CreatorSynced'
  BY DEF CreatorSynced, TypeOK, AnswerStage
<1>7. OneCreator'
  BY DEF OneCreator, TypeOK, AnswerStage
<1> QED BY <1>1, <1>2, <1>3, <1>4, <1>5, <1>6, <1>7

LEMMA RecheckKeeps == ASSUME IInv, TypeOK', NEW w \in Writers, Recheck(w) PROVE IInv'
<1> USE ContentAssumption DEF IInv, Recheck, Goto, Answer, disk, directories, sibling
<1>1. DiskSound'
  BY DEF DiskSound, TypeOK
<1>2. TempSound'
  BY DEF TempSound, TypeOK
<1>3. TargetFound'
  BY DEF TargetFound, TypeOK
<1>4. AnswerStage'
  BY DEF AnswerStage, TypeOK
<1>5. AnswerHolds'
  BY DEF AnswerHolds, TypeOK, AnswerStage, TargetFound
<1>6. CreatorSynced'
  BY DEF CreatorSynced, TypeOK, AnswerStage
<1>7. OneCreator'
  BY DEF OneCreator, TypeOK, AnswerStage
<1> QED BY <1>1, <1>2, <1>3, <1>4, <1>5, <1>6, <1>7

LEMMA SyncDirectoryKeeps == ASSUME IInv, TypeOK', NEW w \in Writers, SyncDirectory(w) PROVE IInv'
<1> USE ContentAssumption DEF IInv, SyncDirectory, Goto, Answer, disk, directories, sibling
<1>1. DiskSound'
  BY DEF DiskSound, TypeOK, FilesIn
<1>2. TempSound'
  BY DEF TempSound, TypeOK
<1>3. TargetFound'
  BY DEF TargetFound, TypeOK
<1>4. AnswerStage'
  BY DEF AnswerStage, TypeOK
<1>5. AnswerHolds'
  BY DEF AnswerHolds, TypeOK, AnswerStage, TargetFound
<1>6. CreatorSynced'
  <2>1. req[w].path \in Paths /\ file[req[w].path] # Absent
    BY DEF TypeOK, AnswerStage, AnswerHolds
  <2>2. req[w].path \in entered' /\ entered \subseteq entered'
    BY <2>1 DEF FilesIn
  <2> QED BY <2>2 DEF CreatorSynced, TypeOK, AnswerStage
<1>7. OneCreator'
  BY DEF OneCreator, TypeOK, AnswerStage
<1> QED BY <1>1, <1>2, <1>3, <1>4, <1>5, <1>6, <1>7

LEMMA UnlinkKeeps == ASSUME IInv, TypeOK', NEW w \in Writers, Unlink(w) PROVE IInv'
<1> USE ContentAssumption DEF IInv, Unlink, Goto, Answer, disk, directories, sibling
<1>1. DiskSound'
  BY DEF DiskSound, TypeOK
<1>2. TempSound'
  BY DEF TempSound, TypeOK
<1>3. TargetFound'
  BY DEF TargetFound, TypeOK
<1>4. AnswerStage'
  BY DEF AnswerStage, TypeOK
<1>5. AnswerHolds'
  BY DEF AnswerHolds, TypeOK, AnswerStage, TargetFound
<1>6. CreatorSynced'
  BY DEF CreatorSynced, TypeOK, AnswerStage
<1>7. OneCreator'
  BY DEF OneCreator, TypeOK, AnswerStage
<1> QED BY <1>1, <1>2, <1>3, <1>4, <1>5, <1>6, <1>7

LEMMA AbortKeeps == ASSUME IInv, TypeOK', NEW w \in Writers, Abort(w) PROVE IInv'
<1> USE ContentAssumption DEF IInv, Abort, Goto, Answer, disk, directories, sibling
<1>1. DiskSound'
  BY DEF DiskSound, TypeOK
<1>2. TempSound'
  BY DEF TempSound, TypeOK
<1>3. TargetFound'
  BY DEF TargetFound, TypeOK
<1>4. AnswerStage'
  BY DEF AnswerStage, TypeOK
<1>5. AnswerHolds'
  BY DEF AnswerHolds, TypeOK, AnswerStage, TargetFound
<1>6. CreatorSynced'
  BY DEF CreatorSynced, TypeOK, AnswerStage
<1>7. OneCreator'
  BY DEF OneCreator, TypeOK, AnswerStage
<1> QED BY <1>1, <1>2, <1>3, <1>4, <1>5, <1>6, <1>7

\* Link is the only step of a call that changes what readers see, and it
\* does so only where nothing was to be seen.
LEMMA LinkKeeps == ASSUME IInv, TypeOK', NEW w \in Writers, Link(w) PROVE IInv'
<1> USE ContentAssumption DEF IInv
<1> DEFINE p == req[w].path
<1>0. p \in Paths /\ req[w].data \in Contents
  BY DEF TypeOK
<1>1. CASE file[p] = Absent
  <2>1. /\ file' = [file EXCEPT ![p] = req[w].data]
        /\ flushed' = flushed \union {p}
        /\ entered' = entered \ {p}
        /\ pc' = [pc EXCEPT ![w] = "syncdir"]
        /\ reply' = [reply EXCEPT ![w] = "created"]
        /\ UNCHANGED <<req, temp, tempSynced>>
    BY <1>1 DEF Link, Install, Goto, Answer, disk, sibling, TempSound
  <2>2. pc[w] = "link" /\ reply[w] = "none"
    BY DEF Link, AnswerStage
  <2>3. \A v \in Writers : req[v].path = p => reply[v] = "none"
    BY <1>1 DEF AnswerHolds, TypeOK, Replies
  <2>4. DiskSound'
    BY <1>0, <1>1, <2>1 DEF DiskSound, TypeOK
  <2>5. TempSound' /\ TargetFound' /\ AnswerStage'
    BY <1>0, <1>1, <2>1, <2>2 DEF TempSound, TargetFound, AnswerStage, TypeOK
  <2>6. AnswerHolds'
    BY <1>0, <1>1, <2>1, <2>2 DEF AnswerHolds, TypeOK
  <2>7. CreatorSynced'
    BY <1>0, <1>1, <2>1, <2>2, <2>3 DEF CreatorSynced, TypeOK
  <2>8. OneCreator'
    BY <1>0, <1>1, <2>1, <2>2, <2>3 DEF OneCreator, TypeOK
  <2> QED BY <2>4, <2>5, <2>6, <2>7, <2>8
<1>2. CASE file[p] # Absent
  <2>1. /\ pc' = [pc EXCEPT ![w] = "recheck"]
        /\ UNCHANGED <<file, flushed, entered, req, temp, tempSynced, reply>>
    BY <1>2 DEF Link, Goto, disk, sibling
  <2>2. pc[w] = "link" /\ reply[w] = "none"
    BY DEF Link, AnswerStage
  <2>3. DiskSound' /\ TempSound' /\ TargetFound' /\ AnswerStage'
    BY <1>2, <2>1, <2>2 DEF DiskSound, TempSound, TargetFound, AnswerStage, TypeOK
  <2>4. AnswerHolds' /\ CreatorSynced' /\ OneCreator'
    BY <2>1, <2>2 DEF AnswerHolds, CreatorSynced, OneCreator, TypeOK
  <2> QED BY <2>3, <2>4
<1> QED BY <1>1, <1>2

\* After a loss of power nobody is inside a call, and what has survived was
\* flushed before it was visible.
LEMMA PowerLossKeeps == ASSUME IInv, TypeOK', PowerLoss PROVE IInv'
<1> USE ContentAssumption DEF IInv
<1>1. PICK kept \in SUBSET {p \in Paths : file[p] # Absent} :
        /\ file' = [p \in Paths |-> IF p \in kept THEN file[p] ELSE Absent]
        /\ flushed' = kept
        /\ entered' = kept
    BY DEF PowerLoss, DiskSound
<1>2. /\ pc' = [w \in Writers |-> "idle"]
      /\ reply' = [w \in Writers |-> "none"]
  BY DEF PowerLoss
<1>3. DiskSound'
  BY <1>1 DEF DiskSound
<1>4. TempSound' /\ TargetFound' /\ AnswerStage'
  BY <1>2 DEF TempSound, TargetFound, AnswerStage
<1>5. AnswerHolds' /\ CreatorSynced' /\ OneCreator'
  BY <1>2 DEF AnswerHolds, CreatorSynced, OneCreator
<1> QED BY <1>3, <1>4, <1>5

LEMMA StutterKeeps == ASSUME IInv, UNCHANGED vars PROVE IInv'
BY DEF vars, IInv, TypeOK, DiskSound, TempSound, TargetFound, AnswerStage, AnswerHolds,
   CreatorSynced, OneCreator

LEMMA Inductive == Spec => []IInv
<1>1. IInv /\ TypeOK' /\ [Next]_vars => IInv'
  <2> SUFFICES ASSUME IInv, TypeOK', [Next]_vars PROVE IInv'
    OBVIOUS
  <2>1. ASSUME NEW w \in Writers, WriteBytes(w) PROVE IInv'
    BY <2>1, BeginKeeps, MakeDirectoryKeeps, CheckKeeps, CompareKeeps, ReturnKeeps, StageKeeps, WriteTempKeeps,
       SyncTempKeeps, LinkKeeps, RecheckKeeps, SyncDirectoryKeeps, UnlinkKeeps DEF WriteBytes
  <2> QED BY <2>1, AbortKeeps, PowerLossKeeps, StutterKeeps DEF Next
<1> QED BY InitIInv, TypeCorrect, <1>1, PTL DEF Spec

-----------------------------------------------------------------------------
\* Readers of any path see whole artifacts only: NeverTorn of ArtifactStore,
\* for the order write, fsync, link of write_bytes.
THEOREM WholeArtifacts == Spec => []NeverTorn
<1>1. IInv => NeverTorn
  BY DEF IInv, DiskSound, NeverTorn
<1> QED BY Inductive, <1>1, PTL

\* A finished call's answer is true of the disk: AnswerIsTrue of ArtifactStore,
\* for both comparisons of write_bytes with the bytes that are there.
THEOREM TruthfulAnswers == Spec => []AnswerIsTrue
<1>1. IInv => AnswerIsTrue
  BY DEF IInv, AnswerHolds, AnswerIsTrue
<1> QED BY Inductive, <1>1, PTL

\* At most one racing call creates a path: OneCreator of ArtifactStore, for
\* os.link as the create-if-absent step of write_bytes.
THEOREM SingleCreation == Spec => []OneCreator
<1>1. IInv => OneCreator
  BY DEF IInv
<1> QED BY Inductive, <1>1, PTL

\* What one step can do to a visible artifact.
LEMMA KeptUnlessUnsynced ==
  ASSUME IInv, [Next]_vars, NEW p \in Paths, file[p] # Absent
  PROVE  \/ file'[p] = file[p]
         \/ file'[p] = Absent /\ (p \notin entered \/ LostWithDirectory(p))
<1>1. ASSUME NEW w \in Writers, Link(w) PROVE file'[p] = file[p]
  BY <1>1 DEF Link, Install, disk, IInv, TypeOK
<1>2. CASE PowerLoss
  <2>1. PICK lost \in SUBSET (made \ rooted) :
        \E kept \in SUBSET {q \in Paths : file[q] # Absent /\ Dir[q] \in Standing(lost)} :
          /\ {q \in entered : Dir[q] \in Standing(lost)} \subseteq kept
          /\ made' = Standing(lost)
          /\ file' = [q \in Paths |-> IF q \in kept THEN file[q] ELSE Absent]
    BY <1>2 DEF PowerLoss, IInv, DiskSound
  <2>2. CASE Dir[p] \in Standing(lost)
    BY <2>1, <2>2
  <2>3. CASE Dir[p] \notin Standing(lost) /\ Dir[p] \in firmBar
    <3>1. Within[Dir[p]] \subseteq rooted /\ Dir[p] \in Within[Dir[p]]
      BY <2>3, DirectoryAssumption DEF firmBar
    <3>2. Dir[p] \in made /\ Within[Dir[p]] \intersect lost = {}
      BY <2>1, <3>1 DEF IInv, TypeOK
    <3> QED BY <2>3, <3>2 DEF Standing
  <2>4. CASE Dir[p] \notin Standing(lost) /\ Dir[p] \notin firmBar
    BY <2>1, <2>4 DEF LostWithDirectory
  <2> QED BY <2>2, <2>3, <2>4
<1>3. ASSUME NEW w \in Writers, WriteBytes(w) \/ Abort(w), ~Link(w) PROVE UNCHANGED file
  BY <1>3 DEF WriteBytes, Begin, MakeDirectory, Check, Compare, Return, Stage, WriteTemp,
     SyncTemp, Recheck, SyncDirectory, Unlink, Abort, disk
<1> QED BY <1>1, <1>2, <1>3 DEF Next, vars

\* No step changes a visible artifact, and none but a loss of power removes one,
\* whose entry, or that of a directory above it, was never fsynced:
\* NeverOverwritten of ArtifactStore, for os.link and the two fsync calls of
\* write_bytes.
THEOREM Immutability == Spec => NeverOverwritten
<1> DEFINE Kept ==
      \A p \in Paths :
        file[p] # Absent =>
          \/ file'[p] = file[p]
          \/ file'[p] = Absent /\ (p \notin entered \/ LostWithDirectory(p))
<1>1. IInv /\ [Next]_vars => [Kept]_vars
  BY KeptUnlessUnsynced
<1> QED BY Inductive, <1>1, PTL DEF Spec, NeverOverwritten

\* What created=True promises: CreatedIsDurable of ArtifactStore, for the fsync
\* of the target's directory after the link of write_bytes, with the directory
\* that mkdir has made as the one exception.
THEOREM DurableCreation == Spec => CreatedIsDurable
<1> DEFINE Durable ==
      \A w \in Writers :
        pc[w] = "done" /\ reply[w] = "created" =>
          file'[req[w].path] = file[req[w].path] \/ LostWithDirectory(req[w].path)
<1>1. ASSUME IInv, [Next]_vars PROVE Durable
  <2> SUFFICES ASSUME NEW w \in Writers, pc[w] = "done", reply[w] = "created"
               PROVE  file'[req[w].path] = file[req[w].path] \/ LostWithDirectory(req[w].path)
    OBVIOUS
  <2>1. req[w].path \in Paths /\ req[w].path \in entered
    BY <1>1 DEF IInv, TypeOK, CreatorSynced
  <2>2. file[req[w].path] # Absent
    BY <1>1, <2>1 DEF IInv, DiskSound
  <2> QED BY <1>1, <2>1, <2>2, KeptUnlessUnsynced
<1>2. IInv /\ [Next]_vars => [Durable]_vars
  BY <1>1
<1> QED BY Inductive, <1>2, PTL DEF Spec, CreatedIsDurable

-----------------------------------------------------------------------------
(***************************************************************************)
(* The refinement: each step of a call is a step of the write-once         *)
(* registers or leaves them as they are.                                   *)
(***************************************************************************)

\* What a call that is not at "idle" or "done" is to the registers.
InProgress(w) ==
  IF reply[w] = "none"
  THEN [st |-> "pending", path |-> req[w].path, data |-> req[w].data]
  ELSE [st |-> "decided", path |-> req[w].path, data |-> req[w].data, answer |-> reply[w]]

Finished(w) ==
  [st |-> "done", path |-> req[w].path, data |-> req[w].data, answer |-> reply[w]]

LEMMA OpBarValue ==
  /\ opBar = [w \in Writers |-> opBar[w]]
  /\ \A w \in Writers :
       /\ pc[w] = "idle" => opBar[w] = [st |-> "idle"]
       /\ pc[w] = "done" => opBar[w] = Finished(w)
       /\ pc[w] \notin {"idle", "done"} => opBar[w] = InProgress(w)
BY DEF opBar, InProgress, Finished

LEMMA OpBarValueNext ==
  /\ opBar' = [w \in Writers |-> opBar'[w]]
  /\ \A w \in Writers :
       /\ pc'[w] = "idle" => opBar'[w] = [st |-> "idle"]
       /\ pc'[w] = "done" => opBar'[w] = Finished(w)'
       /\ pc'[w] \notin {"idle", "done"} => opBar'[w] = InProgress(w)'
BY DEF opBar, InProgress, Finished

\* A step of w leaves what the registers see of every other caller alone.
LEMMA OthersUnchanged ==
  ASSUME NEW w \in Writers,
         \A v \in Writers \ {w} : pc'[v] = pc[v] /\ req'[v] = req[v] /\ reply'[v] = reply[v]
  PROVE  opBar' = [opBar EXCEPT ![w] = opBar'[w]]
<1>1. \A v \in Writers \ {w} : opBar'[v] = opBar[v]
  BY DEF opBar
<1>2. DOMAIN opBar = Writers
  BY DEF opBar
<1> QED BY <1>1, <1>2, OpBarValue, OpBarValueNext

\* The steps inside a call that decide nothing are invisible to the registers.
LEMMA InvisibleStep ==
  ASSUME IInv, NEW w \in Writers,
         \/ MakeDirectory(w) \/ Check(w) \/ Stage(w) \/ WriteTemp(w) \/ SyncTemp(w)
         \/ (Link(w) /\ file[req[w].path] # Absent)
  PROVE  UNCHANGED <<file, entered, firmBar, opBar>>
<1> USE DEF MakeDirectory, Check, Stage, WriteTemp, SyncTemp, Link, Goto, disk, sibling
<1>1. UNCHANGED <<file, entered, rooted, req, reply>>
  BY DEF directories
<1>2. pc' = [pc EXCEPT ![w] = pc'[w]] /\ {pc[w], pc'[w]} \cap {"idle", "done"} = {}
  BY DEF IInv, TypeOK
<1>3. \A v \in Writers \ {w} : pc'[v] = pc[v]
  BY <1>2 DEF IInv, TypeOK
<1>4. \A v \in Writers : opBar'[v] = opBar[v]
  BY <1>1, <1>2, <1>3 DEF opBar
<1>5. UNCHANGED firmBar
  BY <1>1 DEF firmBar
<1> QED BY <1>1, <1>4, <1>5, OpBarValue, OpBarValueNext

LEMMA RefineBegin ==
  ASSUME IInv, IInv', NEW w \in Writers, Begin(w) PROVE Promise!Invoke(w)
<1> USE DEF Begin, Goto, Answer, disk, directories, sibling
<1>1. PICK p \in Paths, d \in Contents : req' = [req EXCEPT ![w] = [path |-> p, data |-> d]]
  OBVIOUS
<1>2. opBar[w].st \in {"idle", "done"}
  BY OpBarValue DEF Finished
<1>3. pc'[w] = "mkdir" /\ reply'[w] = "none" /\ req'[w] = [path |-> p, data |-> d]
  BY <1>1 DEF IInv, TypeOK
<1>4. opBar'[w] = [st |-> "pending", path |-> p, data |-> d]
  BY <1>3, OpBarValueNext DEF InProgress
<1>5. opBar' = [opBar EXCEPT ![w] = [st |-> "pending", path |-> p, data |-> d]]
  BY <1>1, <1>4, OthersUnchanged DEF IInv, TypeOK
<1>6. UNCHANGED firmBar
  BY DEF firmBar
<1> QED BY <1>2, <1>5, <1>6 DEF Promise!Invoke, Promise!Pending

\* Link, Compare and Recheck decide the answer: the write takes effect.
LEMMA RefineDecision ==
  ASSUME IInv, IInv', NEW w \in Writers,
         \/ Compare(w) \/ Recheck(w) \/ (Link(w) /\ file[req[w].path] = Absent)
  PROVE  Promise!Create(w) \/ Promise!Match(w) \/ Promise!Reject(w)
<1> USE DEF Compare, Recheck, Link, Install, Goto, Answer, disk, directories, sibling
<1>1. pc[w] \in {"compare", "recheck", "link"} /\ reply[w] = "none"
  BY DEF IInv, AnswerStage
<1>2. opBar[w] = [st |-> "pending", path |-> req[w].path, data |-> req[w].data]
  BY <1>1, OpBarValue DEF InProgress
<1>3. /\ pc'[w] \notin {"idle", "done"}
      /\ reply'[w] \in {"created", "identical", "collision"}
      /\ req' = req
  BY DEF IInv, TypeOK
<1>4. opBar'[w] = [st |-> "decided", path |-> req[w].path, data |-> req[w].data,
                   answer |-> reply'[w]]
  BY <1>3, OpBarValueNext DEF InProgress
<1>5. opBar' = [opBar EXCEPT ![w] = Promise!Decided(opBar[w], reply'[w])]
  BY <1>2, <1>3, <1>4, OthersUnchanged DEF IInv, TypeOK, Promise!Decided
<1>8. UNCHANGED firmBar
  BY DEF firmBar
<1>6. CASE Link(w) /\ file[req[w].path] = Absent
  <2>1. reply'[w] = "created" /\ file' = [file EXCEPT ![req[w].path] = req[w].data]
    BY <1>6 DEF IInv, TypeOK, TempSound
  <2>2. entered' = entered
    BY <1>6 DEF IInv, DiskSound
  <2> QED BY <1>2, <1>5, <1>6, <1>8, <2>1, <2>2 DEF Promise!Create
<1>7. CASE Compare(w) \/ Recheck(w)
  <2>1. UNCHANGED <<file, entered>> /\ file[req[w].path] # Absent
    BY <1>7 DEF IInv, TargetFound
  <2>2. CASE file[req[w].path] = req[w].data
    <3>1. reply'[w] = "identical"
      BY <1>7, <2>2 DEF IInv, TypeOK
    <3> QED BY <1>2, <1>5, <1>8, <2>1, <2>2, <3>1 DEF Promise!Match
  <2>3. CASE file[req[w].path] # req[w].data
    <3>1. reply'[w] = "collision"
      BY <1>7, <2>3 DEF IInv, TypeOK
    <3> QED BY <1>2, <1>5, <1>8, <2>1, <2>3, <3>1 DEF Promise!Reject
  <2> QED BY <2>2, <2>3
<1> QED BY <1>6, <1>7

LEMMA RefineSettle ==
  ASSUME IInv, IInv', NEW w \in Writers, SyncDirectory(w) PROVE Promise!Settle(w)
<1> USE DEF SyncDirectory, Goto, sibling
<1>1. reply[w] \in {"created", "identical"}
  BY DEF IInv, AnswerStage
<1>2. opBar[w].st = "decided" /\ opBar[w].path = req[w].path /\ opBar[w].answer = reply[w]
  BY <1>1, OpBarValue DEF InProgress
<1>3. opBar' = opBar
  <2>1. \A v \in Writers : opBar'[v] = opBar[v]
    BY <1>1 DEF opBar, IInv, TypeOK
  <2> QED BY <2>1, OpBarValue, OpBarValueNext
<1>4. entered' = entered \union {p \in Paths : Dir[p] = Dir[opBar[w].path] /\ file[p] # Absent}
  BY <1>2 DEF FilesIn
<1>5. firmBar' \in SUBSET Dirs /\ firmBar \subseteq firmBar'
  BY DEF firmBar
<1> QED BY <1>1, <1>2, <1>3, <1>4, <1>5 DEF Promise!Settle

LEMMA RefineReturn ==
  ASSUME IInv, IInv', NEW w \in Writers, Return(w) \/ Unlink(w) PROVE Promise!Return(w)
<1> USE DEF Return, Unlink, Goto, disk, directories, sibling
<1>1. pc[w] \in {"return", "unlink"} /\ reply[w] # "none"
  BY DEF IInv, AnswerStage
<1>2. opBar[w] = [st |-> "decided", path |-> req[w].path, data |-> req[w].data,
                  answer |-> reply[w]]
  BY <1>1, OpBarValue DEF InProgress
<1>3. pc'[w] = "done" /\ req' = req /\ reply' = reply
  BY DEF IInv, TypeOK
<1>4. opBar' = [opBar EXCEPT ![w] = Promise!Done(opBar[w])]
  BY <1>2, <1>3, OpBarValueNext, OthersUnchanged DEF Finished, Promise!Done, IInv, TypeOK
<1>5. reply[w] = "created" => req[w].path \in entered
  BY <1>1 DEF IInv, AnswerStage, CreatorSynced
<1>6. UNCHANGED firmBar
  BY DEF firmBar
<1> QED BY <1>2, <1>4, <1>5, <1>6 DEF Promise!Return

LEMMA RefineAbort ==
  ASSUME IInv, IInv', NEW w \in Writers, Abort(w) PROVE Promise!Abandon(w)
<1> USE DEF Abort, Goto, Answer, disk, directories
<1>1. opBar[w].st \in {"pending", "decided"}
  BY OpBarValue DEF InProgress
<1>2. pc'[w] = "idle"
  BY DEF IInv, TypeOK
<1>3. opBar' = [opBar EXCEPT ![w] = Promise!Idle]
  BY <1>2, OpBarValueNext, OthersUnchanged DEF Promise!Idle, IInv, TypeOK
<1>4. UNCHANGED firmBar
  BY DEF firmBar
<1> QED BY <1>1, <1>3, <1>4 DEF Promise!Abandon

\* The directories that are gone are the ones that no longer stand.
LEMMA RefinePowerLoss ==
  ASSUME IInv, IInv', PowerLoss PROVE Promise!LosePower
<1>0. PICK lost \in SUBSET (made \ rooted) :
        \E kept \in SUBSET {p \in Paths : file[p] # Absent /\ Dir[p] \in Standing(lost)} :
          /\ {p \in entered : Dir[p] \in Standing(lost)} \subseteq kept
          /\ rooted' = Standing(lost)
          /\ file' = [p \in Paths |-> IF p \in kept THEN file[p] ELSE Absent]
          /\ entered' = kept
  BY DEF PowerLoss, IInv, DiskSound
<1>1. PICK kept \in SUBSET {p \in Paths : file[p] # Absent /\ Dir[p] \in Standing(lost)} :
        /\ {p \in entered : Dir[p] \in Standing(lost)} \subseteq kept
        /\ rooted' = Standing(lost)
        /\ file' = [p \in Paths |-> IF p \in kept THEN file[p] ELSE Absent]
        /\ entered' = kept
  BY <1>0
<1> DEFINE gone == Dirs \ Standing(lost)
<1>2. firmBar \subseteq Standing(lost)
  <2> SUFFICES ASSUME NEW d \in firmBar PROVE d \in Standing(lost)
    OBVIOUS
  <2>1. d \in Dirs /\ d \in Within[d] /\ Within[d] \subseteq rooted
    BY DirectoryAssumption DEF firmBar
  <2>2. d \in made /\ Within[d] \intersect lost = {}
    BY <1>1, <2>1 DEF IInv, TypeOK
  <2> QED BY <2>2 DEF Standing
<1>3. Standing(lost) \subseteq Dirs
  BY DEF Standing, IInv, TypeOK
<1>4. gone \in SUBSET (Dirs \ firmBar)
  BY <1>2
<1>5. /\ \A p \in Paths : Dir[p] \notin gone <=> Dir[p] \in Standing(lost)
      /\ \A p \in entered : Dir[p] \notin gone <=> Dir[p] \in Standing(lost)
  BY <1>3, DirectoryAssumption DEF IInv, TypeOK
<1>6. kept \in SUBSET {p \in Paths : file[p] # Absent /\ Dir[p] \notin gone}
  BY <1>5
<1>7. {p \in entered : Dir[p] \notin gone} \subseteq kept
  BY <1>1, <1>5
<1>8. firmBar \subseteq firmBar'
  <2> SUFFICES ASSUME NEW d \in firmBar PROVE Within[d] \subseteq Standing(lost)
    BY <1>1 DEF firmBar
  <2> SUFFICES ASSUME NEW e \in Within[d] PROVE e \in firmBar
    BY <1>2
  <2>1. e \in Dirs /\ Within[e] \subseteq Within[d]
    BY DirectoryAssumption DEF firmBar
  <2> QED BY <2>1 DEF firmBar
<1>9. firmBar' \in SUBSET (Dirs \ gone)
  <2> SUFFICES ASSUME NEW d \in firmBar' PROVE d \in Dirs /\ d \in Standing(lost)
    OBVIOUS
  <2> QED BY <1>1, DirectoryAssumption DEF firmBar
<1>10. opBar' = [w \in Writers |-> Promise!Idle]
  BY OpBarValueNext DEF PowerLoss, Promise!Idle
<1> HIDE DEF gone
<1> QED BY <1>1, <1>4, <1>6, <1>7, <1>8, <1>9, <1>10 DEF Promise!LosePower

\* write_bytes, with any number of concurrent callers, kills and losses of
\* power, behaves as a set of write-once registers.
THEOREM Refinement == Spec => ImplementsWriteOnce
<1>1. Init => Promise!WInit
  BY DEF Init, Promise!WInit, opBar, firmBar, Promise!Idle
<1>2. ASSUME IInv, IInv', [Next]_vars PROVE [Promise!WNext]_(Promise!wvars)
  <2> USE <1>2
  <2>1. ASSUME NEW w \in Writers, WriteBytes(w) PROVE [Promise!WNext]_(Promise!wvars)
    <3>1. CASE Begin(w)
      BY <3>1, RefineBegin DEF Promise!WNext
    <3>2. CASE \/ MakeDirectory(w) \/ Check(w) \/ Stage(w) \/ WriteTemp(w) \/ SyncTemp(w)
               \/ (Link(w) /\ file[req[w].path] # Absent)
      BY <3>2, InvisibleStep DEF Promise!wvars
    <3>3. CASE Compare(w) \/ Recheck(w) \/ (Link(w) /\ file[req[w].path] = Absent)
      BY <3>3, RefineDecision DEF Promise!WNext
    <3>4. CASE SyncDirectory(w)
      BY <3>4, RefineSettle DEF Promise!WNext
    <3>5. CASE Return(w) \/ Unlink(w)
      BY <3>5, RefineReturn DEF Promise!WNext
    <3> QED BY <2>1, <3>1, <3>2, <3>3, <3>4, <3>5 DEF WriteBytes
  <2>2. ASSUME NEW w \in Writers, Abort(w) PROVE [Promise!WNext]_(Promise!wvars)
    BY <2>2, RefineAbort DEF Promise!WNext
  <2>3. CASE PowerLoss
    BY <2>3, RefinePowerLoss DEF Promise!WNext
  <2>4. CASE UNCHANGED vars
    BY <2>4 DEF vars, Promise!wvars, opBar, firmBar
  <2> QED BY <2>1, <2>2, <2>3, <2>4 DEF Next
<1> QED BY <1>1, <1>2, Inductive, PTL DEF Spec, ImplementsWriteOnce, Promise!WSpec
=============================================================================
