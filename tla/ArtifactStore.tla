--------------------------- MODULE ArtifactStore ---------------------------
(***************************************************************************)
(* ArtifactStore.write_bytes of storage/artifacts.py: how an immutable     *)
(* artifact is created by several processes at once, with processes that   *)
(* are killed at any step and a machine that may lose power.               *)
(*                                                                         *)
(* The store takes no lock.  Each call runs the steps                      *)
(*   mkdir -> exists? -> mkstemp -> write -> fsync -> link -> fsync(dir)   *)
(*         -> unlink                                                       *)
(* and the one atomic step is os.link, which creates the target or fails.  *)
(*                                                                         *)
(* An entry of a directory is durable once that directory is fsynced.  The *)
(* call fsyncs the directory of its target only: a directory that mkdir    *)
(* has made has no durable entry of its own until a later call fsyncs the  *)
(* one above it, and a loss of power can take it with all it holds.        *)
(***************************************************************************)
EXTENDS Naturals

CONSTANTS
  Writers,   \* processes that call write_bytes
  Paths,     \* target paths
  Contents,  \* canonical bytes a caller may hand over
  Dirs,      \* the directories of the data root
  Dir,       \* Dir[p] : the directory of p
  Within,    \* Within[d] : d and the directories above it
  Absent,    \* no file
  Torn       \* bytes that are no caller's: a prefix, or a block never flushed

ASSUME ContentAssumption == Absent \notin Contents /\ Torn \notin Contents /\ Absent # Torn

ASSUME DirectoryAssumption ==
  /\ Dir \in [Paths -> Dirs]
  /\ Within \in [Dirs -> SUBSET Dirs]
  /\ \A d \in Dirs : d \in Within[d] /\ \A e \in Within[d] : Within[e] \subseteq Within[d]

VARIABLES
  file,      \* file[p] : what a reader of p sees
  flushed,   \* the paths whose data blocks are on the disk
  entered,   \* the paths whose directory entry is on the disk
  made,      \* the directories that exist
  rooted,    \* the directories whose entry in the one above is on the disk
  pc,        \* pc[w] : the next step of w's call
  req,       \* req[w] : the arguments of w's call
  temp,      \* temp[w] : contents of w's temporary sibling, or Absent
  tempSynced,\* the writers whose temporary sibling has been fsynced
  reply      \* reply[w] : what w's call has decided to answer

vars == <<file, flushed, entered, made, rooted, pc, req, temp, tempSynced, reply>>

Steps == {"idle", "mkdir", "check", "compare", "stage", "write", "sync", "link",
          "recheck", "syncdir", "unlink", "return", "done"}

Replies == {"none", "created", "identical", "collision"}

TypeOK ==
  /\ file \in [Paths -> Contents \union {Absent, Torn}]
  /\ flushed \subseteq Paths
  /\ entered \subseteq Paths
  /\ made \subseteq Dirs
  /\ rooted \subseteq made
  /\ pc \in [Writers -> Steps]
  /\ req \in [Writers -> [path : Paths, data : Contents]]
  /\ temp \in [Writers -> Contents \union {Absent, Torn}]
  /\ tempSynced \subseteq Writers
  /\ reply \in [Writers -> Replies]

Init ==
  /\ file = [p \in Paths |-> Absent]
  /\ flushed = {}
  /\ entered = {}
  /\ made \in {D \in SUBSET Dirs : \A d \in D : Within[d] \subseteq D}
  /\ rooted = made
  /\ pc = [w \in Writers |-> "idle"]
  /\ req \in [Writers -> [path : Paths, data : Contents]]
  /\ temp = [w \in Writers |-> Absent]
  /\ tempSynced = {}
  /\ reply = [w \in Writers |-> "none"]

Goto(w, step) == pc' = [pc EXCEPT ![w] = step]

Answer(w, a) == reply' = [reply EXCEPT ![w] = a]

directories == <<made, rooted>>

disk == <<file, flushed, entered, directories>>

sibling == <<temp, tempSynced>>

-----------------------------------------------------------------------------
(***************************************************************************)
(* One call of write_bytes                                                 *)
(***************************************************************************)

Begin(w) ==
  /\ pc[w] \in {"idle", "done"}
  /\ \E p \in Paths, d \in Contents : req' = [req EXCEPT ![w] = [path |-> p, data |-> d]]
  /\ Goto(w, "mkdir")
  /\ Answer(w, "none")
  /\ UNCHANGED <<disk, sibling>>

\* target.parent.mkdir(parents=True, exist_ok=True), without an fsync.
MakeDirectory(w) ==
  /\ pc[w] = "mkdir"
  /\ made' = made \union Within[Dir[req[w].path]]
  /\ Goto(w, "check")
  /\ UNCHANGED <<file, flushed, entered, rooted, req, sibling, reply>>

\* target.exists()
Check(w) ==
  /\ pc[w] = "check"
  /\ Goto(w, IF file[req[w].path] = Absent THEN "stage" ELSE "compare")
  /\ UNCHANGED <<disk, req, sibling, reply>>

\* The target exists: read it and decide at once, without an fsync.
Compare(w) ==
  /\ pc[w] = "compare"
  /\ Answer(w, IF file[req[w].path] = req[w].data THEN "identical" ELSE "collision")
  /\ Goto(w, "return")
  /\ UNCHANGED <<disk, req, sibling>>

Return(w) ==
  /\ pc[w] = "return"
  /\ Goto(w, "done")
  /\ UNCHANGED <<disk, req, sibling, reply>>

\* tempfile.mkstemp: a fresh name, so no other call ever opens the file.
Stage(w) ==
  /\ pc[w] = "stage"
  /\ temp' = [temp EXCEPT ![w] = Torn]
  /\ Goto(w, "write")
  /\ UNCHANGED <<disk, req, tempSynced, reply>>

\* Mutant: the temporary is linked without os.fsync.
WriteTempNoSync(w) ==
  /\ pc[w] = "write"
  /\ temp' = [temp EXCEPT ![w] = req[w].data]
  /\ Goto(w, "link")
  /\ UNCHANGED <<disk, req, tempSynced, reply>>

WriteTemp(w) ==
  /\ pc[w] = "write"
  /\ temp' = [temp EXCEPT ![w] = req[w].data]
  /\ Goto(w, "sync")
  /\ UNCHANGED <<disk, req, tempSynced, reply>>

SyncTemp(w) ==
  /\ pc[w] = "sync"
  /\ tempSynced' = tempSynced \union {w}
  /\ Goto(w, "link")
  /\ UNCHANGED <<disk, req, temp, reply>>

\* What linking w's temporary over its target does to the disk.
Install(w) ==
  LET p == req[w].path IN
  /\ file' = [file EXCEPT ![p] = temp[w]]
  /\ flushed' = IF w \in tempSynced THEN flushed \union {p} ELSE flushed \ {p}
  /\ entered' = entered \ {p}
  /\ UNCHANGED directories

\* Mutant: os.replace instead of os.link, which overwrites.
LinkReplaces(w) ==
  /\ pc[w] = "link"
  /\ Install(w)
  /\ Answer(w, "created")
  /\ Goto(w, "syncdir")
  /\ UNCHANGED <<req, sibling>>

\* Mutant: the directory is not fsynced after the link.
LinkSkipsDirSync(w) ==
  /\ pc[w] = "link"
  /\ \/ /\ file[req[w].path] = Absent
        /\ Install(w)
        /\ Answer(w, "created")
        /\ Goto(w, "unlink")
     \/ /\ file[req[w].path] # Absent
        /\ Goto(w, "recheck")
        /\ UNCHANGED <<disk, reply>>
  /\ UNCHANGED <<req, sibling>>

\* os.link: create the target, or FileExistsError because a concurrent call
\* has created it since Check.
Link(w) ==
  /\ pc[w] = "link"
  /\ \/ /\ file[req[w].path] = Absent
        /\ Install(w)
        /\ Answer(w, "created")
        /\ Goto(w, "syncdir")
     \/ /\ file[req[w].path] # Absent
        /\ Goto(w, "recheck")
        /\ UNCHANGED <<disk, reply>>
  /\ UNCHANGED <<req, sibling>>

\* Mutant: a lost race is answered with the FileExistsError itself.
RecheckRaises(w) ==
  /\ pc[w] = "recheck"
  /\ Answer(w, "file_exists")
  /\ Goto(w, "unlink")
  /\ UNCHANGED <<disk, req, sibling>>

\* Mutant: a lost race is taken for a success without reading the target.
RecheckTrusts(w) ==
  /\ pc[w] = "recheck"
  /\ Answer(w, "identical")
  /\ Goto(w, "syncdir")
  /\ UNCHANGED <<disk, req, sibling>>

\* The FileExistsError handler: the winner's bytes decide.
Recheck(w) ==
  /\ pc[w] = "recheck"
  /\ \/ /\ file[req[w].path] = req[w].data
        /\ Answer(w, "identical")
        /\ Goto(w, "syncdir")
     \/ /\ file[req[w].path] # req[w].data
        /\ Answer(w, "collision")
        /\ Goto(w, "unlink")
  /\ UNCHANGED <<disk, req, sibling>>

\* The files in d, and the directories made directly under d.
FilesIn(d) == {p \in Paths : Dir[p] = d /\ file[p] # Absent}

DirectoriesIn(d) == {c \in made : c \notin Within[d] /\ Within[c] = Within[d] \union {c}}

\* _fsync_directory(target.parent): every entry of that directory.
SyncDirectory(w) ==
  /\ pc[w] = "syncdir"
  /\ entered' = entered \union FilesIn(Dir[req[w].path])
  /\ rooted' = rooted \union DirectoriesIn(Dir[req[w].path])
  /\ Goto(w, "unlink")
  /\ UNCHANGED <<file, flushed, made, req, sibling, reply>>

\* The finally clause, after which the call returns or raises its answer.
Unlink(w) ==
  /\ pc[w] = "unlink"
  /\ temp' = [temp EXCEPT ![w] = Absent]
  /\ tempSynced' = tempSynced \ {w}
  /\ Goto(w, "done")
  /\ UNCHANGED <<disk, req, reply>>

-----------------------------------------------------------------------------
(***************************************************************************)
(* Failures                                                                *)
(***************************************************************************)

\* The process is killed, or a system call raises OSError.  A temporary that
\* stays behind has a name nobody opens again.
Abort(w) ==
  /\ pc[w] \notin {"idle", "done"}
  /\ temp' = [temp EXCEPT ![w] = Absent]
  /\ tempSynced' = tempSynced \ {w}
  /\ Goto(w, "idle")
  /\ Answer(w, "none")
  /\ UNCHANGED <<disk, req>>

\* The directories that still stand when the entries of `lost' are gone.
Standing(lost) == {d \in made : Within[d] \intersect lost = {}}

\* Entries that were never fsynced, of files and of directories, may be gone
\* after a loss of power, and a surviving file may be blocks never flushed.
PowerLoss ==
  \E lost \in SUBSET (made \ rooted) :
  \E kept \in SUBSET {p \in Paths : file[p] # Absent /\ Dir[p] \in Standing(lost)} :
  \E torn \in SUBSET (kept \ flushed) :
    /\ {p \in entered : Dir[p] \in Standing(lost)} \subseteq kept
    /\ made' = Standing(lost)
    /\ rooted' = Standing(lost)
    /\ file' = [p \in Paths |->
                  IF p \in torn THEN Torn ELSE IF p \in kept THEN file[p] ELSE Absent]
    /\ flushed' = kept
    /\ entered' = kept
    /\ pc' = [w \in Writers |-> "idle"]
    /\ temp' = [w \in Writers |-> Absent]
    /\ tempSynced' = {}
    /\ reply' = [w \in Writers |-> "none"]
    /\ UNCHANGED req

WriteBytes(w) ==
  \/ Begin(w) \/ MakeDirectory(w) \/ Check(w) \/ Compare(w) \/ Return(w) \/ Stage(w)
  \/ WriteTemp(w) \/ SyncTemp(w) \/ Link(w) \/ Recheck(w) \/ SyncDirectory(w) \/ Unlink(w)

Next ==
  \/ \E w \in Writers : WriteBytes(w) \/ Abort(w)
  \/ PowerLoss

Spec == Init /\ [][Next]_vars
-----------------------------------------------------------------------------
(***************************************************************************)
(* Properties                                                              *)
(***************************************************************************)

\* No reader ever sees bytes that no caller handed over: neither a partly
\* written artifact nor, after a loss of power, blocks never flushed.
NeverTorn == \A p \in Paths : file[p] # Torn

\* A call that has ended told the truth about the bytes that are at its path:
\* they are the caller's, or others (the two branches on `existing != data').
AnswerIsTrue ==
  \A w \in Writers : pc[w] = "done" =>
    LET found == file[req[w].path] IN
      /\ reply[w] \in {"created", "identical"} => found = req[w].data
      /\ reply[w] = "collision" => found \notin {Absent, req[w].data}

\* Of the calls that race for one path, at most one is told that it created it.
OneCreator ==
  \A v, w \in Writers :
    (v # w /\ reply[v] = "created" /\ reply[w] = "created") => req[v].path # req[w].path

\* The directories whose own path is on the disk, every entry of it.
firmBar == {d \in Dirs : Within[d] \subseteq rooted}

\* p is gone together with a directory above it that was never fsynced.
LostWithDirectory(p) == Dir[p] \notin firmBar /\ Dir[p] \notin made'

\* What a call that returned created=True has created stays as it is, through
\* every kill and loss of power, unless the power takes a directory above it
\* whose own entry no call has fsynced (mkdir at the head of write_bytes).
CreatedIsDurable ==
  [][\A w \in Writers :
       pc[w] = "done" /\ reply[w] = "created" =>
         file'[req[w].path] = file[req[w].path] \/ LostWithDirectory(req[w].path)]_vars

\* The same without the exception, what "returns created=True" suggests: TLC
\* refutes it, because mkdir(parents=True) is followed by no fsync of the
\* directory above the one it has made.
CreatedSurvives ==
  [][\A w \in Writers :
       pc[w] = "done" /\ reply[w] = "created" => file'[req[w].path] = file[req[w].path]]_vars

\* Every call that succeeds has its entry fsynced: the part of "SQLite is
\* updated only after filesystem artifacts are durable" the store would need.
\* The early return lacks the fsync.
SuccessIsDurable ==
  \A w \in Writers :
    pc[w] = "done" /\ reply[w] \in {"created", "identical"} => req[w].path \in entered

\* An artifact is never overwritten and never removed; only an entry that no
\* call has fsynced yet, of the file or of a directory above it, can disappear
\* with the power.
NeverOverwritten ==
  [][\A p \in Paths :
       file[p] # Absent =>
         \/ file'[p] = file[p]
         \/ file'[p] = Absent /\ (p \notin entered \/ LostWithDirectory(p))]_vars

-----------------------------------------------------------------------------
(***************************************************************************)
(* The store implements the write-once registers of WriteOnce.  A call     *)
(* takes effect when its answer is decided: at Link, or where it reads the *)
(* bytes that are already there.                                           *)
(***************************************************************************)

opBar ==
  [w \in Writers |->
     CASE pc[w] = "idle" -> [st |-> "idle"]
       [] pc[w] = "done" -> [st |-> "done", path |-> req[w].path, data |-> req[w].data,
                             answer |-> reply[w]]
       [] pc[w] \notin {"idle", "done"} /\ reply[w] = "none" ->
            [st |-> "pending", path |-> req[w].path, data |-> req[w].data]
       [] OTHER -> [st |-> "decided", path |-> req[w].path, data |-> req[w].data,
                    answer |-> reply[w]]]

Promise == INSTANCE WriteOnce WITH stable <- entered, firm <- firmBar, op <- opBar

\* Every behaviour of write_bytes, crashes included, is one of the registers.
ImplementsWriteOnce == Promise!WSpec
=============================================================================
