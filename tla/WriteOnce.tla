----------------------------- MODULE WriteOnce -----------------------------
(***************************************************************************)
(* What the artifact store promises its callers, without temporary files,  *)
(* fsync calls or system calls: a set of write-once registers.             *)
(*                                                                         *)
(* A write takes effect at one instant between its call and its return.    *)
(* At that instant it either creates the register, finds its own bytes     *)
(* there, or finds other bytes and is rejected; the register is never      *)
(* overwritten.  A register is `stable' once it survives a loss of power   *)
(* that its directory survives, and a write that answers "created" returns *)
(* only when its register is.  A directory that is `firm' survives.        *)
(***************************************************************************)
EXTENDS Naturals

CONSTANTS
  Writers,   \* concurrent callers of the store
  Paths,     \* artifact paths
  Dirs,      \* the directories that hold the registers
  Dir,       \* Dir[p] : the directory of p
  Contents,  \* byte strings a caller may want to store
  Absent     \* "no file at this path", no caller's bytes

VARIABLES
  file,      \* file[p] : the bytes at p, or Absent
  stable,    \* the paths that survive a loss of power with their directory
  firm,      \* the directories that survive a loss of power
  op         \* op[w] : the write that w is performing, or has just performed

wvars == <<file, stable, firm, op>>

Answers == {"created", "identical", "collision"}

Idle == [st |-> "idle"]

Pending(p, d) == [st |-> "pending", path |-> p, data |-> d]

Decided(o, a) == [st |-> "decided", path |-> o.path, data |-> o.data, answer |-> a]

Done(o) == [st |-> "done", path |-> o.path, data |-> o.data, answer |-> o.answer]

WInit ==
  /\ file = [p \in Paths |-> Absent]
  /\ stable = {}
  /\ firm \in SUBSET Dirs
  /\ op = [w \in Writers |-> Idle]

Invoke(w) ==
  /\ op[w].st \in {"idle", "done"}
  /\ \E p \in Paths, d \in Contents : op' = [op EXCEPT ![w] = Pending(p, d)]
  /\ UNCHANGED <<file, stable, firm>>

\* The instant at which a pending write takes effect.
Create(w) ==
  /\ op[w].st = "pending"
  /\ file[op[w].path] = Absent
  /\ file' = [file EXCEPT ![op[w].path] = op[w].data]
  /\ op' = [op EXCEPT ![w] = Decided(op[w], "created")]
  /\ UNCHANGED <<stable, firm>>

Match(w) ==
  /\ op[w].st = "pending"
  /\ file[op[w].path] = op[w].data
  /\ op' = [op EXCEPT ![w] = Decided(op[w], "identical")]
  /\ UNCHANGED <<file, stable, firm>>

Reject(w) ==
  /\ op[w].st = "pending"
  /\ file[op[w].path] \notin {Absent, op[w].data}
  /\ op' = [op EXCEPT ![w] = Decided(op[w], "collision")]
  /\ UNCHANGED <<file, stable, firm>>

\* The directory of a write is made durable with all it holds.
Settle(w) ==
  LET d == Dir[op[w].path] IN
  /\ op[w].st = "decided"
  /\ op[w].answer \in {"created", "identical"}
  /\ stable' = stable \union {p \in Paths : Dir[p] = d /\ file[p] # Absent}
  /\ firm' \in SUBSET Dirs /\ firm \subseteq firm'
  /\ UNCHANGED <<file, op>>

Return(w) ==
  /\ op[w].st = "decided"
  /\ op[w].answer = "created" => op[w].path \in stable
  /\ op' = [op EXCEPT ![w] = Done(op[w])]
  /\ UNCHANGED <<file, stable, firm>>

\* The caller is killed or the write raises an operating-system error: the
\* register keeps whatever effect the write has had.
Abandon(w) ==
  /\ op[w].st \in {"pending", "decided"}
  /\ op' = [op EXCEPT ![w] = Idle]
  /\ UNCHANGED <<file, stable, firm>>

\* Every caller stops.  Directories that are not firm may go with all they
\* hold; in the others, some of the registers that are not stable.
LosePower ==
  \E gone \in SUBSET (Dirs \ firm) :
  \E kept \in SUBSET {p \in Paths : file[p] # Absent /\ Dir[p] \notin gone} :
    /\ {p \in stable : Dir[p] \notin gone} \subseteq kept
    /\ file' = [p \in Paths |-> IF p \in kept THEN file[p] ELSE Absent]
    /\ stable' = kept
    /\ firm' \in SUBSET (Dirs \ gone) /\ firm \subseteq firm'
    /\ op' = [w \in Writers |-> Idle]

WNext ==
  \/ \E w \in Writers :
       \/ Invoke(w) \/ Create(w) \/ Match(w) \/ Reject(w)
       \/ Settle(w) \/ Return(w) \/ Abandon(w)
  \/ LosePower

WSpec == WInit /\ [][WNext]_wvars
=============================================================================
