------------------------- MODULE SourceAcquisition -------------------------
(***************************************************************************)
(* How frozen source packets come into being: acquire_arxiv_source with    *)
(* its fallbacks and acquire_pdf_source, called by fetch_source.py for one *)
(* paper and by workshop.py fetch-sources from a pool of threads;          *)
(* freeze_pdf_source, called by fetch_source.py alone with a file at hand; *)
(* and the two files that workshop.py writes about them.                   *)
(*                                                                         *)
(* A document is named after the bytes of the response and of its          *)
(* normalised text, so its files never collide; its packet also holds the  *)
(* time and the warnings, so packets do.  The text of a warning is left    *)
(* out.  The store neither fails nor tears a file (ArtifactStore); the     *)
(* network answers anything.                                               *)
(***************************************************************************)
EXTENDS Naturals, Sequences, FiniteSets

CONSTANTS
  Papers,
  Workshop,       \* fetch-sources commands, for all papers
  Single,         \* fetch_source.py commands, for one paper each
  Local,          \* those of them that are given the PDF in a file
  Time,           \* Time[c] : the retrieved_at of command c
  Bodies,         \* Bodies[f] : the responses there may be in format f
  Readable,       \* the responses that can be extracted and normalised
  Plan,           \* Plan[p] : the formats that fetch-sources tries for p
  MaxConcurrent,  \* the size of a thread pool
  None,           \* nothing there
  MaxCommands,    \* bound: how many commands are run
  MaxKills        \* bound: how many commands are killed

Commands == Workshop \union Single

Formats == {"html", "pdf_text", "abstract"}

\* With an arXiv identifier and a frozen abstract, without one, with a PDF only.
Plans == {<<"html", "pdf_text", "abstract">>, <<"html", "pdf_text">>, <<"pdf_text">>}

ASSUME CommandAssumption ==
  /\ Workshop \intersect Single = {}
  /\ Local \subseteq Single
  /\ DOMAIN Time = Commands
  /\ Plan \in [Papers -> Plans]
  /\ MaxConcurrent \in Nat \ {0}
  /\ MaxCommands \in Nat
  /\ MaxKills \in Nat

Responses == UNION {Bodies[f] : f \in Formats}

ASSUME BodyAssumption ==
  /\ DOMAIN Bodies = Formats
  /\ \A f, g \in Formats : f # g => Bodies[f] \intersect Bodies[g] = {}
  /\ Readable \subseteq Responses
  /\ {"failed", "not_ready"} \intersect Responses = {}

\* The response that was rejected, or None where there was none.
Warnings == [format : Formats, kept : Responses \union {None}]

\* SourcePacket of a document.  Its retrieval_method is direct if it has no
\* warnings and fallback if it has.
Packets == [time : {Time[c] : c \in Commands}, warnings : Seq(Warnings)]

Results == [Papers -> Readable \union {"failed"}]

VARIABLES
  running,     \* the commands at work
  wanted,      \* wanted[c] : papers whose acquisition by c has not begun
  at,          \* at[c][p] : where the acquisition of p by c stands
  plan,        \* plan[c][p] : the formats it has left to try
  body,        \* body[c][p] : the response in its hands, or None
  warned,      \* warned[c][p] : the warnings it has collected
  result,      \* result[c][p] : the document it returned, "failed", or None
  original,    \* original[p] : documents whose original bytes are in the store
  normalized,  \* normalized[p] : documents whose normalised text is
  packet,      \* packet[p][d] : source-packet.json of document d, or None
  preserved,   \* preserved[p] : rejected responses under acquisition/
  acquisition, \* the command and the results in source-acquisition.json, or None
  seen,        \* what a reconcile-sources has found out so far, or None
  readiness,   \* the documents in source-readiness.json, or None
  killed       \* the commands that have been killed

call == <<at, plan, body, warned, result>>
store == <<original, normalized, packet, preserved>>
reports == <<acquisition, seen, readiness>>
vars == <<running, wanted, at, plan, body, warned, result, original, normalized,
          packet, preserved, acquisition, seen, readiness, killed>>

Steps == {"idle", "fetch", "original", "normalized", "packet", "preserve", "ended"}

Acquisitions == [command : Workshop, results : Results]

\* The document found for a paper, unless it is not ready or not looked at yet.
Findings == [Papers -> Readable \union {"not_ready", None}]

ASSUME NoneAssumption ==
  /\ None \notin Responses \union {"failed", "not_ready"}
  /\ None \notin Packets
  /\ None \notin Acquisitions
  /\ None \notin Findings

TypeOK ==
  /\ running \subseteq Commands
  /\ wanted \in [Commands -> SUBSET Papers]
  /\ at \in [Commands -> [Papers -> Steps]]
  /\ plan \in [Commands -> [Papers -> Seq(Formats)]]
  /\ body \in [Commands -> [Papers -> Responses \union {None}]]
  /\ warned \in [Commands -> [Papers -> Seq(Warnings)]]
  /\ result \in [Commands -> [Papers -> Readable \union {"failed", None}]]
  /\ original \in [Papers -> SUBSET Readable]
  /\ normalized \in [Papers -> SUBSET Readable]
  /\ packet \in [Papers -> [Readable -> Packets \union {None}]]
  /\ preserved \in [Papers -> SUBSET Responses]
  /\ acquisition \in Acquisitions \union {None}
  /\ seen \in Findings \union {None}
  /\ readiness \in Findings \union {None}
  /\ killed \subseteq Commands

Init ==
  /\ running = {}
  /\ wanted = [c \in Commands |-> {}]
  /\ at = [c \in Commands |-> [p \in Papers |-> "idle"]]
  /\ plan = [c \in Commands |-> [p \in Papers |-> <<>>]]
  /\ body = [c \in Commands |-> [p \in Papers |-> None]]
  /\ warned = [c \in Commands |-> [p \in Papers |-> <<>>]]
  /\ result = [c \in Commands |-> [p \in Papers |-> None]]
  /\ original = [p \in Papers |-> {}]
  /\ normalized = [p \in Papers |-> {}]
  /\ packet = [p \in Papers |-> [d \in Readable |-> None]]
  /\ preserved = [p \in Papers |-> {}]
  /\ acquisition = None
  /\ seen = None
  /\ readiness = None
  /\ killed = {}

-----------------------------------------------------------------------------
(***************************************************************************)
(* A command and its pool                                                  *)
(***************************************************************************)

Fresh(c) == c \notin running /\ wanted[c] = {} /\ \A p \in Papers : at[c][p] = "idle"

Launch(c, papers, plans) ==
  /\ Fresh(c)
  /\ Cardinality({d \in Commands : ~Fresh(d)}) < MaxCommands
  /\ running' = running \union {c}
  /\ wanted' = [wanted EXCEPT ![c] = papers]
  /\ plan' = [plan EXCEPT ![c] = plans]
  /\ UNCHANGED <<at, body, warned, result, store, reports, killed>>

StartWorkshop(c) == Launch(c, Papers, Plan)

\* With --pdf-url or without, with an abstract or without; with --pdf-file too.
Routes(c) == IF c \in Local THEN {<<"pdf_text">>} ELSE Plans

StartSingle(c) ==
  \E p \in Papers, s \in Routes(c) : Launch(c, {p}, [q \in Papers |-> IF q = p THEN s ELSE <<>>])

Busy(c) == {p \in Papers : at[c][p] \notin {"idle", "ended"}}

Set(f, c, p, x) == [f EXCEPT ![c][p] = x]

Begin(c, p) ==
  /\ c \in running
  /\ p \in wanted[c]
  /\ Cardinality(Busy(c)) < MaxConcurrent
  /\ wanted' = [wanted EXCEPT ![c] = @ \ {p}]
  /\ at' = Set(at, c, p, "fetch")
  /\ UNCHANGED <<running, plan, body, warned, result, store, reports, killed>>

-----------------------------------------------------------------------------
(***************************************************************************)
(* One acquisition: acquire_arxiv_source, acquire_pdf_source or            *)
(* freeze_pdf_source                                                       *)
(***************************************************************************)

On(c, p, step) == c \in running /\ at[c][p] = step

Format(c, p) == Head(plan[c][p])

\* The next format, or the error that ends the acquisition.
GiveUp(c, p, kept) ==
  /\ plan' = Set(plan, c, p, Tail(plan[c][p]))
  /\ body' = Set(body, c, p, None)
  /\ warned' = Set(warned, c, p, Append(warned[c][p], [format |-> Format(c, p), kept |-> kept]))
  /\ IF Len(plan[c][p]) = 1
     THEN at' = Set(at, c, p, "ended") /\ result' = Set(result, c, p, "failed")
     ELSE at' = Set(at, c, p, "fetch") /\ UNCHANGED result

\* No response: a timeout, an error status, too many bytes, no abstract, no file.
Unavailable(c, p) ==
  /\ On(c, p, "fetch")
  /\ GiveUp(c, p, None)
  /\ UNCHANGED <<running, wanted, store, reports, killed>>

\* Mutant: the response is stored before it is extracted and normalised.
FetchUnread(c, p) ==
  /\ On(c, p, "fetch")
  /\ \E b \in Bodies[Format(c, p)] : body' = Set(body, c, p, b)
  /\ at' = Set(at, c, p, "original")
  /\ UNCHANGED <<running, wanted, plan, warned, result, store, reports, killed>>

\* Mutant: the manifest is written before the files that it names.
FetchForPacket(c, p) ==
  /\ On(c, p, "fetch")
  /\ \E b \in Bodies[Format(c, p)] :
       /\ body' = Set(body, c, p, b)
       /\ at' = Set(at, c, p, IF b \in Readable THEN "packet" ELSE "preserve")
  /\ UNCHANGED <<running, wanted, plan, warned, result, store, reports, killed>>

\* Bytes that cannot be extracted, decoded or normalised write nothing.
Fetch(c, p) ==
  /\ On(c, p, "fetch")
  /\ \E b \in Bodies[Format(c, p)] :
       /\ body' = Set(body, c, p, b)
       /\ at' = Set(at, c, p, IF b \in Readable THEN "original" ELSE "preserve")
  /\ UNCHANGED <<running, wanted, plan, warned, result, store, reports, killed>>

WriteOriginal(c, p) ==
  /\ On(c, p, "original")
  /\ original' = [original EXCEPT ![p] = @ \union {body[c][p]}]
  /\ at' = Set(at, c, p, "normalized")
  /\ UNCHANGED <<running, wanted, plan, body, warned, result, normalized, packet, preserved,
                 reports, killed>>

WriteNormalized(c, p) ==
  /\ On(c, p, "normalized")
  /\ normalized' = [normalized EXCEPT ![p] = @ \union {body[c][p]}]
  /\ at' = Set(at, c, p, "packet")
  /\ UNCHANGED <<running, wanted, plan, body, warned, result, original, packet, preserved,
                 reports, killed>>

Manifest(c, p) == [time |-> Time[c], warnings |-> warned[c][p]]

\* Mutant: a manifest that is there already is as good as ours.
WritePacketTrusts(c, p) ==
  /\ On(c, p, "packet")
  /\ packet' = IF packet[p][body[c][p]] = None
               THEN [packet EXCEPT ![p][body[c][p]] = Manifest(c, p)] ELSE packet
  /\ at' = Set(at, c, p, "ended")
  /\ result' = Set(result, c, p, body[c][p])
  /\ UNCHANGED <<running, wanted, plan, body, warned, original, normalized, preserved,
                 reports, killed>>

WritePacket(c, p) ==
  /\ On(c, p, "packet")
  /\ packet[p][body[c][p]] \in {None, Manifest(c, p)}
  /\ packet' = [packet EXCEPT ![p][body[c][p]] = Manifest(c, p)]
  /\ at' = Set(at, c, p, "ended")
  /\ result' = Set(result, c, p, body[c][p])
  /\ UNCHANGED <<running, wanted, plan, body, warned, original, normalized, preserved,
                 reports, killed>>

\* A packet of another time, or with other warnings, raises like bad bytes do.
Collide(c, p) ==
  /\ On(c, p, "packet")
  /\ packet[p][body[c][p]] \notin {None, Manifest(c, p)}
  /\ at' = Set(at, c, p, "preserve")
  /\ UNCHANGED <<running, wanted, plan, body, warned, result, store, reports, killed>>

\* Mutant: a thread whose acquisition fails is not given back to the pool.
Hung(c, p) == On(c, p, "preserve") /\ UNCHANGED vars

\* Mutant: only the warning is kept of a rejected response.
PreserveNothing(c, p) ==
  /\ On(c, p, "preserve")
  /\ GiveUp(c, p, body[c][p])
  /\ UNCHANGED <<running, wanted, store, reports, killed>>

\* _preserve_failed_bytes; an abstract and a file of the operator's have no such
\* handler and are not kept.
Preserve(c, p) ==
  /\ On(c, p, "preserve")
  /\ preserved' = IF Format(c, p) = "abstract" \/ c \in Local THEN preserved
                  ELSE [preserved EXCEPT ![p] = @ \union {body[c][p]}]
  /\ GiveUp(c, p, body[c][p])
  /\ UNCHANGED <<running, wanted, original, normalized, packet, reports, killed>>

Acquire(c, p) ==
  \/ Unavailable(c, p) \/ Fetch(c, p) \/ WriteOriginal(c, p) \/ WriteNormalized(c, p)
  \/ WritePacket(c, p) \/ Collide(c, p) \/ Preserve(c, p)

-----------------------------------------------------------------------------
(***************************************************************************)
(* What the commands write about it                                        *)
(***************************************************************************)

Finished(c) == c \in running /\ wanted[c] = {} /\ Busy(c) = {}

\* The last write of fetch-sources; other results there make it fail.
Report(c) ==
  /\ Finished(c)
  /\ running' = running \ {c}
  /\ acquisition' = IF c \in Workshop /\ acquisition = None
                    THEN [command |-> c, results |-> result[c]] ELSE acquisition
  /\ UNCHANGED <<wanted, call, store, seen, readiness, killed>>

Kill(c) ==
  /\ c \in running
  /\ Cardinality(killed) < MaxKills
  /\ killed' = killed \union {c}
  /\ running' = running \ {c}
  /\ UNCHANGED <<wanted, call, store, reports>>

\* reconcile-sources
StartReconcile ==
  /\ acquisition # None
  /\ seen = None
  /\ seen' = [p \in Papers |-> None]
  /\ UNCHANGED <<running, wanted, call, store, acquisition, readiness, killed>>

\* Exactly one packet, and the files it names.
Look(p) ==
  /\ seen # None
  /\ seen[p] = None
  /\ LET found == {d \in Readable : packet[p][d] # None} IN
       \E d \in Readable \union {"not_ready"} :
         /\ IF \E e \in Readable : found = {e} /\ {e} \subseteq original[p] \intersect normalized[p]
            THEN found = {d} ELSE d = "not_ready"
         /\ seen' = [seen EXCEPT ![p] = d]
  /\ UNCHANGED <<running, wanted, call, store, acquisition, readiness, killed>>

WriteReadiness ==
  /\ seen # None
  /\ \A p \in Papers : seen[p] # None
  /\ readiness' = IF readiness = None THEN seen ELSE readiness
  /\ seen' = None
  /\ UNCHANGED <<running, wanted, call, store, acquisition, killed>>

Next ==
  \/ \E c \in Workshop : StartWorkshop(c)
  \/ \E c \in Single : StartSingle(c)
  \/ \E c \in Commands, p \in Papers : Begin(c, p) \/ Acquire(c, p)
  \/ \E c \in Commands : Report(c) \/ Kill(c)
  \/ StartReconcile
  \/ \E p \in Papers : Look(p)
  \/ WriteReadiness

Spec == Init /\ [][Next]_vars

\* Fetching has a timeout, and a thread goes on unless its command is killed.
FairSpec ==
  /\ Spec
  /\ \A c \in Commands :
       WF_vars(\E p \in Papers : Begin(c, p) \/ Acquire(c, p)) /\ WF_vars(Report(c))

-----------------------------------------------------------------------------
(***************************************************************************)
(* Properties                                                              *)
(***************************************************************************)

\* A packet names files that are there, whoever was killed where.
PacketsAreBacked ==
  \A p \in Papers, d \in Readable : packet[p][d] # None =>
    d \in original[p] /\ d \in normalized[p]

\* A packet of a second choice says why: it warns of every format tried before
\* it, in order, and each response that was rejected on the way is preserved.
FallbackIsExplained ==
  \A p \in Papers, d \in Readable : packet[p][d] # None =>
    LET w == packet[p][d].warnings IN
      /\ \E s \in Plans :
           /\ Len(w) < Len(s)
           /\ d \in Bodies[s[Len(w) + 1]]
           /\ \A i \in 1..Len(w) : w[i].format = s[i]
      /\ \A i \in 1..Len(w) : w[i].kept # None => w[i].kept \in preserved[p]

\* What is reported as acquired is in the store, frozen at the time that the
\* command gives, and stays so, whatever other commands and threads do; a paper
\* reported ready has the packet, and one reported not ready lacks it by then, or
\* has more than one.
ReportsAreTrue ==
  /\ \A c \in Commands, p \in Papers :
       result[c][p] \in Readable =>
         /\ packet[p][result[c][p]] # None
         /\ packet[p][result[c][p]].time = Time[c]
  /\ acquisition # None =>
       \A p \in Papers : acquisition.results[p] = result[acquisition.command][p]
  /\ readiness # None =>
       \A p \in Papers :
         IF readiness[p] # "not_ready" THEN packet[p][readiness[p]] # None
         ELSE \/ acquisition.results[p] = "failed"
              \/ \E d, e \in Readable : d # e /\ packet[p][d] # None /\ packet[p][e] # None

\* A command ends unless it is killed, whatever the size of its pool: an
\* acquisition that fails costs the pool neither a thread nor another result.
CommandsEnd ==
  \A c \in Commands : c \in running ~>
    (c \notin running /\ (c \in killed \/ \A p \in Papers : result[c][p] = None => plan[c][p] = <<>>))
=============================================================================
