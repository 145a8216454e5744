-------------------------- MODULE MCIndexProjection --------------------------
(***************************************************************************)
(* Small instances of IndexProjection: one or two runs at a time, at the   *)
(* points of the workflow where their records matter.                      *)
(***************************************************************************)
EXTENDS IndexProjection

CONSTANTS s, a, b, c, d, v

\* A run of each role, and two more readings.
Cast ==
  [r \in Runs |-> CASE r = s -> "paper_screener"
                    [] r \in {a, b, d} -> "paper_reader"
                    [] r = c -> "critic"
                    [] r = v -> "reviewer"]

Screened == {"candidates", "identities", "packet"}

Frozen == Screened \union {"corpus"}

\* A screening before the corpus, a review of a paper that may still fail, a
\* reading before the identities, a reading and a critique, and two readings
\* beside a paper that has failed.
Workflow ==
  {[files |-> Screened, runs |-> {s}], [files |-> Frozen, runs |-> {v}],
   [files |-> {"candidates", "corpus"}, runs |-> {b}], [files |-> Frozen, runs |-> {a, c}],
   [files |-> Frozen \union {"failed"}, runs |-> {a, d}]}

\* One of the readings is numbered as the operator likes when it is executed
\* again; every other run has the default.
Numbered == [r \in Runs |-> IF r = b THEN {1, 2} ELSE {1}]
=============================================================================
