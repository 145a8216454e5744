---------------------------- MODULE MCReviewGate ----------------------------
(***************************************************************************)
(* Instances of ReviewGate for TLC.                                        *)
(***************************************************************************)
EXTENDS ReviewGate, TLC

\* Rounded to a whole number, with a mean of 1/2 rounded down: papers that fail the
\* gate tie with one another whatever their merit, and with those that only pass it.
ObjectiveWeights == "gate" :> 1 @@ "merit" :> 1

\* A profile whose criteria do not count.
ZeroWeights == "gate" :> 0 @@ "merit" :> 0
=============================================================================
