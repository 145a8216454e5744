------------------------- MODULE InvestigationStates -------------------------
(***************************************************************************)
(* The state diagram of an investigation, as workflow/state.py closes it.  *)
(* Who derives the state from files sees it only now and then, so a step   *)
(* follows any number of edges; a state without edges is final.            *)
(***************************************************************************)

VARIABLE status   \* of one investigation

States ==
  {"draft", "inputs_validated", "discovering", "candidates_frozen", "screening",
   "corpus_frozen", "analyzing", "reviewing", "review_blocked", "rendering",
   "complete", "complete_with_warnings", "failed"}

\* _INVESTIGATION_TRANSITIONS
Targets(s) ==
  CASE s = "draft" -> {"inputs_validated", "failed"}
    [] s = "inputs_validated" -> {"discovering", "failed"}
    [] s = "discovering" -> {"candidates_frozen", "failed"}
    [] s = "candidates_frozen" -> {"screening", "corpus_frozen", "failed"}
    [] s = "screening" -> {"corpus_frozen", "failed"}
    [] s = "corpus_frozen" -> {"analyzing", "failed"}
    [] s = "analyzing" -> {"reviewing", "failed"}
    [] s = "reviewing" -> {"review_blocked", "rendering", "failed"}
    [] s = "rendering" -> {"complete", "complete_with_warnings", "failed"}
    [] OTHER -> {}

Final == {"review_blocked", "complete", "complete_with_warnings", "failed"}

\* The states that transitions lead to from s: Targets, transitively closed.
Later(s) ==
  CASE s = "draft" -> States \ {"draft"}
    [] s = "inputs_validated" -> States \ {"draft", "inputs_validated"}
    [] s = "discovering" -> States \ {"draft", "inputs_validated", "discovering"}
    [] s = "candidates_frozen" ->
         {"screening", "corpus_frozen", "analyzing", "reviewing", "rendering"} \union Final
    [] s = "screening" -> {"corpus_frozen", "analyzing", "reviewing", "rendering"} \union Final
    [] s = "corpus_frozen" -> {"analyzing", "reviewing", "rendering"} \union Final
    [] s = "analyzing" -> {"reviewing", "rendering"} \union Final
    [] s = "reviewing" -> {"rendering"} \union Final
    [] s = "rendering" -> {"complete", "complete_with_warnings", "failed"}
    [] OTHER -> {}

IInit == status = "draft"

INext == status' \in Later(status)

ISpec == IInit /\ [][INext]_status
=============================================================================
