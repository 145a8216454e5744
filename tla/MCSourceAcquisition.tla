------------------------ MODULE MCSourceAcquisition ------------------------
(***************************************************************************)
(* Instances of SourceAcquisition for TLC.                                 *)
(***************************************************************************)
EXTENDS SourceAcquisition, TLC

\* Two workshop commands and two later ones for one paper.
Times ==
  [c \in Commands |-> CASE c = "w" -> 1 [] c = "x" -> 2 [] c = "s" -> 3 [] c = "l" -> 4]

\* The same paper answers with the same bytes, or with bytes that cannot be read.
Answers == "html" :> {"page", "garbled"} @@ "pdf_text" :> {"print"} @@ "abstract" :> {"summary"}

\* A paper on arXiv and one that is only in the proceedings.
PlanOf == "a" :> <<"html", "pdf_text">> @@ "b" :> <<"pdf_text">>
=============================================================================
