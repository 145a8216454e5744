---------------------------- MODULE MCScreening ----------------------------
(***************************************************************************)
(* Instances of Screening for TLC.                                         *)
(***************************************************************************)
EXTENDS Screening, TLC

CONSTANTS p1, p2

\* Discovery may be repeated with another outcome.
Searches == {<<p1, p2>>, <<p2>>}

OneSearch == {<<p1, p2>>}

\* Prefixes, and scopes, are interchangeable.
Interchangeable == Permutations(Prefixes) \union Permutations(Scopes)
=============================================================================
