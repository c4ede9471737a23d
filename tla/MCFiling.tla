------------------------------ MODULE MCFiling ------------------------------
(***************************************************************************)
(* One year, two months and a day of each, filed by month; a record may    *)
(* say no more than the year.                                              *)
(***************************************************************************)
EXTENDS Filing

CONSTANTS n1, n2

MCSymmetry == Permutations({n1, n2})
MCValues == {<<"y">>, <<"y", "m", "d">>, <<"y", "n", "d">>}

\* Of four documents, what one edit leads to is followed by one more and no further.
FewAtOnce == Cardinality(There \ {Anchor}) = MaxNodes => edits < 2
=============================================================================
