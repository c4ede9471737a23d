------------------------------ MODULE MCAlbums ------------------------------
(* Two photographs, two directories, an index and a page; a field that     *)
(* holds text and one that holds a link.                                   *)
EXTENDS Albums, TLC

CONSTANTS a, b, d, e, caption, place, page

MCFiles == {a, b}
MCOrder == <<a, b>>
MCPages == {page}
MCDirs == {d, e}
MCFields == {caption, place}
MCLinkFields == {place}
\* Directories are never ordered.
MCSymmetry == Permutations(MCDirs)

\* Bound: what a node scattered into itself leaves is followed up to the last
\* change by hand.
FewScattered == (\E x \in MCDirs : ScatteredIntoItself(x)) => edits < MaxEdits
=============================================================================
