------------------------------- MODULE MCMoves -------------------------------
EXTENDS Moves
CONSTANTS d1, d2, d3, img, pic

MCSidecar == [p \in {img} |-> d1]
MCDirs == {<<>>, <<"x">>, <<"x", "y">>, <<"z">>}
MCLeaves == {"m", "n"}
MCPayloadLeaf == [l \in MCLeaves |-> IF l = "m" THEN "m.bytes" ELSE "n"]
MCStyles == {("fore" :> "root") @@ ("body" :> "rel"), ("fore" :> "rel") @@ ("body" :> "root")}
MCStart == (d1 :> <<"x", "m">>) @@ (d2 :> <<"x", "y", "m">>) @@ (d3 :> None)
           @@ (img :> <<"x", "m.bytes">>) @@ (pic :> <<"x", "y", "pic">>)

-----------------------------------------------------------------------------
(* Laws of the functions on paths, over every path and text short enough.  *)

Segments == {"a", "b"}
ShortPaths == SeqOf(Segments, 3)
ShortTexts == SeqOf(Segments \cup {Up, Here}, 4)

\* A text written from a directory leads back to what it was written for: what
\* every respelled link rests on (relative, resolve and normalize of link.rs).
ASSUME WrittenLeadsBack ==
    \A dir, to \in ShortPaths : to # <<>> =>
        \A form \in {"root", "rel"} :
            LET doc == Append(dir, "doc")
            IN  Resolve(form, doc, PathText(form, doc, to)) = to

\* Normalizing says the same place as the text did: a dot, or a segment that is
\* left again at once, makes no difference wherever it stands, and none is left.
ASSUME NormalizeIsTheSamePlace ==
    \A text \in ShortTexts :
        LET path == Normalize(text)
        IN  /\ Here \notin ToSet(path)
            /\ \A i \in 2 .. Len(path) : path[i] = Up => path[i - 1] = Up
            /\ \A i \in 0 .. Len(text) :
                LET front == SubSeq(text, 1, i)
                    back  == SubSeq(text, i + 1, Len(text))
                IN  /\ Normalize(front \o <<Here>> \o back) = path
                    /\ Normalize(front \o <<"a", Up>> \o back) = path

\* A directory that moves takes its files with it: between two of them nothing
\* has to be respelled (Moves::landed of maintain.rs).
ASSUME CarriedTogether ==
    \A from, to, p, q \in SeqOf(Segments, 2) :
        Relative(Carried(from, to, from \o p), Carried(from, to, from \o q)) = Relative(p, q)
=============================================================================
