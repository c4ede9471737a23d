-------------------------------- MODULE Paths --------------------------------
(***************************************************************************)
(* Workspace paths and the text of a link to one.  A path is a sequence    *)
(* of segments, empty for the root directory.  What a link says is also a  *)
(* sequence of segments, which may hold Up (`..`) and Here (`.`); whether  *)
(* it starts at the root or at the directory of the document it is written *)
(* in is the form of the link.                                             *)
(***************************************************************************)
EXTENDS Naturals, Sequences, SequencesExt

Up == ".."
Here == "."

Dir(p) == IF p = <<>> THEN <<>> ELSE Front(p)

\* The path without its dots.  A `..` that would leave the root stays.
Normalize(text) ==
    LET Step(done, segment) ==
            CASE segment = Here -> done
              [] segment = Up /\ done # <<>> /\ Last(done) # Up -> Front(done)
              [] OTHER -> Append(done, segment)
    IN  FoldLeft(Step, <<>>, text)

\* What a target written in doc names: from the root, or from doc's directory.
Resolve(form, doc, text) ==
    Normalize(IF form = "root" THEN text ELSE Dir(doc) \o text)

Common(p, q) == LongestCommonPrefix({p, q})

\* The text that reaches `to` from a directory.
Relative(dir, to) ==
    LET k == Len(Common(dir, to))
        text == [i \in 1 .. Len(dir) - k |-> Up] \o SubSeq(to, k + 1, Len(to))
    IN  IF text = <<>> THEN <<Here>> ELSE text

PathText(style, doc, to) == IF style = "root" THEN to ELSE Relative(Dir(doc), to)

IsUnder(dir, p) == IsPrefix(dir, p)

\* p, kept in its place, when the directory `from` becomes `to`.
Carried(from, to, p) == to \o SubSeq(p, Len(from) + 1, Len(p))
=============================================================================
