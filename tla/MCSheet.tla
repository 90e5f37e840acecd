------------------------------- MODULE MCSheet -------------------------------
(* Instances of Sheet for TLC.                                             *)
EXTENDS Sheet

Numbers == {Raw("number", 2, 0)}
Refs == {Raw("ref", c, 0) : c \in Axis}
Sums == {Raw("sum", s[1], s[2]) : s \in {t \in Axis \X Axis : t[1] < t[2]}}
Indirects == {Raw("indirect", c, 0) : c \in Axis}

Formulas == {Empty} \cup Numbers \cup Refs \cup Sums

WithIndirect == Formulas \cup Indirects

\* A cell that INDIRECT makes refer to itself.
SelfReference == {<<Raw("number", 2, 0), Raw("indirect", 1, 0), Absent>>}

\* A sum over references, and a cycle of references.
Sheets ==
  {<<Raw("number", 1, 0), Raw("ref", 1, 0), Raw("sum", 1, 2)>>,
   <<Raw("ref", 2, 0), Raw("ref", 1, 0), Raw("ref", 2, 0)>>}

Mix(set, format, resize, edit, start) ==
  [set |-> set, format |-> format, resize |-> resize, edit |-> edit,
   start |-> start]

\* Two edits around a restart; two insertions or deletions after an edit or a
\* resize; formats among edits and insertions.
Mixes ==
  {Mix(2, 0, 0, 0, 1), Mix(1, 0, 0, 2, 0), Mix(0, 0, 1, 2, 0),
   Mix(0, 1, 0, 1, 1), Mix(1, 1, 0, 0, 1)}

OneEdit == {Mix(1, 0, 0, 0, 0)}
=============================================================================
