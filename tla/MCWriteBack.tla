---------------------------- MODULE MCWriteBack ----------------------------
(* Instance of WriteBack for TLC: every small layout of one file, and a     *)
(* second document next to it.                                             *)
EXTENDS WriteBack

CONSTANTS
  d1, d2,
  MaxLines,      \* bound: lines of the first file, any layout
  SpacedLines    \* lines of the layouts with blank lines between blocks

MCTexts == 1..5 \cup {11, 12}
MCNewText == <<11, 12>>

\* Line i says i, so that the order of lines shows.
LinesAt(i) ==
  {Blank, HeadingLine(i), TextLine(<<i>>), TextLine(<<i, i>>), Rule}

LayoutsOf(n) ==
  {f \in [1..n -> UNION {LinesAt(i) : i \in 1..n}] :
     \A i \in 1..n : f[i] \in LinesAt(i)}

Layouts ==
  UNION {LayoutsOf(n) : n \in 0..MaxLines}
    \cup {f \in LayoutsOf(SpacedLines) : Spaced(Parse(f))}

Short == <<TextLine(<<1>>)>>

\* A statement of up to two rows on any layout.
InitLayout ==
  /\ \E f \in Layouts :
       InitWith([d \in Docs |-> IF d = d1 THEN f ELSE Short])
  /\ stmt \in Matched \cup Collected(1) \cup Collected(2)
  /\ statements = MaxStatements /\ edits = MaxEdits

\* Histories of short files.
InitShort ==
  /\ InitWith([d \in Docs |-> Short])
  /\ stmt = Idle /\ statements = 0 /\ edits = 0

MCInit == InitLayout \/ InitShort

MCSpec == MCInit /\ [][Next]_vars
=============================================================================
