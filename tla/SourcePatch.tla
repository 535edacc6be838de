---------------------------- MODULE SourcePatch ----------------------------
(***************************************************************************)
(* What a write-back statement does to the text of one Markdown file       *)
(* (apply_matched_edits and apply_new_blocks in src/sql/write_back.rs),    *)
(* and what the parser finds in the text afterwards.  A file is a sequence *)
(* of lines; a block remembers the first and the last of its lines.        *)
(***************************************************************************)
EXTENDS Integers, Sequences, FiniteSets

CONSTANT Texts    \* what a heading or a stretch of text says

-----------------------------------------------------------------------------
(* Lines: blank, a heading, a rule (a block that has no text to update),   *)
(* or text.  A line of text with a second part holds a stretch of plain    *)
(* text and one of, say, bold text.                                        *)

Blank == [kind |-> "blank", parts |-> <<>>]
Rule == [kind |-> "rule", parts |-> <<>>]
HeadingLine(t) == [kind |-> "heading", parts |-> <<t>>]
TextLine(parts) == [kind |-> "text", parts |-> parts]

Line == {Blank, Rule} \cup {HeadingLine(t) : t \in Texts}
          \cup {TextLine(<<t>>) : t \in Texts}
          \cup {TextLine(p) : p \in Texts \X Texts}

IsText(file, i) == i \in DOMAIN file /\ file[i].kind = "text"

\* node_to_span: the parser counts lines from 1, and so do spans.
SpanLine(n) == n

\* The parser puts the inline nodes of a paragraph next to the blocks, so a
\* line with two parts gives two blocks with one span; plain text goes on
\* over the end of a line, also after a part that is not plain.
ParseLine(blocks, file, i) ==
  LET line == file[i]
      Block(kind, parts, first) ==
        [kind |-> kind, content |-> parts,
         first |-> SpanLine(first), last |-> SpanLine(i)]
      goesOn == IsText(file, i - 1)
      plain == <<line.parts[1]>>
      upTo == IF ~goesOn THEN Append(blocks, Block("paragraph", plain, i))
              ELSE IF Len(file[i - 1].parts) = 2
                THEN Append(blocks, Block("paragraph", plain, i - 1))
              ELSE [blocks EXCEPT ![Len(blocks)] =
                      Block("paragraph", @.content \o plain, @.first)]
  IN  CASE line.kind = "blank" -> blocks
        [] line.kind \in {"heading", "rule"} ->
             Append(blocks, Block(line.kind, line.parts, i))
        [] line.kind = "text" /\ Len(line.parts) = 1 -> upTo
        [] OTHER ->
             Append(upTo, Block("paragraph", <<line.parts[2]>>, i))

\* The blocks of a file.
Parse(file) ==
  LET upTo[n \in 0..Len(file)] ==
        IF n = 0 THEN <<>> ELSE ParseLine(upTo[n - 1], file, n)
  IN  upTo[Len(file)]

-----------------------------------------------------------------------------
(* Patches.  Lines are counted from 0 where the code does.                 *)

\* The lines from start up to but without end are replaced by new.
Splice(lines, start, end, new) ==
  SubSeq(lines, 1, start) \o new \o SubSeq(lines, end + 1, Len(lines))

IsBlankAt(lines, i) == i \in DOMAIN lines /\ lines[i].kind = "blank"

Least(a, b) == IF a < b THEN a ELSE b

\* The elements of a finite set, in the order that the pairs give.
Sorted(S, before) ==
  [n \in 1..Cardinality(S) |->
     CHOOSE x \in S : Cardinality({y \in S : <<y, x>> \in before}) = n - 1]

\* Updates and new blocks can only be headings and paragraphs.
Writable(kind) == kind \in {"heading", "paragraph"}

Rendered(kind, text) ==
  IF kind = "heading" THEN HeadingLine(text) ELSE TextLine(<<text>>)

\* Mutated form: the line numbers of a span are used as they are.
StartOfPlain(block) == block.first

StartOf(block) == block.first - 1

ApplyUpdate(lines, block, text) ==
  LET start == StartOf(block)
      end == Least(block.last, Len(lines))
  IN  IF start >= end THEN lines
      ELSE Splice(lines, start, end, <<Rendered(block.kind, text)>>)

\* Mutated form: the blank line before goes as well.
ApplyDeleteBoth(lines, block) ==
  LET start == StartOf(block)
      end == Least(block.last, Len(lines))
  IN  IF start >= end THEN lines
      ELSE Splice(lines,
                  IF IsBlankAt(lines, start) THEN start - 1 ELSE start,
                  IF IsBlankAt(lines, end + 1) THEN end + 1 ELSE end, <<>>)

\* A blank line after the block goes with it, else one before it.
ApplyDelete(lines, block) ==
  LET start == StartOf(block)
      end == Least(block.last, Len(lines))
  IN  IF start >= end THEN lines
      ELSE IF IsBlankAt(lines, end + 1)
        THEN Splice(lines, start, end + 1, <<>>)
      ELSE IF IsBlankAt(lines, start) THEN Splice(lines, start - 1, end, <<>>)
      ELSE Splice(lines, start, end, <<>>)

\* Mutated form: from the first line to the last.
TopDown(blocks, matched) ==
  Sorted(matched, {p \in matched \X matched :
                     \/ blocks[p[1]].first < blocks[p[2]].first
                     \/ blocks[p[1]].first = blocks[p[2]].first /\ p[1] < p[2]})

\* The matched blocks from the last line to the first, so that a patch does
\* not move the lines of the next; blocks of one line keep their order.
BottomUp(blocks, matched) ==
  Sorted(matched, {p \in matched \X matched :
                     \/ blocks[p[1]].first > blocks[p[2]].first
                     \/ blocks[p[1]].first = blocks[p[2]].first /\ p[1] < p[2]})

\* The lines after n blocks.
Updated(file, blocks, matched, text) ==
  LET order == BottomUp(blocks, matched)
      lines[n \in 0..Len(order)] ==
        IF n = 0 THEN file
        ELSE ApplyUpdate(lines[n - 1], blocks[order[n]], text)
  IN  lines[Len(order)]

Deleted(file, blocks, matched) ==
  LET order == BottomUp(blocks, matched)
      lines[n \in 0..Len(order)] ==
        IF n = 0 THEN file ELSE ApplyDelete(lines[n - 1], blocks[order[n]])
  IN  lines[Len(order)]

\* A new row goes after the last line of the block it names, or to the end.
AtEnd == 0
PlaceOf(file, blocks, row) ==
  IF row.after = AtEnd THEN Len(file) ELSE blocks[row.after].last

\* Mutated form: no blank line between the new block and the next.
ApplyInsertNoTrailing(lines, place, row) ==
  LET at == Least(place, Len(lines))
      Lead == IF at > 0 /\ ~IsBlankAt(lines, at) THEN <<Blank>> ELSE <<>>
  IN  Splice(lines, at, at, Lead \o <<Rendered(row.kind, row.text)>>)

ApplyInsert(lines, place, row) ==
  LET at == Least(place, Len(lines))
      Lead == IF at > 0 /\ ~IsBlankAt(lines, at) THEN <<Blank>> ELSE <<>>
      Trail == IF at < Len(lines) /\ ~IsBlankAt(lines, at + 1)
               THEN <<Blank>> ELSE <<>>
  IN  Splice(lines, at, at, Lead \o <<Rendered(row.kind, row.text)>> \o Trail)

\* From the last place to the first, and at one place the last row first.
InsertOrder(file, blocks, rows) ==
  LET Place(r) == PlaceOf(file, blocks, rows[r])
      numbers == DOMAIN rows
  IN  Sorted(numbers, {p \in numbers \X numbers :
                         \/ Place(p[1]) > Place(p[2])
                         \/ Place(p[1]) = Place(p[2]) /\ p[1] > p[2]})

Inserted(file, blocks, rows) ==
  LET order == InsertOrder(file, blocks, rows)
      lines[n \in 0..Len(order)] ==
        IF n = 0 THEN file
        ELSE ApplyInsert(lines[n - 1], PlaceOf(file, blocks, rows[order[n]]),
                         rows[order[n]])
  IN  lines[Len(order)]

-----------------------------------------------------------------------------
(* What a patch should do.  An outline is what a file says, by block.      *)

Outline(blocks) ==
  [k \in DOMAIN blocks |-> [kind |-> blocks[k].kind,
                            content |-> blocks[k].content]]

\* No two blocks share a line.
OwnLines(blocks) ==
  \A j, k \in DOMAIN blocks : j < k => blocks[j].last < blocks[k].first

\* Blocks have lines of their own and a blank line between them.
Spaced(blocks) ==
  \A j, k \in DOMAIN blocks : j < k => blocks[j].last + 1 < blocks[k].first

ExpectUpdated(blocks, matched, text) ==
  [k \in DOMAIN blocks |->
     IF k \in matched THEN [kind |-> blocks[k].kind, content |-> <<text>>]
     ELSE Outline(blocks)[k]]

ExpectDeleted(blocks, matched) ==
  LET kept == DOMAIN blocks \ matched
      order == Sorted(kept, {p \in kept \X kept : p[1] < p[2]})
  IN  [n \in DOMAIN order |-> Outline(blocks)[order[n]]]

\* The blocks and the rows by their place, each block before the rows that
\* go after it: block k is <<k, 0>>, row r at block k is <<k, r>>.
ExpectInserted(blocks, rows) ==
  LET Place(r) == IF rows[r].after = AtEnd THEN Len(blocks) ELSE rows[r].after
      items == {<<k, 0>> : k \in DOMAIN blocks}
                 \cup {<<Place(r), r>> : r \in DOMAIN rows}
      order == Sorted(items, {p \in items \X items :
                                \/ p[1][1] < p[2][1]
                                \/ p[1][1] = p[2][1] /\ p[1][2] < p[2][2]})
      Says(x) == IF x[2] = 0 THEN Outline(blocks)[x[1]]
                 ELSE [kind |-> rows[x[2]].kind, content |-> <<rows[x[2]].text>>]
  IN  [n \in DOMAIN order |-> Says(order[n])]
=============================================================================
