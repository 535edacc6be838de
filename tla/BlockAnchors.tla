---------------------------- MODULE BlockAnchors ----------------------------
(***************************************************************************)
(* block_anchors (src/sql/rows.rs): the column "anchor" of the table       *)
(* blocks, a location key computed from the blocks that build_blocks       *)
(* returned.  It finds the enclosing headings again, with a stack of its   *)
(* own and from the property "depth" instead of the block type.            *)
(***************************************************************************)
EXTENDS SectionIndex, FiniteSets

CONSTANT Blank  \* the name of a heading without text

VARIABLES
  scopes,   \* the stack: level, path, counted slugs and counted types
  anchors   \* the anchors of the blocks done so far

avars == <<scopes, anchors>>

-----------------------------------------------------------------------------
(* A slug is a text with the numbers it ends with, and a path a sequence   *)
(* of slugs: the code joins them with "-" and "/".  A repeated slug gets   *)
(* its number as one more, which is what "Setup 2" has from the start.     *)

Names == Slugs \cup Types \cup {NoName}

ASSUME NamesAreNumbered ==
  /\ \A s \in Names : /\ s = [text |-> s.text, nums |-> s.nums]
                      /\ s.nums \in Seq(Nat)
  /\ NoName.nums = <<>>

NewScope(depth, path) ==
  [depth |-> depth, path |-> path, children |-> <<>>, types |-> <<>>]

\* Mutated form: a repeated name is not counted on.
NumberOne(counted, name) == 1

\* children and types list what was counted; the next one's number.
Number(counted, name) ==
  Cardinality({i \in DOMAIN counted : counted[i] = name}) + 1

Segment(slug, n) == IF n = 1 THEN slug ELSE [slug EXCEPT !.nums = Append(@, n)]

\* The path of a heading: one without text adds nothing at the root, and
\* what is under it starts at the root again.
Joined(path, segment) ==
  IF path = <<>> /\ segment = Blank THEN <<>> ELSE Append(path, segment)

Block == blocks[Len(anchors) + 1]
Prop == nodes[Block.node].prop
Name == nodes[Block.node].name

Working == phase = "done" /\ Len(anchors) < Len(blocks)

\* Mutated form: a heading does not leave the scope of its own level.
IsLeftSame(k, d) ==
  /\ k = 1 \/ scopes[k].depth <= d
  /\ \A i \in k+1..Len(scopes) : scopes[i].depth > d

\* A block with the property "depth": the root scope is never left.
IsLeft(k, d) ==
  /\ k = 1 \/ scopes[k].depth < d
  /\ \A i \in k+1..Len(scopes) : scopes[i].depth >= d

AnchorHeading ==
  /\ Working /\ Prop > 0
  /\ \E k \in 1..Len(scopes) :
       /\ IsLeft(k, Prop)
       /\ LET path == Joined(scopes[k].path,
                             Segment(Name, Number(scopes[k].children, Name)))
              kept == [SubSeq(scopes, 1, k) EXCEPT
                         ![k].children = Append(@, Name)]
          IN  /\ anchors' = Append(anchors, [path |-> path, nth |-> 0])
              /\ scopes' = Append(kept, NewScope(Prop, path))
  /\ UNCHANGED vars

AnchorOther ==
  /\ Working /\ Prop = 0
  /\ LET k == Len(scopes)
     IN  /\ anchors' = Append(anchors,
                        [path |-> Append(scopes[k].path, Name),
                         nth |-> Number(scopes[k].types, Name)])
         /\ scopes' = [scopes EXCEPT ![k].types = Append(@, Name)]
  /\ UNCHANGED vars

AnchorInit == Init /\ scopes = <<NewScope(0, <<>>)>> /\ anchors = <<>>

AnchorNext ==
  \/ Next /\ UNCHANGED avars
  \/ AnchorHeading
  \/ AnchorOther

AnchorSpec == AnchorInit /\ [][AnchorNext]_<<vars, avars>>

-----------------------------------------------------------------------------
Anchored == phase = "done" /\ Len(anchors) = Len(blocks)

Section(b) == SubSeq(anchors[b].path, 1, Len(anchors[b].path) - 1)

\* Without a frontmatter key "depth", a block's anchor starts with that of
\* the innermost heading whose interval contains it: block_anchors and
\* build_blocks agree on the sections.
AnchorsFollowIntervals ==
  Anchored /\ (\A i \in DOMAIN nodes : nodes[i].kind = "yaml"
                                         => nodes[i].prop = 0) =>
    \A b \in DOMAIN blocks :
      LET around == {a \in DOMAIN blocks : Contains(blocks[a], blocks[b])}
      IN  IF around = {} THEN Section(b) = <<>>
          ELSE \E a \in around :
                 /\ \A c \in around : blocks[c].pre <= blocks[a].pre
                 /\ Section(b) = anchors[a].path

\* A heading without text outside all sections with one: its anchor is
\* empty, and its section has the path of the document.
AnchorsRestart == \E b \in DOMAIN blocks : anchors[b].path = <<>>

\* Anchors are location keys, with two exceptions: a heading whose text looks
\* like the number given to a repeated one may have the anchor of that one,
\* and what is under a heading without text at the root that of a block
\* outside of it (docs/books/src/reference/sql-schema.md names neither).
AnchorsIdentify ==
  /\ Anchored /\ ~AnchorsRestart
  /\ \A i \in DOMAIN nodes : IsHeading(i) => nodes[i].name.nums = <<>>
  => \A a, b \in DOMAIN blocks : anchors[a] = anchors[b] => a = b
=============================================================================
