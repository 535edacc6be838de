---------------------------- MODULE SectionIndex ----------------------------
(***************************************************************************)
(* build_blocks (src/index.rs): the flat list of nodes of a Markdown file  *)
(* becomes a list of blocks whose pre and post numbers encode the section  *)
(* hierarchy.  Phase 1 finds the enclosing heading of each node with a     *)
(* stack of open sections, phase 2 numbers the tree depth first, phase 3   *)
(* keeps the nodes that are blocks.  Block::contains, next_sibling and     *)
(* first_child then read the hierarchy off the numbers.                    *)
(***************************************************************************)
EXTENDS Integers, Sequences

CONSTANTS
  Slugs,     \* what headings are called
  Types,     \* the names of the block types other than headings
  NoName,    \* the name of a frontmatter or of a skipped node
  MaxDepth,  \* the deepest heading level
  MaxNodes   \* bound: the nodes of a document

ASSUME SizesAreNatural == MaxDepth \in Nat \ {0} /\ MaxNodes \in Nat

VARIABLES
  nodes,     \* the document
  phase,     \* "sections", "numbers", "blocks", "done"
  added,     \* the nodes that have a slot in the tree
  children,  \* of each slot, in order; slot 0 is the root, slot i is node i
  open,      \* the stack of phase 1
  dfs,       \* the stack of phase 2: slots and how many children are entered
  last,      \* history: the slot entered last
  pre, post, \* the numbers, by slot
  counter,   \* the next number
  built,     \* the nodes that phase 3 has come to
  blocks     \* the result

vars == <<nodes, phase, added, children, open, dfs, last, pre, post, counter,
          built, blocks>>

-----------------------------------------------------------------------------
(* Nodes.  prop is the property "depth" a block gets: its level for a      *)
(* heading, and whatever a frontmatter of that name says (0 for none).     *)
(* The nodes that node_to_parts skips are no blocks, but have a slot.      *)

Heading == [kind : {"heading"}, name : Slugs, prop : 1..MaxDepth]
Frontmatter == [kind : {"yaml"}, name : {NoName}, prop : 0..MaxDepth]
Other == [kind : {"other"}, name : Types, prop : {0}]
Skipped == [kind : {"skipped"}, name : {NoName}, prop : {0}]
Node == Heading \cup Frontmatter \cup Other \cup Skipped

\* The level of a heading, 0 for the root; no other node has one.
IsHeading(s) == s # 0 /\ nodes[s].kind = "heading"
Depth(s) == IF s = 0 THEN 0 ELSE nodes[s].prop

Slots == 0..Len(nodes)

-----------------------------------------------------------------------------
(* Phase 1: the section tree.                                              *)

\* Mutated form: a heading does not close a section of its own level.
LeavesSame(k, d) ==
  /\ Depth(open[k]) <= d
  /\ \A i \in k+1..Len(open) : Depth(open[i]) > d

\* A heading of level d leaves the first k open sections open.
Leaves(k, d) ==
  /\ Depth(open[k]) < d
  /\ \A i \in k+1..Len(open) : Depth(open[i]) >= d

\* The next slot becomes the last child of its parent.
Adopt(parent) ==
  /\ added' = added + 1
  /\ children' = [s \in 0..added + 1 |->
                    IF s = added + 1 THEN <<>>
                    ELSE IF s = parent THEN Append(children[s], added + 1)
                    ELSE children[s]]

AddHeading ==
  /\ phase = "sections" /\ added < Len(nodes)
  /\ IsHeading(added + 1)
  /\ \E k \in 1..Len(open) :
       /\ Leaves(k, Depth(added + 1))
       /\ Adopt(open[k])
       /\ open' = Append(SubSeq(open, 1, k), added + 1)
  /\ UNCHANGED <<nodes, phase, dfs, last, pre, post, counter, built, blocks>>

AddOther ==
  /\ phase = "sections" /\ added < Len(nodes)
  /\ ~IsHeading(added + 1)
  /\ Adopt(open[Len(open)])
  /\ UNCHANGED <<nodes, phase, open, dfs, last, pre, post, counter, built,
                 blocks>>

-----------------------------------------------------------------------------
(* Phase 2: the numbers.                                                   *)

\* The root is entered first.
StartNumbers ==
  /\ phase = "sections" /\ added = Len(nodes)
  /\ phase' = "numbers"
  /\ dfs' = <<[slot |-> 0, next |-> 1]>>
  /\ pre' = [pre EXCEPT ![0] = counter]
  /\ counter' = counter + 1
  /\ UNCHANGED <<nodes, added, children, open, last, post, built, blocks>>

Top == dfs[Len(dfs)]
Advanced == [slot |-> Top.slot, next |-> Top.next + 1]

Enter ==
  /\ phase = "numbers" /\ dfs # <<>>
  /\ Top.next <= Len(children[Top.slot])
  /\ LET child == children[Top.slot][Top.next]
     IN  /\ dfs' = Append([dfs EXCEPT ![Len(dfs)] = Advanced],
                          [slot |-> child, next |-> 1])
         /\ pre' = [pre EXCEPT ![child] = counter]
         /\ last' = child
  /\ counter' = counter + 1
  /\ UNCHANGED <<nodes, phase, added, children, open, post, built, blocks>>

\* Mutated form: leaving a slot does not take a number of its own.
LeaveSameNumber ==
  /\ phase = "numbers" /\ dfs # <<>>
  /\ Top.next > Len(children[Top.slot])
  /\ post' = [post EXCEPT ![Top.slot] = counter]
  /\ dfs' = SubSeq(dfs, 1, Len(dfs) - 1)
  /\ UNCHANGED <<nodes, phase, added, children, open, last, pre, counter,
                 built, blocks>>

Leave ==
  /\ phase = "numbers" /\ dfs # <<>>
  /\ Top.next > Len(children[Top.slot])
  /\ post' = [post EXCEPT ![Top.slot] = counter]
  /\ dfs' = SubSeq(dfs, 1, Len(dfs) - 1)
  /\ counter' = counter + 1
  /\ UNCHANGED <<nodes, phase, added, children, open, last, pre, built,
                 blocks>>

-----------------------------------------------------------------------------
(* Phase 3: the blocks, one per node that is not skipped.                  *)

StartBlocks ==
  /\ phase = "numbers" /\ dfs = <<>>
  /\ phase' = "blocks"
  /\ UNCHANGED <<nodes, added, children, open, dfs, last, pre, post, counter,
                 built, blocks>>

BlockOf(i) == [node |-> i, pre |-> pre[i], post |-> post[i]]

BuildBlock ==
  /\ phase = "blocks" /\ built < Len(nodes)
  /\ nodes[built + 1].kind # "skipped"
  /\ built' = built + 1
  /\ blocks' = Append(blocks, BlockOf(built + 1))
  /\ UNCHANGED <<nodes, phase, added, children, open, dfs, last, pre, post,
                 counter>>

SkipNode ==
  /\ phase = "blocks" /\ built < Len(nodes)
  /\ nodes[built + 1].kind = "skipped"
  /\ built' = built + 1
  /\ UNCHANGED <<nodes, phase, added, children, open, dfs, last, pre, post,
                 counter, blocks>>

Finish ==
  /\ phase = "blocks" /\ built = Len(nodes)
  /\ phase' = "done"
  /\ UNCHANGED <<nodes, added, children, open, dfs, last, pre, post, counter,
                 built, blocks>>

Init ==
  /\ nodes \in UNION {[1..n -> Node] : n \in 0..MaxNodes}
  /\ \A i \in 2..Len(nodes) : nodes[i].kind # "yaml"
  /\ phase = "sections" /\ added = 0
  /\ children = [s \in {0} |-> <<>>]
  /\ open = <<0>>
  /\ dfs = <<>> /\ last = 0
  /\ pre = [s \in Slots |-> 0] /\ post = [s \in Slots |-> 0]
  /\ counter = 0
  /\ built = 0 /\ blocks = <<>>

Next ==
  \/ AddHeading \/ AddOther \/ StartNumbers \/ Enter \/ Leave
  \/ StartBlocks \/ BuildBlock \/ SkipNode \/ Finish

Spec == Init /\ [][Next]_vars

-----------------------------------------------------------------------------
(* What the rest of the program reads off the numbers.                     *)

Contains(a, b) == a.pre < b.pre /\ b.post < a.post

\* Mutated form: the search starts at the end of the section.
NextSiblingsAtPost(b) ==
  {k \in DOMAIN blocks : blocks[k].pre = b.post}

\* next_sibling, first_child: the blocks that such a search can return.
NextSiblings(b) ==
  {k \in DOMAIN blocks : blocks[k].pre = b.post + 1}
FirstChildren(b) ==
  {k \in DOMAIN blocks : blocks[k].pre = b.pre + 1}

-----------------------------------------------------------------------------
(* The section of a heading, as a reader of the Markdown file sees it: the *)
(* nodes up to the next heading that is not deeper.                        *)

Under(a, b) ==
  /\ a < b
  /\ a = 0 \/ IsHeading(a)
  /\ \A c \in a+1..b : IsHeading(c) => Depth(c) > Depth(a)

SameSection(a, b) ==
  \A s \in Slots \ {a, b} : Under(s, a) <=> Under(s, b)

TypeOK ==
  /\ nodes \in Seq(Node)
  /\ phase \in {"sections", "numbers", "blocks", "done"}
  /\ added \in Slots
  /\ children \in [0..added -> Seq(Slots)]
  /\ open \in Seq(Slots)
  /\ dfs \in Seq([slot : Slots, next : Nat \ {0}])
  /\ last \in Slots
  /\ pre \in [Slots -> Nat] /\ post \in [Slots -> Nat]
  /\ counter \in Nat
  /\ built \in Slots
  /\ blocks \in Seq([node : Slots \ {0}, pre : Nat, post : Nat])

\* The interval of a block contains that of another exactly when the other
\* is in its section (build_blocks, Block::contains and is_under).
ContainsIsUnder ==
  phase = "done" =>
    \A i, j \in DOMAIN blocks :
      Contains(blocks[i], blocks[j]) <=> Under(blocks[i].node, blocks[j].node)

\* next_sibling returns a block of the same section with nothing of it in
\* between, and only a skipped node makes it miss one; first_child returns a
\* block right under the given one (the functions of src/document.rs).
NavigationFollowsSections ==
  phase = "done" =>
    \A i \in DOMAIN blocks :
      LET a == blocks[i].node
      IN  /\ \A k \in NextSiblings(blocks[i]) :
               LET b == blocks[k].node
               IN  /\ a < b /\ ~Under(a, b) /\ SameSection(a, b)
                   /\ \A c \in a+1..b-1 : Under(a, c)
          /\ \A k \in FirstChildren(blocks[i]) :
               blocks[k].node = a + 1 /\ Under(a, a + 1)
          /\ \A b \in Slots :
               /\ a < b /\ ~Under(a, b) /\ SameSection(a, b)
               /\ \A c \in a+1..b-1 : Under(a, c)
               /\ nodes[b].kind # "skipped"
               => \E k \in NextSiblings(blocks[i]) : blocks[k].node = b
=============================================================================
