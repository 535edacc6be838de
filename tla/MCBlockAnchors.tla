--------------------------- MODULE MCBlockAnchors ---------------------------
(* Instance of BlockAnchors for TLC: a heading text, the same with "2", and *)
(* no text.                                                                 *)
EXTENDS BlockAnchors

Named(text, nums) == [text |-> text, nums |-> nums]
MCBlank == Named("", <<>>)
MCSlugs == {Named("setup", <<>>), Named("setup", <<2>>), MCBlank}
MCTypes == {Named("code", <<>>)}
MCNoName == Named("none", <<>>)
=============================================================================
