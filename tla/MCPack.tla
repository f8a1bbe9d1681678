------------------------------- MODULE MCPack -------------------------------
(* Pack instantiated for TLC.  A large content shrinks when it is          *)
(* compressed, a small one and the empty one grow, as short files do.      *)
EXTENDS PackRefinement

MCUncompressedSize ==
    [c \in Contents |-> CASE c = "empty" -> 0 [] c = "small" -> 1 [] c = "large" -> 2]
MCCompressedSize ==
    [c \in Contents |-> CASE c = "empty" -> 1 [] c = "small" -> 2 [] c = "large" -> 1]

(* Bounds: only states of these healths are explored further, and only     *)
(* while the file is this short.                                           *)
CONSTANTS Explored, MaxSize
Bounded == health \in Explored /\ size < MaxSize
=============================================================================
