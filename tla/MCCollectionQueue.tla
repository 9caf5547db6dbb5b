------------------------- MODULE MCCollectionQueue -------------------------
(* CollectionQueue for TLC: the bounds are given in the configurations. *)
EXTENDS CollectionQueue

=============================================================================
