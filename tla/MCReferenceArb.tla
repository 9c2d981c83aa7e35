--------------------------- MODULE MCReferenceArb ---------------------------
(* Model-checking instance of ReferenceArb.                                *)
EXTENDS ReferenceArb

\* Cheap enough to buy, on the reference, rich enough to sell, at the stop.
MCSpreads == {-2, 0, 2, 3}
=============================================================================
