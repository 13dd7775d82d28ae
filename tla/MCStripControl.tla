--------------------------- MODULE MCStripControl ---------------------------
(* Instances of StripControl: every text of at most MaxLen bytes.          *)
EXTENDS StripControl

CONSTANT MaxLen

Texts == UNION {[1..n -> Classes] : n \in 0..MaxLen}
=============================================================================
