----------------------------- MODULE MCSpanRing -----------------------------
(* Small instances of SpanRing for TLC. *)
EXTENDS SpanRing, TLC

Symmetry == Permutations(Backends)
=============================================================================
