--------------------------- MODULE MCHestiaCache ---------------------------
(* HestiaCache for TLC: one domain with two cached reads, and the list of  *)
(* domains, whose key names no domain.                                     *)
EXTENDS HestiaCache, TLC

CONSTANTS boxes, aliases, domains, d1

MCDomainOf == [k \in Keys |-> IF k = domains THEN NoDomain ELSE d1]
MCSymmetry == Permutations(Readers) \cup Permutations(Writers)
=============================================================================
