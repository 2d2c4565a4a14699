---------------------------- MODULE MCPriceCache ----------------------------
(* PriceCache with two request goroutines. *)
EXTENDS PriceCache, TLC

Symmetry == Permutations(Callers)

=============================================================================
