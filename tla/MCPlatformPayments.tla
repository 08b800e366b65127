-------------------------- MODULE MCPlatformPayments -------------------------
(* Attempts and calls are interchangeable; safety may be checked up to it. *)
EXTENDS PlatformPayments, TLC

Symmetry == Permutations(Attempts) \union Permutations(Calls)
=============================================================================
