----------------------------- MODULE MCRuleFeed -----------------------------
(* Small instances of RuleFeed for TLC. *)
EXTENDS RuleFeed, TLC

CONSTANTS w1, w2, s1, empty, old, mid, new

\* 2026.9 < 2026.9.1 < 2026.10
MCVersion == (empty :> Unversioned) @@ (old :> <<26, 9>>) @@ (mid :> <<26, 9, 1>>) @@ (new :> <<26, 10>>)

\* The pair of an earlier release left beside the executable.
MCBeside == [doc |-> mid, sig |-> mid]

Symmetry == Permutations(Writers)
=============================================================================
