------------------------------ MODULE MCDrift ------------------------------
(* Small instances of Drift for TLC. *)
EXTENDS Drift, Sequences, TLC

CONSTANTS r1, r2, clean, clean2, bad, worse, shell, m1, m2, d1, d2, d3, d4, o1, node, skill

\* Two directories with IDs of their own, or one name in two installs.
MCIds     == <<node, skill>>
MCSameId  == <<node, node>>

\* One root that holds both, or one each.
MCOneRoot  == <<1, 1>>
MCOwnRoots == <<1, 2>>

\* "shell" differs from "clean" in a file that is scanned and not hashed.
MCDigest  == (clean :> d1) @@ (clean2 :> d2) @@ (bad :> d3) @@ (worse :> d4) @@ (shell :> d1)
MCOrigin  == (clean :> o1) @@ (clean2 :> NoOrigin) @@ (bad :> o1) @@ (worse :> o1) @@ (shell :> o1)
MCMarks   == (clean :> <<>>) @@ (clean2 :> <<>>) @@ (bad :> <<m1>>) @@ (worse :> <<m1, m2, m1>>)
             @@ (shell :> <<m1>>)

MCNoRules   == {{m1, m2}}
MCRules     == {{}, {m1, m2}}
=============================================================================
