------------------------------ MODULE MCMemory ------------------------------
(* Small instances of LayeredMemory for TLC. *)
EXTENDS LayeredMemory, TLC

CONSTANTS c1, c2, x, y, z, b1, b2

MCCallers == {c1, c2}
MCIds == {x, y, z}
MCBodies == {b1, b2}

Capture(i, personal, scope, b) ==
    [layer |-> 0, id |-> i, personal |-> personal, scope |-> scope, body |-> b,
     refs |-> {}, relates |-> {}, dated |-> TRUE]

Create(l, i, personal, scope, b, refs, relates) ==
    [layer |-> l, id |-> i, personal |-> personal, scope |-> scope, body |-> b,
     refs |-> refs, relates |-> relates, dated |-> TRUE]

Undated(r) == [r EXCEPT !.dated = FALSE]

\* Two contents and two scopes for one evidence id, an atom that inherits its
\* scope, one that asks for less and says something else, one with the id of its
\* evidence, and a stricter scenario that supersedes.
Assorted ==
    {Capture(x, TRUE, Portable, b1), Capture(x, FALSE, Portable, b2),
     Capture(x, TRUE, Internal, b1),
     Create(1, y, FALSE, Inherit, b1, {x}, {}), Create(1, y, TRUE, Portable, b2, {x}, {}),
     Create(1, x, TRUE, Inherit, b1, {x}, {}),
     Undated(Create(2, z, TRUE, Internal, b1, {y}, {x}))}

Symmetry == Permutations(Callers)
=============================================================================
