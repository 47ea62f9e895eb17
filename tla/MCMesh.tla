------------------------------- MODULE MCMesh -------------------------------
(***************************************************************************)
(* Three nodes.  Two of them know the third, or all are neighbours already *)
(* and two concurrent messages may have left one with lazy links only.     *)
(***************************************************************************)
EXTENDS Mesh

CONSTANTS a, b, c, x

MCBootstrap == {<<b, a>>, <<c, a>>}
MCStarts == {Cold(Bounds(1, 1, {}, 1)), Meshed({}, Bounds(1, 0, {<<a, x>>}, 0)),
             Meshed({{a, b}, {b, c}}, Bounds(0, 0, {<<a, x>>}, 4))}
=============================================================================
