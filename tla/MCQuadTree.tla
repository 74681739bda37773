---------------------------- MODULE MCQuadTree ----------------------------
(* A region of 8 by 8 that splits twice, for TLC. *)
EXTENDS NearestNeighbors, TLC

\* Inside a small box, on its border, on the centre lines, on the edge, outside.
MCSites == {<<1, 1>>, <<2, 1>>, <<3, 3>>, <<4, 4>>, <<1, 6>>, <<8, 8>>, <<9, 4>>}
MCQueries == {<<1, 1>>, <<3, 4>>, <<6, 7>>, <<0, 9>>}

Symmetric == Permutations(Drivers)
=============================================================================
