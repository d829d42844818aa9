---------------------------- MODULE MCTileStore ----------------------------
(* Instances of TileStore. *)
EXTENDS TileStore

CONSTANTS Sea, Land

\* A tile of zoom 0; one of zoom 1; and at zoom 2 four that follow each other on the curve,
\* and the one at its end.
MCTiles ==
    {<<0, 0, 0>>, TileOf(1), TileOf(5), TileOf(6), TileOf(7), TileOf(8), TileOf(20)}

\* Nothing, or the tileset of an earlier call.
MCEarlier ==
    {[t \in {} |-> t], [t \in {<<0, 0, 0>>, TileOf(6)} |-> Sea]}

=============================================================================
