----------------------------- MODULE MCTileJoin -----------------------------
(* Instances of TileJoin. *)
EXTENDS TileJoin

TilesOf(points, zooms) == UNION {{Ancestor(c, z) : c \in points} : z \in zooms}

Tileset(points, zooms, dropped, listed) ==
    [tiles |-> TilesOf(points, zooms), points |-> points, kept |-> points \ dropped,
     listed |-> listed]

NW == <<2, 0, 0>>
W  == <<2, 0, 1>>
SW == <<2, 0, 3>>
NE == <<2, 3, 0>>
SE == <<2, 3, 3>>

\* 1: shallow; 2: one zoom deeper, in the east only, and a filter drops a feature; 3: deep,
\* in the west only; 4: deep, in a directory, with a feature filtered out; 5: deep, without
\* a tile of zoom 1; 6: tiles with several features, in a directory; 7: empty.
MCCatalogue ==
    << Tileset({NW, SE}, {0}, {}, FALSE),
       Tileset({SE, NE}, {0, 1}, {SE}, FALSE),
       Tileset({NW, SW}, {0, 1, 2}, {}, FALSE),
       Tileset({NW, SE}, {1, 2}, {NW}, TRUE),
       Tileset({W, SE}, {0, 2}, {}, FALSE),
       Tileset({NW, W, SW, SE}, {0, 1}, {}, TRUE),
       Tileset({}, {0}, {}, FALSE) >>

\* One tileset, two in either order, or three in order.
ArgLists ==
    {<<a>> : a \in 1..7}
    \cup {p \in (1..7) \X (1..7) : p[1] # p[2]}
    \cup {p \in (1..7) \X (1..7) \X (1..7) : p[1] < p[2] /\ p[2] < p[3]}

MCRequests ==
    {q \in [args : ArgLists, overzoom : BOOLEAN, minzoom : {0, 1}, maxzoom : {1, 2},
            limited : BOOLEAN] : q.limited => q.minzoom = 0}

=============================================================================
