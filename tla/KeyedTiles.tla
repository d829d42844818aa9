----------------------------- MODULE KeyedTiles -----------------------------
(***************************************************************************)
(* What the rest of tippecanoe takes a tileset for: a function from the    *)
(* tiles that have been written to their contents.  A tile is written once *)
(* at most, unless its whole zoom level is erased.                         *)
(***************************************************************************)
CONSTANTS Tiles, Contents

VARIABLE tiles

Init == \E written \in SUBSET Tiles : tiles \in [written -> Contents]

Write(t, c) ==
    /\ t \notin DOMAIN tiles
    /\ tiles' = [u \in DOMAIN tiles \cup {t} |-> IF u = t THEN c ELSE tiles[u]]

Erase(z) == tiles' = [t \in {u \in DOMAIN tiles : u[1] # z} |-> tiles[t]]

Next ==
    \/ \E t \in Tiles, c \in Contents : Write(t, c)
    \/ \E t \in Tiles : Erase(t[1])

Spec == Init /\ [][Next]_tiles

=============================================================================
