--------------------------- MODULE JoinedTileset ---------------------------
(***************************************************************************)
(* What tile-join promises of its output: each tile is written once and    *)
(* whole.  It has all the features that the sources have in that tile, and *)
(* otherwise only features that a source with a lower maxzoom has there.   *)
(* In the end no tile of a source is missing but for those that were       *)
(* too big.                                                                *)
(***************************************************************************)
CONSTANTS
    Must(_, _),     \* the features of request's sources in a tile
    May(_, _),      \* those and the ones scaled up from the sources' last zooms
    Wanted(_),      \* the tiles that a request has to write
    Fits(_, _)      \* may a tile with these features be written?

VARIABLES
    request,        \* what is to be joined
    out,            \* a function from the tiles written to their features
    finished

vars == <<request, out, finished>>

Whole(tile, features) ==
    /\ features # {}
    /\ Must(request, tile) \subseteq features
    /\ features \subseteq May(request, tile)
    /\ Fits(request, features)

TooBig(tile) == ~Fits(request, May(request, tile))

Init ==
    /\ out = [tile \in {} |-> {}]
    /\ ~finished

\* Some more tiles are written, and the earlier ones stay as they are.
Write ==
    /\ ~finished
    /\ DOMAIN out \subseteq DOMAIN out'
    /\ \A tile \in DOMAIN out : out'[tile] = out[tile]
    /\ \A tile \in DOMAIN out' \ DOMAIN out : Whole(tile, out'[tile])
    /\ UNCHANGED <<request, finished>>

Finish ==
    /\ ~finished
    /\ \A tile \in Wanted(request) : tile \in DOMAIN out \/ TooBig(tile)
    /\ finished' = TRUE
    /\ UNCHANGED <<request, out>>

Next == Write \/ Finish

Spec == Init /\ [][Next]_vars

=============================================================================
