--------------------------- MODULE MCTilePyramid ---------------------------
(***************************************************************************)
(* Instances of TilePyramid for TLC.                                       *)
(***************************************************************************)
EXTENDS TilePyramid

CONSTANTS
    MostNeed,   \* the greatest need of a tile
    SomeBlank   \* whether a tile may also turn out to draw nothing

\* Two neighbouring branches, each one tile wide, below the root.
MCRoot == <<0, 0, 0>>
MCData ==
    {MCRoot}
    \cup {<<k, 0, 0>> : k \in 1 .. ZoomLimit}
    \cup {<<k, 2^(k - 1), 2^(k - 1)>> : k \in 1 .. ZoomLimit}

\* Every combination of needs below the root; a tile below MinZoom draws nothing.
MCNeeds ==
    {f \in [MCData -> -1 .. MostNeed] : \A t \in MCData :
        IF t[1] < MinZoom THEN f[t] = -1
        ELSE IF t = MCRoot THEN f[t] = 0
        ELSE f[t] >= 0 \/ SomeBlank}
=============================================================================
