----------------------------- MODULE TileLevels -----------------------------
(***************************************************************************)
(* What a tileset looks like from outside while tippecanoe makes it: it     *)
(* grows by whole zooms, from the shallowest to the deepest.  A zoom that   *)
(* has been published has every tile that draws something, except below     *)
(* tiles of earlier zooms that were made to stand in for their descendants, *)
(* or it has no tile at all; it never has some of them.                     *)
(***************************************************************************)
EXTENDS Integers

CONSTANTS Data, ZoomLimit

VARIABLES
    draws,      \* the tile positions that draw something
    done,       \* the zooms that have been published
    shown,      \* their tiles
    leaves      \* those that stand in for their descendants

Above(t, k) == <<k, t[2] \div 2^(t[1] - k), t[3] \div 2^(t[1] - k)>>
StoodInFor(t) == \E k \in 0 .. t[1] - 1 :
    /\ Above(t, k) \in leaves
    /\ \A i \in k + 1 .. t[1] - 1 : Above(t, i) \notin shown

Init ==
    /\ draws \in SUBSET Data
    /\ done = {} /\ shown = {} /\ leaves = {}

\* Zoom k is published, with the tiles S.
Publish(k, S) ==
    /\ \A i \in done : i < k
    /\ S = {} \/ \A t \in draws \ S : t[1] = k => StoodInFor(t)
    /\ done' = done \cup {k}
    /\ shown' = shown \cup S
    /\ leaves \subseteq leaves' /\ leaves' \subseteq leaves \cup S
    /\ UNCHANGED draws

Next == \E k \in 0 .. ZoomLimit :
            \E S \in SUBSET {t \in draws : t[1] = k} : Publish(k, S)

Spec == Init /\ [][Next]_<<draws, done, shown, leaves>>
=============================================================================
