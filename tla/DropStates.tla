----------------------------- MODULE DropStates -----------------------------
(***************************************************************************)
(* How the lowest zoom level that a feature appears in is chosen, as the    *)
(* features go by in the order of their index: calc_feature_minzoom() and   *)
(* the drop_state it keeps for each zoom level.                             *)
(*                                                                         *)
(* Each zoom level below the base zoom takes one feature out of so many of  *)
(* those that all the zoom levels above it take.  The number is not a whole *)
(* one, so what is left over is carried on to the next feature; it is a     *)
(* double in the code, and here a whole number of Ones.                     *)
(***************************************************************************)
EXTENDS Integers

CONSTANTS
    MaxZoom,        \* maxzoom
    BaseZoom,       \* basezoom
    RateNum,        \* droprate is
    RateDen,        \*   RateNum / RateDen
    Side,           \* 32: the world is 2^Side by 2^Side, and an index has 2 * Side bits
    Density         \* preserve_point_density_threshold, 0 if there is none

Zooms == 0 .. MaxZoom
Index == 0 .. 4^Side - 1

One == RateDen^BaseZoom

\* prep_drop_states()
Interval(i) == IF i < BaseZoom THEN RateNum^(BaseZoom - i) * RateDen^i ELSE 0

ASSUME DropAssumption ==
    /\ {MaxZoom, BaseZoom, Density} \subseteq Nat
    /\ {RateNum, RateDen, Side} \subseteq Nat \ {0}
    /\ MaxZoom <= Side

ASSUME PowerAssumption ==
    /\ {One, 4^Side} \subseteq Nat \ {0}
    /\ \A i \in Zooms : {Interval(i), 2^(Side - i)} \subseteq Nat
    /\ RateNum >= RateDen =>
        \A i \in Zooms : i < BaseZoom =>
            Interval(i) >= One /\ (i < MaxZoom => Interval(i) >= Interval(i + 1))

Fresh == [i \in Zooms |-> [seq |-> 0, previndex |-> 0]]

Lowest(S) == CHOOSE i \in S : \A j \in S : i <= j
Highest(S) == CHOOSE i \in S : \A j \in S : i >= j

\* Wrong: a zoom level takes a feature that the one above it does not.
ByRateAlone(ds) ==
    LET taking == {i \in Zooms : ds[i].seq + One >= 0}
    IN IF taking = {} THEN MaxZoom + 1 ELSE Lowest(taking)

\* The lowest zoom level that takes the next feature, along with all those above.
ByRate(ds) ==
    LET refusing == {i \in Zooms : ds[i].seq + One < 0}
    IN IF refusing = {} THEN 0 ELSE Highest(refusing) + 1

\* Wrong: the levels that refuse the feature count it only once they take one.
CountedWhenTaken(ds, ix) ==
    LET m == ByRate(ds)
    IN [i \in Zooms |-> [seq |-> IF i >= m THEN ds[i].seq + One - Interval(i) ELSE ds[i].seq,
                         previndex |-> ds[i].previndex]]

\* A feature that every level takes leaves previndex as it is.
AfterRate(ds, ix) ==
    LET m == ByRate(ds)
    IN [i \in Zooms |->
        [seq       |-> IF i >= m THEN ds[i].seq + One - Interval(i) ELSE ds[i].seq + One,
         previndex |-> IF i >= m /\ m # 0 THEN ix ELSE ds[i].previndex]]

\* The area of the square whose side is that part of a tile: a number of 2 * Side bits
SquareOf(i) == (2^(Side - i) \div Density) * (2^(Side - i) \div Density)
Threshold(i) == SquareOf(i) % 4^Side

\* The zoom levels that would not take the feature but where it is so far from the one
\* before that they have to
FarAt(ds, ix) ==
    {i \in 0 .. ByRate(ds) - 1 :
        /\ Density > 0 /\ i < MaxZoom
        /\ (ix - ds[i].previndex) % 4^Side > Threshold(i)}

\* calc_feature_minzoom(): what it returns, and what it leaves in the states
FeatureMinzoom(ds, ix) ==
    IF FarAt(ds, ix) = {} THEN ByRate(ds) ELSE Lowest(FarAt(ds, ix))

\* Wrong: the levels below are taken to have the feature too.
AfterFeatureEverywhere(ds, ix) ==
    IF FarAt(ds, ix) = {} THEN AfterRate(ds, ix)
    ELSE [i \in Zooms |-> [AfterRate(ds, ix)[i] EXCEPT !.previndex = ix]]

AfterFeature(ds, ix) ==
    LET m == FeatureMinzoom(ds, ix)
    IN IF FarAt(ds, ix) = {} THEN AfterRate(ds, ix)
       ELSE [i \in Zooms |-> [AfterRate(ds, ix)[i] EXCEPT !.previndex = IF i >= m THEN ix ELSE @]]
=============================================================================
