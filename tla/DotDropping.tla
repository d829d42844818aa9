---------------------------- MODULE DotDropping -----------------------------
(***************************************************************************)
(* The features go by in the order of their index and each gets its minimum *)
(* zoom.  This is what sorting them has to implement, and what the rate and *)
(* the density of the features at each zoom level are stated of.            *)
(***************************************************************************)
EXTENDS DropStates

CONSTANT MaxDots    \* bounds the number of features

VARIABLES
    ds,         \* ds: a drop_state for each zoom level
    at,         \* the index of the latest feature
    taken,      \* how many features have been through, and how many of them each zoom level
                \* took because of its rate, not because of the density
    recent,     \* the index of the latest feature that each zoom level took
    latest      \* the minimum zoom of the latest feature

vars == <<ds, at, taken, recent, latest>>

Init ==
    /\ ds = Fresh
    /\ at = 0
    /\ taken = [all |-> 0, of |-> [i \in Zooms |-> 0]]
    /\ recent = [i \in Zooms |-> 0]
    /\ latest = 0

\* Points, or what is to be dropped as points are
Dot(ix) ==
    LET m == FeatureMinzoom(ds, ix)
    IN /\ taken.all < MaxDots
       /\ ix >= at
       /\ at' = ix
       /\ ds' = AfterFeature(ds, ix)
       /\ taken' = [all |-> taken.all + 1,
                    of |-> [i \in Zooms |-> taken.of[i] + IF i >= ByRate(ds) THEN 1 ELSE 0]]
       /\ recent' = [i \in Zooms |-> IF i >= m THEN ix ELSE recent[i]]
       /\ latest' = m

Next == \E ix \in Index : Dot(ix)

Spec == Init /\ [][Next]_vars
-----------------------------------------------------------------------------
TypeOK ==
    /\ ds \in [Zooms -> [seq : Int, previndex : Index]]
    /\ at \in Index
    /\ taken \in [all : Nat, of : [Zooms -> Nat]]
    /\ recent \in [Zooms -> Index]
    /\ latest \in 0 .. MaxZoom + 1

\* A zoom level never takes more of the features for its rate than its share of them,
\* rounded up, whatever it takes besides to keep the density.
NoMoreThanRate ==
    \A i \in Zooms : i < BaseZoom =>
        Interval(i) * taken.of[i] <= taken.all * One + Interval(i)

\* Nor much less than its share, if the drop rate is at least 1: the features that the highest
\* of these zoom levels takes stand for all that have been through, and each of the others is
\* at most one feature of the level above behind that level.  So one that is due to a zoom level
\* waits at most until each of the levels above takes one again.
NoLessThanRate ==
    RateNum >= RateDen =>
        \A i \in Zooms : i < BaseZoom =>
            IF i < MaxZoom /\ i + 1 < BaseZoom
            THEN Interval(i + 1) * taken.of[i + 1] <= Interval(i) * taken.of[i] + Interval(i + 1)
            ELSE taken.all * One <= Interval(i) * taken.of[i]

\* A feature is only left out of a zoom level where one before it is near enough: the zoom
\* levels are nowhere so empty as not to be let (README.md:484).
NowhereSparse ==
    Density > 0 =>
        \A i \in Zooms : i < MaxZoom /\ i < latest => at - recent[i] <= Threshold(i)
=============================================================================
