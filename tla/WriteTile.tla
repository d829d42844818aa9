------------------------------ MODULE WriteTile ------------------------------
(***************************************************************************)
(* write_tile(): how one tile is made to fit.                               *)
(*                                                                         *)
(* The features of the tile are read from the geometry file, filtered by    *)
(* next_feature(), and kept, dropped, or coalesced onto features kept       *)
(* before them.  If too many features or bytes are left, a threshold is     *)
(* raised or detail is taken away, and the whole tile is read again.  A     *)
(* tile that may truncate the pyramid is first tried with all the detail    *)
(* there can be.                                                           *)
(*                                                                         *)
(* What a feature is like is known only as far as the code's decisions      *)
(* depend on it; geometry and attributes are left out.                      *)
(***************************************************************************)
EXTENDS Integers, Sequences, FiniteSets, FiniteSetsExt

CONSTANTS
    Layers,         \* layer names
    Requests,       \* the tiles to make: see Request
    MaxValue,       \* the greatest gap, extent, drop sequence or attribute of a feature
    MaxGamma,       \* steps by which gamma can be increased before it reaches 10
    EarlyDetail,    \* 30 - z
    Detail,         \* detail
    MinDetail       \* min_detail

\* What next_feature() says of a feature (sf.dropped): 1, 2, ... number the
\* features that are kept only to be part of the cluster of the one kept before.
Kept    == 0        \* FEATURE_KEPT
Dropped == -1       \* FEATURE_DROPPED
Added   == -2       \* FEATURE_ADDED_FOR_MULTIPLIER_DENSITY

\* A feature as it matters here.  show: "now", "later" (its tippecanoe_minzoom is
\* deeper), "last" (it is not for deeper zooms), "filtered" (the filter rejects it
\* at this zoom).  rate, from its feature_minzoom: "exempt" and "kept" are kept,
\* "extra" only in a cluster, "sparse" for the density of clusters, or "drop".
\* value is its gap, extent, drop sequence or attribute, 0 for no attribute.
\*
\* shows is what comes of its geometry: "shape"; "blank", of which simplification and
\* cleaning leave nothing; "clipped", a point of which clipping has left nothing;
\* "dust", which may be too small to keep, depending on the detail and on the dust
\* that was there before; "unanchored", a polygon that is to be a label point and may
\* be too small for one or have none of its anchors in this tile.
Vanishing == {"clipped", "dust", "unanchored"}
Feature == [layer : Layers, type : {"point", "line"},
            show : {"now", "later", "last", "filtered"},
            rate : {"exempt", "kept", "extra", "sparse", "drop"},
            value : 0 .. MaxValue, size : Nat,
            shows : {"shape", "blank"} \cup Vanishing]

\* The options that write_tile() looks at.
Options ==
    [strategy    : {"none", "densest", "smallest", "fraction", "attribute"}, \* as needed
     coalesces   : BOOLEAN,     \* coalesce or cluster, rather than drop, as needed
     dynamicDrop : BOOLEAN,     \* prevent[P_DYNAMIC_DROP]: drop from this tile only
     usesGamma   : BOOLEAN,     \* additional[A_INCREASE_GAMMA_AS_NEEDED]
     canTruncate : BOOLEAN,     \* additional[A_VARIABLE_DEPTH_PYRAMID]
     prefilter   : BOOLEAN,     \* whether there is a prefilter
     clusterHere : BOOLEAN,     \* z <= cluster_maxzoom && cluster_distance != 0
     averages    : {"no", "here", "deeper"},    \* additional[A_CLUSTER_DENSEST_AS_NEEDED],
                                                \* z <= cluster_maxzoom, or deeper
     multiplier  : Nat \ {0},   \* retain_points_multiplier
     maxFeatures : Nat,         \* max_tile_features
     maxBytes    : Nat,         \* max_tile_size
     tileLimit   : Nat]         \* limit_tile_feature_count, or 0

\* A tile to make: the thresholds that the pass over the zoom begins with, and
\* those that the thread has reported for other tiles.
Thresholds == [m : Nat, gamma : 0 .. MaxGamma]
Request ==
    [options : Options, features : Seq(Feature), start : Thresholds, reported : Thresholds]

ASSUME RequestAssumption ==
    /\ Layers # {} /\ IsFiniteSet(Layers)
    /\ Requests \subseteq Request
    /\ \A r \in Requests :
         /\ r.reported.m >= r.start.m /\ r.reported.gamma >= r.start.gamma
         /\ r.options.dynamicDrop => r.options.strategy = "fraction" /\ ~r.options.coalesces
         /\ r.options.averages # "no" => r.options.strategy = "densest" /\ r.options.coalesces
         /\ r.options.averages = "deeper" => ~r.options.clusterHere

ASSUME LimitAssumption ==
    /\ MaxValue \in Nat /\ MaxGamma \in Nat
    /\ EarlyDetail \in Nat /\ Detail \in Nat /\ MinDetail \in Nat \ {0}
-----------------------------------------------------------------------------
VARIABLES
    request,    \* what write_tile() is asked for
    tile,       \* whether it is tried with full detail first, and writes its children
    try,        \* line_detail, gamma, the dropping threshold, first_time
    read,       \* the locals of one reading of the tile
    canStop,    \* can_stop_early
    out,        \* gamma_out, the threshold's _out and still_dropping in write_tile_args
    children,   \* the features that rewrite() has written for the next zoom
    outcome     \* "reading" until write_tile() is done

vars == <<request, tile, try, read, canStop, out, children, outcome>>

options == request.options

FreshRead ==
    [pos |-> 1, lead |-> {}, other |-> {}, byRate |-> {}, asNeeded |-> {},
     skipped |-> 0, tooManyFeatures |-> FALSE, tooManyBytes |-> FALSE,
     dropRest |-> FALSE, pending |-> FALSE, area |-> 0, vals |-> {},
     count |-> [l \in Layers |-> -1],       \* multiplier_state, -1 before the first feature
     cluster |-> [l \in Layers |-> 0]]      \* multiplier_cluster_size

Larger(a, b) == IF a > b THEN a ELSE b

\* dropping_features() is false, and the complexity estimate lets it try.
MayTryEarly(r) == r.options.canTruncate /\ r.start.m = 0 /\ EarlyDetail > Detail
FirstDetail  == IF tile.early THEN EarlyDetail ELSE Detail
SecondDetail == IF tile.early THEN Detail ELSE Detail - 1
AtEarly == tile.early /\ try.detail = FirstDetail

Init ==
    \E early, writeChildren \in BOOLEAN :
        /\ request \in Requests
        /\ early => MayTryEarly(request)
        /\ tile = [early |-> early, writeChildren |-> writeChildren]
        /\ try = [detail |-> IF early THEN EarlyDetail ELSE Detail,
                  gamma |-> request.start.gamma, m |-> request.start.m, first |-> TRUE]
        /\ read = FreshRead
        /\ canStop = TRUE
        /\ out = [gamma |-> request.reported.gamma, m |-> request.reported.m, still |-> FALSE]
        /\ children = <<>>
        /\ outcome = "reading"
-----------------------------------------------------------------------------
(***************************************************************************)
(* Reading the features                                                    *)
(***************************************************************************)
F(i) == request.features[i]
Reading == outcome = "reading" /\ read.pos <= Len(request.features)
Current == F(read.pos)
InTile == read.lead \cup read.other
OfLayer(l) == {i \in InTile : F(i).layer = l}

\* Wrong: the features are written for the next zoom whenever the tile is read.
ForNextZoomAgain(f) == tile.writeChildren /\ f.show # "last"

\* rewrite() is called when the tile is first read.
ForNextZoom(f) == try.first /\ tile.writeChildren /\ f.show # "last"

\* next_feature(): which features it skips
Offered(f) == f.show \in {"now", "last"}

\* next_feature(): drop rates and the retain_points_multiplier
Rated(f) ==
    LET n == read.count[f.layer]
    IN IF f.rate \in {"exempt", "kept"} \/ n = -1 THEN Kept
       ELSE IF f.rate = "extra" /\ n + 1 < options.multiplier THEN n + 1
       ELSE IF f.rate = "sparse" THEN Added ELSE Dropped
Counted(f) ==
    [read.count EXCEPT ![f.layer] = IF f.rate # "exempt" /\ Rated(f) >= 0 THEN Rated(f) ELSE @]

\* run_prefilter() and parse_feature() only pass on whether a feature is dropped.
Given(f) == IF options.prefilter /\ Rated(f) # Dropped THEN Kept ELSE Rated(f)

\* Wrong: clusters are never full.
NeverFull(f) == Given(f)

\* The cluster of f may be full, or be dropped together with its lead.
Status(f) ==
    IF Given(f) > 0 /\ read.cluster[f.layer] >= options.multiplier THEN Dropped ELSE Given(f)
Resting(f) == read.dropRest /\ Given(f) # Kept

\* Wrong: attributes may be accumulated onto a feature of another layer.
AlikeAnywhere(f) == {i \in InTile : F(i).type = f.type}

\* find_feature_to_accumulate_onto(): nothing is dropped or coalesced unless there
\* is a feature like it in the tile for its attributes to go to.
Alike(f) == {i \in OfLayer(f.layer) : F(i).type = f.type}

\* The feature is below the threshold, by the measure of the strategy.
HasValue(f) == options.strategy = "attribute" => f.value # 0
Below(f) ==
    /\ try.m # 0 /\ HasValue(f)
    /\ \/ options.strategy \in {"densest", "attribute"} /\ f.value < try.m
       \/ options.strategy = "smallest" /\ f.value + read.area <= try.m
       \/ options.strategy = "fraction" /\ f.value <= try.m

\* Only a feature that leads a cluster can be dropped as needed; where there is
\* clustering by -K nothing else is considered, and --cluster-densest-as-needed
\* considers nothing in zooms deeper than cluster_maxzoom.
Measured(f) == Status(f) = Kept /\ ~options.clusterHere /\ options.averages # "deeper"
Sampled(f) ==
    IF Measured(f) /\ options.strategy # "none" /\ HasValue(f)
    THEN read.vals \cup {f.value} ELSE read.vals

\* Wrong: features are coalesced whether or not there is one to coalesce them onto.
CoalescedOntoAny(f) == Measured(f) /\ options.coalesces /\ Below(f)

DropsByRate(f) == (Status(f) = Dropped \/ Resting(f)) /\ Alike(f) # {}
Coalesced(f) ==
    /\ Measured(f) /\ options.coalesces /\ Below(f)
    /\ \E i \in Alike(f) : options.strategy = "smallest" => F(i).value <= try.m
\* drop_feature_unless_it_can_be_added_to_a_multiplier_cluster()
Unneeded(f)    == Measured(f) /\ ~options.coalesces /\ Below(f)
JoinsCluster(f) == Unneeded(f) /\ Alike(f) # {} /\ read.cluster[f.layer] < options.multiplier
DropsAsNeeded(f) == Unneeded(f) /\ Alike(f) # {} /\ read.cluster[f.layer] >= options.multiplier

Past(f) ==
    [read EXCEPT !.pos = @ + 1, !.count = Counted(f), !.vals = Sampled(f), !.dropRest = Resting(f)]

\* Wrong: the rest of the cluster is left behind.
LostAlone(f) == [Past(f) EXCEPT !.asNeeded = @ \cup {read.pos}]

\* A lead takes the rest of its cluster with it.
Lost(f) == [Past(f) EXCEPT !.asNeeded = @ \cup {read.pos}, !.dropRest = TRUE]

Take(f) ==
    /\ Reading
    /\ children' = IF ForNextZoom(f) THEN Append(children, read.pos) ELSE children
    /\ UNCHANGED <<request, tile, try, out, outcome>>

Hide == LET f == Current IN
    /\ Take(f) /\ ~Offered(f)
    /\ read' = [read EXCEPT !.pos = @ + 1,
                            !.pending = @ \/ (f.show = "later" /\ ~options.prefilter)]
    /\ UNCHANGED canStop

DropByRate == LET f == Current IN
    /\ Take(f) /\ Offered(f) /\ DropsByRate(f)
    /\ read' = [Past(f) EXCEPT !.byRate = @ \cup {read.pos}]
    /\ canStop' = FALSE

\* manage_gap() and cluster_mingap: whether the feature is too near to the last is
\* left open here.
DropByGamma == LET f == Current IN
    /\ Take(f) /\ Offered(f) /\ ~DropsByRate(f)
    /\ Status(f) = Kept /\ try.gamma > 0 /\ Alike(f) # {}
    /\ read' = [Lost(f) EXCEPT !.vals = read.vals]
    /\ canStop' = FALSE

Cluster == LET f == Current IN
    /\ Take(f) /\ Offered(f) /\ ~DropsByRate(f)
    /\ Status(f) = Kept /\ options.clusterHere /\ Alike(f) # {}
    /\ read' = Lost(f)
    /\ canStop' = FALSE

\* --cluster-densest-as-needed does not clear can_stop_early (tile.cpp:2043).
Coalesce == LET f == Current IN
    /\ Take(f) /\ Offered(f) /\ ~DropsByRate(f) /\ Coalesced(f)
    /\ read' = [Lost(f) EXCEPT !.area = @ + f.value]
    /\ canStop' = (canStop /\ options.averages # "no")

DropAsNeeded == LET f == Current IN
    /\ Take(f) /\ Offered(f) /\ ~DropsByRate(f) /\ DropsAsNeeded(f)
    /\ read' = Lost(f)
    /\ canStop' = FALSE

(***************************************************************************)
(* A feature that is not dropped is added to the tile, or skipped when the  *)
(* tile is over its limits anyway, unless nothing is left of it.            *)
(***************************************************************************)
\* The limits allow for the features that are there only as parts of clusters,
\* and the count for those that were skipped.
Inflated(limit) ==
    LET lead == Cardinality(read.lead)
    IN IF lead > 0 THEN (limit * Cardinality(InTile)) \div lead ELSE limit
Estimated(n, skipped) ==
    LET kept == Cardinality(InTile)
    IN IF kept > 0 THEN (n * (skipped + kept)) \div kept ELSE n
SoFar == Estimated(Cardinality(InTile), read.skipped)

BytesFull    == read.tooManyBytes \/ SoFar > Inflated(options.maxBytes)
FeaturesFull == read.tooManyFeatures \/ SoFar > Inflated(options.maxFeatures)

Remains(f) ==
    /\ Take(f) /\ Offered(f)
    /\ ~DropsByRate(f) /\ ~Coalesced(f) /\ ~DropsAsNeeded(f)
    /\ canStop' = (canStop /\ Given(f) = Kept /\ ~Unneeded(f))

\* A polygon that gets no label point here is gone before anything is asked of it,
\* and nothing is remembered of it.
NoAnchor == LET f == Current IN
    /\ Take(f) /\ Offered(f) /\ f.shows = "unanchored"
    /\ read' = [read EXCEPT !.pos = @ + 1, !.count = Counted(f)]
    /\ UNCHANGED canStop

\* What is left of the others is asked for after they have been measured; only what
\* was clipped away ends what has been coalesced, as a feature that is kept does.
Vanish == LET f == Current IN
    /\ Remains(f) /\ f.shows \in {"dust", "clipped"}
    /\ read' = [Past(f) EXCEPT !.area = IF f.shows = "clipped" THEN 0 ELSE @]

SkipRest(f) ==
    /\ BytesFull \/ FeaturesFull
    /\ read' = [Past(f) EXCEPT !.area = 0, !.skipped = @ + 1,
                  !.tooManyBytes = BytesFull, !.tooManyFeatures = @ \/ ~BytesFull]

Skip == LET f == Current IN Remains(f) /\ f.shows # "clipped" /\ SkipRest(f)

FinalStatus(f) ==
    IF OfLayer(f.layer) = {} THEN Kept
    ELSE IF JoinsCluster(f) THEN read.cluster[f.layer] + 1
    ELSE Status(f)

KeepIt(f) ==
    LET r == [Past(f) EXCEPT !.area = 0]
        i == read.pos
    IN \/ /\ FinalStatus(f) = Kept
          /\ read' = [r EXCEPT !.lead = @ \cup {i}, !.cluster[f.layer] = 1]
       \/ /\ FinalStatus(f) = Added
          /\ read' = [r EXCEPT !.other = @ \cup {i}]
       \/ /\ FinalStatus(f) \notin {Kept, Added}
          /\ read' = [r EXCEPT !.other = @ \cup {i}, !.cluster[f.layer] = @ + 1]

Keep == LET f == Current IN
    Remains(f) /\ f.shows # "clipped" /\ ~BytesFull /\ ~FeaturesFull /\ KeepIt(f)
(***************************************************************************)
(* When the features have been read                                        *)
(***************************************************************************)
Finished == outcome = "reading" /\ read.pos > Len(request.features)

\* The features with any geometry left are cut down to the limit in each layer;
\* if that happens in any layer, what was skipped does not matter any more.
Visible(l)   == {i \in OfLayer(l) : F(i).shows # "blank"}
Truncated(l) == options.tileLimit > 0 /\ Cardinality(Visible(l)) > options.tileLimit
Shown(l) ==
    IF Truncated(l)
    THEN {i \in Visible(l) : Cardinality({j \in Visible(l) : j < i}) < options.tileLimit}
    ELSE Visible(l)
ShownFeatures == UNION {Shown(l) : l \in Layers}
Cut     == \E l \in Layers : Truncated(l)
Skipped == IF Cut THEN 0 ELSE read.skipped

Count == Cardinality(ShownFeatures)
Bytes == MapThenSumSet(LAMBDA i : F(i).size * (1 + try.detail - MinDetail), ShownFeatures)

TooManyFeatures ==
    (read.tooManyFeatures /\ ~Cut) \/ Estimated(Count, Skipped) > Inflated(options.maxFeatures)
TooManyBytes ==
    (read.tooManyBytes /\ ~Cut) \/ Estimated(Bytes, Skipped) > Inflated(options.maxBytes)
TooBig == Count > 0 /\ (TooManyFeatures \/ TooManyBytes)

\* Wrong: a feature that waits for a deeper zoom is forgotten.
NoGoodToday == AtEarly /\ (~canStop \/ Cut \/ TooBig)

\* The first try with extra detail only counts if it has everything.
NoGoodEarly == AtEarly /\ (~canStop \/ Cut \/ read.pending \/ TooBig)

\* The tile is read again, with less detail or with something raised.
Lower(d)   == IF d = FirstDetail THEN SecondDetail ELSE d - 1
Allowed(d) == d >= MinDetail \/ d = Detail
Again(t) ==
    /\ try' = [t EXCEPT !.first = FALSE]
    /\ read' = FreshRead
    /\ canStop' = (canStop /\ ~Cut)
    /\ UNCHANGED <<request, tile, children, outcome>>
End(result) ==
    /\ outcome' = result
    /\ canStop' = (canStop /\ ~Cut)
    /\ UNCHANGED <<request, tile, try, read, out, children>>

TryLowerDetail ==
    \/ Allowed(Lower(try.detail)) /\ Again([try EXCEPT !.detail = Lower(@)]) /\ UNCHANGED out
    \/ ~Allowed(Lower(try.detail)) /\ End("failed")

GiveUpEarly == Finished /\ NoGoodEarly /\ TryLowerDetail

TooBigNow == Finished /\ ~NoGoodEarly /\ TooBig

MoreGamma == options.usesGamma /\ try.gamma < MaxGamma
RaiseGamma ==
    /\ TooBigNow /\ MoreGamma
    /\ Again([try EXCEPT !.gamma = @ + 1])
    /\ out' = IF try.gamma + 1 > out.gamma
              THEN [out EXCEPT !.gamma = try.gamma + 1, !.still = TRUE]
              ELSE out

LayersSeen == {F(i).layer : i \in {j \in 1 .. Len(request.features) : Offered(F(j))}}
HasStrategy ==
    \/ options.strategy \in {"densest", "smallest", "attribute"}
    \/ options.strategy = "fraction" /\ Count > Cardinality(LayersSeen)

\* choose_mingap() and the others: some threshold that a feature is at and that is
\* above the existing one.  Which of them, by the fraction to be kept, is left open.
Top == MaxValue + 1
Candidates == IF read.vals = {} /\ options.strategy = "fraction" THEN {Top} ELSE read.vals

\* Wrong: the same threshold may be chosen again.
NotLess(v) == v >= try.m

Greater(v) == v > try.m

\* Wrong: what another tile has reported is lost.
RaisedAnyway(v) == [out EXCEPT !.m = IF options.dynamicDrop THEN @ ELSE v, !.still = TRUE]

RaisedOut(v) ==
    IF v > out.m
    THEN [out EXCEPT !.m = IF options.dynamicDrop THEN @ ELSE v, !.still = TRUE]
    ELSE out

RaiseThreshold ==
    /\ TooBigNow /\ ~MoreGamma /\ HasStrategy
    /\ \E v \in Candidates :
        /\ Greater(v)
        /\ Again([try EXCEPT !.m = v])
        /\ out' = RaisedOut(v)

\* "Can't increase ... threshold further": exit(EXIT_INCOMPLETE)
GiveUp ==
    /\ TooBigNow /\ ~MoreGamma /\ HasStrategy
    /\ ~\E v \in Candidates : Greater(v)
    /\ Candidates # {} \/ options.strategy = "attribute"
    /\ End("incomplete")

\* choose_mingap() and choose_minextent() look into an empty list.
ChooseFromNothing ==
    /\ TooBigNow /\ ~MoreGamma /\ HasStrategy
    /\ Candidates = {} /\ options.strategy # "attribute"
    /\ End("undefined")

\* "Try using --drop-fraction-as-needed or --drop-densest-as-needed."
Fail ==
    /\ TooBigNow /\ ~MoreGamma /\ ~HasStrategy /\ TooManyFeatures
    /\ End("failed")

ReduceDetail ==
    /\ TooBigNow /\ ~MoreGamma /\ ~HasStrategy /\ ~TooManyFeatures
    /\ TryLowerDetail

\* Written, and perhaps the children need not be; or "Can't happen: writing tile
\* even though we skipped".
Write ==
    /\ Finished /\ ~NoGoodEarly /\ ~TooBig /\ Count > 0
    /\ End(IF Skipped > 0 THEN "impossible" ELSE IF AtEarly THEN "leaf" ELSE "written")

Blank ==
    /\ Finished /\ ~NoGoodEarly /\ Count = 0
    /\ End("empty")

Over == outcome # "reading" /\ UNCHANGED vars

Next ==
    \/ Hide \/ DropByRate \/ DropByGamma \/ Cluster \/ Coalesce \/ DropAsNeeded
    \/ NoAnchor \/ Vanish \/ Skip \/ Keep
    \/ GiveUpEarly \/ RaiseGamma \/ RaiseThreshold \/ GiveUp \/ ChooseFromNothing
    \/ Fail \/ ReduceDetail \/ Write \/ Blank
    \/ Over

Spec == Init /\ [][Next]_vars
FairSpec == Spec /\ WF_vars(Next)
-----------------------------------------------------------------------------
(***************************************************************************)
(* Correctness                                                             *)
(***************************************************************************)
Positions == 1 .. Len(request.features)
ReadType ==
    [pos : Nat \ {0}, lead : SUBSET Positions, other : SUBSET Positions,
     byRate : SUBSET Positions, asNeeded : SUBSET Positions,
     skipped : Nat, tooManyFeatures : BOOLEAN, tooManyBytes : BOOLEAN,
     dropRest : BOOLEAN, pending : BOOLEAN, area : Nat, vals : SUBSET Nat,
     count : [Layers -> Nat \cup {-1}], cluster : [Layers -> Nat]]

\* Every variable has its type.
TypeOK ==
    /\ request \in Request
    /\ tile \in [early : BOOLEAN, writeChildren : BOOLEAN]
    /\ try \in [detail : Nat, gamma : 0 .. MaxGamma, m : Nat, first : BOOLEAN]
    /\ read \in ReadType
    /\ canStop \in BOOLEAN
    /\ out \in [gamma : 0 .. MaxGamma, m : Nat, still : BOOLEAN]
    /\ children \in Seq(Positions)
    /\ outcome \in {"reading", "written", "leaf", "empty", "failed", "incomplete",
                    "undefined", "impossible"}

Stored == outcome \in {"written", "leaf"}
AllOffered == {i \in Positions : Offered(F(i))}

\* However often the tile is read, each of its features that is for deeper zooms is
\* written for the next zoom once, in the order of the file.
ChildrenOnce ==
    outcome # "reading" =>
        /\ \A k, l \in DOMAIN children : k < l => children[k] < children[l]
        /\ {children[k] : k \in DOMAIN children} =
               {i \in Positions : tile.writeChildren /\ F(i).show # "last"}

\* A tile that is stored was read to the end within the limits, which is what "Can't
\* happen: writing tile even though we skipped" is about: every feature offered was
\* taken into it, or its attributes went to one like it in the same layer that was, or
\* nothing was left of it (tile.cpp:1917, 2166, 2176, 2184); unless a layer was cut
\* down to the limit, whatever was skipped in another (tile.cpp:2605).
Accounted ==
    /\ outcome # "impossible"
    /\ Stored /\ ~Cut => \A i \in AllOffered :
        \/ i \in InTile \/ F(i).shows \in Vanishing
        \/ /\ i \in read.byRate \cup read.asNeeded
           /\ \E j \in InTile : j < i /\ F(j).layer = F(i).layer /\ F(j).type = F(i).type

\* A tile that truncates the pyramid was made of all the features that deeper zooms
\* would be, except those that
\*   - the filter rejects here (tile.cpp:1277);
\*   - are clipped away, or dust with all the detail there is, and so at any zoom;
\*   - have no label point here, although a deeper zoom may have one, as that does not
\*     clear can_stop_early (tile.cpp:1930, where label points are nearer each other);
\*   - wait for a deeper zoom in spite of tile.cpp:1221, where there is a prefilter,
\*     which keeps that to itself (tile.cpp:1382).
LeafSuffices ==
    outcome = "leaf" =>
        \A i \in Positions :
            \/ F(i).show \in {"last", "filtered"} \/ F(i).shows \in Vanishing
            \/ F(i).show = "later" /\ options.prefilter
            \/ i \in InTile

\* The thresholds that the tile was made with are reported, so that the zoom is
\* done over with them, unless it began with them or they were reported already;
\* and nothing is reported that the tile did not come to.
Reported ==
    /\ out.gamma = Larger(request.reported.gamma, try.gamma)
    /\ ~options.dynamicDrop => out.m = Larger(request.reported.m, try.m)
    /\ out.still <=> try.gamma > request.reported.gamma \/ try.m > request.reported.m

\* Features are kept in clusters no larger than the multiplier: between two leads of
\* a layer are fewer than that that are like the first.
Followers(l, i) ==
    {j \in read.other : /\ j > i /\ F(j).layer = l /\ F(j).type = F(i).type
                        /\ F(j).rate # "sparse"
                        /\ ~\E k \in read.lead : k > i /\ k < j /\ F(k).layer = l}
ClusterBound ==
    \A i \in read.lead : Cardinality(Followers(F(i).layer, i)) < options.multiplier

\* tile.cpp, write_tile: if the first of a cluster is dropped, "it drags the whole
\* cluster down with it", as far as what follows is of its type.  The lead of a
\* cluster is the last feature before that the drop rate keeps.  A feature of another
\* layer in between may put an end to that, as drop_rest is not kept for each layer
\* (tile.cpp:1949); a prefilter forgets what is a lead (tile.cpp:1385).
LeadOf(i, j) ==
    /\ j < i /\ F(j).layer = F(i).layer /\ F(j).type = F(i).type /\ F(j).rate = "kept"
    /\ \A k \in j + 1 .. i - 1 : F(k).layer = F(i).layer /\ F(k).rate = "extra"
ClusterDragged ==
    ~options.prefilter =>
        \A i \in read.other : \A j \in AllOffered :
            F(i).rate = "extra" /\ LeadOf(i, j) => j \notin read.asNeeded

\* The clusters of --retain-points-multiplier stay whole, or go, whatever else is
\* dropped between their features.
ClustersKept == TypeOK /\ ClusterBound /\ ClusterDragged

\* Whatever is dropped and coalesced as needed, and from whatever thresholds, a
\* tile comes out empty only if little or nothing is left of the shape of some feature.
NeverEmptied ==
    outcome = "empty" /\ AllOffered # {} => \E i \in AllOffered : F(i).shows # "shape"

\* The tile is made, or given up, in the end.
Terminates == <>(outcome # "reading")
=============================================================================
