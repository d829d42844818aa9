-------------------------- MODULE WriteTileProofs --------------------------
(***************************************************************************)
(* Proofs about the making of a tile, for tiles of any features and any     *)
(* options: what is reported, what is written for the next zoom, and what   *)
(* becomes of the features, however often the tile is read again.           *)
(*                                                                         *)
(* The argument is about one reading of the tile: what has become of the    *)
(* features that it has passed.  Each reading begins with nothing passed,   *)
(* and only what is found at the end of one that is kept counts.            *)
(***************************************************************************)
EXTENDS WriteTile, FiniteSetTheorems, SequenceTheorems, WellFoundedInduction, TLAPS

Passed == 1 .. read.pos - 1

\* The features in the tile and those that were dropped or coalesced have been passed.
InPassed ==
    /\ read.pos <= Len(request.features) + 1
    /\ InTile \cup read.byRate \cup read.asNeeded \subseteq {i \in Passed : Offered(F(i))}

\* There is a feature in the tile for the attributes of each that was dropped.
Like(i, j) == j < i /\ F(j).layer = F(i).layer /\ F(j).type = F(i).type
DroppedOnto ==
    \A i \in read.byRate \cup read.asNeeded : \E j \in InTile : Like(i, j)

\* Unless features are skipped, those that are offered are in the tile or dropped, or
\* nothing was left of them.
Vanished(i) == F(i).shows \in Vanishing
NoneLost ==
    read.skipped = 0 =>
        \A i \in Passed : Offered(F(i)) =>
            i \in InTile \cup read.byRate \cup read.asNeeded \/ Vanished(i)
SkippedTooMany == read.skipped > 0 => read.tooManyFeatures \/ read.tooManyBytes

\* The first try with extra detail is made with no threshold, so that nothing is
\* coalesced in it.
EarlyTry ==
    tile.early =>
        /\ Detail < EarlyDetail /\ try.detail <= EarlyDetail
        /\ AtEarly => try.m = 0

\* If the tile could be a leaf, nothing is missing that deeper zooms have.
Excused(i) ==
    F(i).show \in {"last", "filtered"} \/ Vanished(i) \/ (F(i).show = "later" /\ options.prefilter)
LeafSoFar ==
    AtEarly /\ canStop /\ ~read.pending /\ read.skipped = 0 =>
        \A i \in Passed : i \in InTile \/ Excused(i)

\* The tile is empty only as long as no feature has been offered, or nothing was left.
EmptySoFar ==
    InTile = {} =>
        /\ ~read.tooManyFeatures /\ ~read.tooManyBytes
        /\ \A i \in Passed : Offered(F(i)) => Vanished(i)

\* Of the last cluster of a layer, the size is known, and is at most the multiplier.
IsLast(l, i) == \A k \in read.lead : F(k).layer = l => k <= i
LastCluster ==
    \A i \in read.lead :
        IsLast(F(i).layer, i) =>
            Cardinality(Followers(F(i).layer, i)) + 1 <= read.cluster[F(i).layer]

\* After a lead has been dropped, what follows is still to be dropped; and a layer
\* with a lead has begun to count.
AfterLead(j) ==
    /\ j \in Passed /\ F(j).rate = "kept"
    /\ \A k \in j + 1 .. read.pos - 1 : F(k).layer = F(j).layer /\ F(k).rate = "extra"
StillResting ==
    ~options.prefilter => \A j \in read.asNeeded : AfterLead(j) => read.dropRest
CountBegun ==
    \A j \in Passed : Offered(F(j)) /\ F(j).rate = "kept" => read.count[F(j).layer] # -1

\* What has been written for the next zoom.
Written == IF try.first THEN Passed ELSE Positions
ChildrenSoFar ==
    /\ \A k, l \in DOMAIN children : k < l => children[k] < children[l]
    /\ {children[k] : k \in DOMAIN children} =
           {i \in Written : tile.writeChildren /\ F(i).show # "last"}

ReadToTheEnd == outcome # "reading" => read.pos = Len(request.features) + 1

\* A threshold that is only for this tile is not reported.
OwnThreshold == options.dynamicDrop => out.m = request.reported.m

IInv ==
    /\ TypeOK /\ InPassed /\ DroppedOnto /\ NoneLost /\ SkippedTooMany /\ EarlyTry /\ LeafSoFar /\ EmptySoFar
    /\ ClusterBound /\ LastCluster /\ ClusterDragged /\ StillResting /\ CountBegun
    /\ ChildrenSoFar /\ ReadToTheEnd /\ OwnThreshold /\ Reported
    /\ LeafSuffices /\ NeverEmptied /\ Accounted

-----------------------------------------------------------------------------
(***************************************************************************)
(* Types                                                                    *)
(***************************************************************************)
LEMMA Types ==
    ASSUME TypeOK
    PROVE  /\ Len(request.features) \in Nat
           /\ \A i \in Positions : F(i) \in Feature
           /\ options \in Options /\ read \in ReadType
           /\ request.start \in Thresholds /\ request.reported \in Thresholds
<1>1. request \in Request
  BY DEF TypeOK
<1>2. request.features \in Seq(Feature) /\ request.options \in Options
      /\ request.start \in Thresholds /\ request.reported \in Thresholds
  BY <1>1 DEF Request
<1>3. Len(request.features) \in Nat /\ \A i \in 1 .. Len(request.features) : F(i) \in Feature
  BY <1>2, LenProperties, ElementOfSeq DEF F
<1> QED
  BY <1>2, <1>3 DEF Positions, options, TypeOK

LEMMA ReadTypes ==
    ASSUME TypeOK
    PROVE  /\ read.pos \in Nat \ {0} /\ read.skipped \in Nat /\ read.area \in Nat
           /\ read.lead \subseteq Positions /\ read.other \subseteq Positions
           /\ read.byRate \subseteq Positions /\ read.asNeeded \subseteq Positions
           /\ read.tooManyFeatures \in BOOLEAN /\ read.tooManyBytes \in BOOLEAN
           /\ read.dropRest \in BOOLEAN /\ read.pending \in BOOLEAN
           /\ read.vals \subseteq Nat
           /\ read.count \in [Layers -> Nat \cup {-1}] /\ read.cluster \in [Layers -> Nat]
           /\ options.multiplier \in Nat \ {0}
BY Types DEF ReadType, Options

LEMMA CurrentTyped ==
    ASSUME TypeOK, Reading
    PROVE  /\ read.pos \in Positions /\ Current = F(read.pos) /\ Current \in Feature
           /\ Current.layer \in Layers /\ Current.value \in Nat
           /\ Current.rate \in {"exempt", "kept", "extra", "sparse", "drop"}
           /\ Current.show \in {"now", "later", "last", "filtered"}
           /\ Current.shows \in {"shape", "blank"} \cup Vanishing
<1>1. read.pos \in Positions /\ Current = F(read.pos)
  BY ReadTypes, Types DEF Reading, Positions, Current
<1>2. Current \in Feature
  BY <1>1, Types
<1> QED
  BY <1>1, <1>2, LimitAssumption DEF Feature

\* What next_feature() says of a feature.
LEMMA RatedTyped ==
    ASSUME TypeOK, Reading
    PROVE  /\ Rated(Current) \in Nat \cup {-1, -2} /\ Given(Current) \in Nat \cup {-1, -2}
           /\ Status(Current) \in Nat \cup {-1, -2}
           /\ Counted(Current) \in [Layers -> Nat \cup {-1}]
           /\ Sampled(Current) \subseteq Nat /\ Resting(Current) \in BOOLEAN
<1>1. /\ Current.layer \in Layers /\ Current.value \in Nat
      /\ read.count \in [Layers -> Nat \cup {-1}] /\ read.vals \subseteq Nat
      /\ read.dropRest \in BOOLEAN
  BY CurrentTyped, ReadTypes
<1>2. Rated(Current) \in Nat \cup {-1, -2}
  <2>1. read.count[Current.layer] \in Nat \cup {-1}
    BY <1>1
  <2> QED
    BY <2>1 DEF Rated, Kept, Added, Dropped
<1>3. Given(Current) \in Nat \cup {-1, -2}
  BY <1>2 DEF Given, Kept
<1>4. Status(Current) \in Nat \cup {-1, -2}
  BY <1>3 DEF Status, Dropped
<1>5. Counted(Current) \in [Layers -> Nat \cup {-1}]
  BY <1>1, <1>2 DEF Counted
<1>6. Sampled(Current) \subseteq Nat
  BY <1>1 DEF Sampled
<1>7. Resting(Current) \in BOOLEAN
  BY <1>1 DEF Resting
<1> QED
  BY <1>2, <1>3, <1>4, <1>5, <1>6, <1>7

\* What is known of the reading when a feature has been passed.
Passes(p, f) ==
    /\ p \in ReadType
    /\ p.pos = read.pos + 1 /\ p.lead = read.lead /\ p.other = read.other
    /\ p.byRate = read.byRate /\ p.asNeeded = read.asNeeded /\ p.skipped = read.skipped
    /\ p.tooManyFeatures = read.tooManyFeatures /\ p.tooManyBytes = read.tooManyBytes
    /\ p.dropRest = Resting(f) /\ p.pending = read.pending /\ p.area = read.area
    /\ p.count = Counted(f) /\ p.cluster = read.cluster /\ p.vals = Sampled(f)

LEMMA PastPasses ==
    ASSUME TypeOK, Reading
    PROVE  Passes(Past(Current), Current)
<1> DEFINE c == Counted(Current)
           v == Sampled(Current)
           d == Resting(Current)
<1>1. /\ read \in ReadType /\ read.pos + 1 \in Nat \ {0}
      /\ c \in [Layers -> Nat \cup {-1}] /\ v \in SUBSET Nat /\ d \in BOOLEAN
  BY Types, ReadTypes, RatedTyped
<1>2. Past(Current) = [read EXCEPT !.pos = read.pos + 1, !.count = c, !.vals = v, !.dropRest = d]
  BY DEF Past
<1> HIDE DEF c, v, d
<1>3. /\ Past(Current) \in ReadType
      /\ Past(Current).pos = read.pos + 1 /\ Past(Current).lead = read.lead
      /\ Past(Current).other = read.other
      /\ Past(Current).byRate = read.byRate /\ Past(Current).asNeeded = read.asNeeded
      /\ Past(Current).skipped = read.skipped
      /\ Past(Current).tooManyFeatures = read.tooManyFeatures
      /\ Past(Current).tooManyBytes = read.tooManyBytes
      /\ Past(Current).dropRest = d /\ Past(Current).pending = read.pending
      /\ Past(Current).area = read.area
      /\ Past(Current).count = c /\ Past(Current).cluster = read.cluster
      /\ Past(Current).vals = v
  BY <1>1, <1>2 DEF ReadType
<1> QED
  BY <1>3 DEF Passes, c, v, d

-----------------------------------------------------------------------------
(***************************************************************************)
(* What a step does to the reading: a feature is hidden, gone (dropped or   *)
(* coalesced), vanished, skipped, or taken into the tile.                   *)
(***************************************************************************)
Onward ==
    /\ Take(Current) /\ canStop' \in BOOLEAN
    /\ read' \in ReadType /\ read'.pos = read.pos + 1

SameTile ==
    /\ read'.lead = read.lead /\ read'.other = read.other /\ read'.cluster = read.cluster
SameDropped == read'.byRate = read.byRate /\ read'.asNeeded = read.asNeeded
SameLimits ==
    /\ read'.skipped = read.skipped /\ read'.tooManyFeatures = read.tooManyFeatures
    /\ read'.tooManyBytes = read.tooManyBytes
SeenNow == read'.count = Counted(Current) /\ read'.pending = read.pending

IsHidden ==
    /\ Onward /\ ~Offered(Current) /\ SameTile /\ SameDropped /\ SameLimits
    /\ read'.dropRest = read.dropRest /\ read'.count = read.count
    /\ read'.pending = (read.pending \/ (Current.show = "later" /\ ~options.prefilter))
    /\ canStop' = canStop

IsGone ==
    /\ Onward /\ Offered(Current) /\ SameTile /\ SameLimits /\ SeenNow
    /\ Alike(Current) # {} /\ (canStop' => try.m # 0)
    /\ \/ /\ read'.byRate = read.byRate \cup {read.pos} /\ read'.asNeeded = read.asNeeded
          /\ read'.dropRest = Resting(Current)
       \/ /\ read'.asNeeded = read.asNeeded \cup {read.pos} /\ read'.byRate = read.byRate
          /\ read'.dropRest = TRUE

IsVanished ==
    /\ Onward /\ Offered(Current) /\ SameTile /\ SameDropped /\ SameLimits /\ SeenNow
    /\ Current.shows \in Vanishing /\ (canStop' => canStop)
    /\ read'.dropRest \in {read.dropRest, Resting(Current)}

IsSkipped ==
    /\ Onward /\ Offered(Current) /\ SameTile /\ SameDropped /\ SeenNow
    /\ BytesFull \/ FeaturesFull
    /\ read'.skipped = read.skipped + 1 /\ (read'.tooManyFeatures \/ read'.tooManyBytes)
    /\ read'.dropRest = Resting(Current)

Leads == 
    /\ read'.lead = read.lead \cup {read.pos} /\ read'.other = read.other
    /\ read'.cluster = [read.cluster EXCEPT ![Current.layer] = 1]
Fills ==
    /\ FinalStatus(Current) = Added
    /\ read'.lead = read.lead /\ read'.other = read.other \cup {read.pos}
    /\ read'.cluster = read.cluster
Follows ==
    /\ FinalStatus(Current) \notin {Kept, Added}
    /\ read'.lead = read.lead /\ read'.other = read.other \cup {read.pos}
    /\ read'.cluster =
           [read.cluster EXCEPT ![Current.layer] = read.cluster[Current.layer] + 1]

IsTaken ==
    /\ Onward /\ Offered(Current) /\ SameDropped /\ SameLimits /\ SeenNow
    /\ ~DropsByRate(Current) /\ (canStop' => canStop)
    /\ read'.dropRest = Resting(Current)
    /\ Leads \/ Fills \/ Follows

LEMMA HideHides ==
    ASSUME TypeOK, Hide
    PROVE  IsHidden
<1> DEFINE p == read.pending \/ (Current.show = "later" /\ ~options.prefilter)
<1>1. Reading /\ Take(Current) /\ ~Offered(Current) /\ canStop' = canStop /\ canStop \in BOOLEAN
  BY DEF Hide, Take, TypeOK
<1>2. read' = [read EXCEPT !.pos = read.pos + 1, !.pending = p]
  BY DEF Hide
<1>3. read \in ReadType /\ read.pos + 1 \in Nat \ {0} /\ p \in BOOLEAN
  BY Types, ReadTypes
<1> HIDE DEF p
<1>4. /\ read' \in ReadType /\ read'.pos = read.pos + 1 /\ read'.pending = p
      /\ SameTile /\ SameDropped /\ SameLimits
      /\ read'.dropRest = read.dropRest /\ read'.count = read.count
  BY <1>2, <1>3 DEF ReadType, SameTile, SameDropped, SameLimits
<1> QED
  BY <1>1, <1>4 DEF IsHidden, Onward, p

\* Dropping a feature and what follows in its cluster.
LEMMA LostEffect ==
    ASSUME TypeOK, Reading, NEW v \in SUBSET Nat, NEW a \in Nat,
           Offered(Current), Alike(Current) # {}, Take(Current),
           canStop' \in BOOLEAN, canStop' => try.m # 0,
           read' = [Lost(Current) EXCEPT !.vals = v, !.area = a]
    PROVE  IsGone
<1> DEFINE p == Past(Current)
<1>1. Passes(p, Current)
  BY PastPasses
<1>2. read' = [p EXCEPT !.asNeeded = p.asNeeded \cup {read.pos}, !.dropRest = TRUE,
                        !.vals = v, !.area = a]
  BY DEF Lost
<1>3. read.pos \in Positions
  BY CurrentTyped
<1> HIDE DEF p
<1>4. p.asNeeded \cup {read.pos} \in SUBSET Positions /\ p \in ReadType
  BY <1>1, <1>3 DEF Passes, ReadType
<1>5. /\ read' \in ReadType /\ read'.pos = p.pos /\ read'.lead = p.lead /\ read'.other = p.other
      /\ read'.byRate = p.byRate /\ read'.asNeeded = p.asNeeded \cup {read.pos}
      /\ read'.skipped = p.skipped /\ read'.tooManyFeatures = p.tooManyFeatures
      /\ read'.tooManyBytes = p.tooManyBytes /\ read'.dropRest = TRUE
      /\ read'.pending = p.pending /\ read'.count = p.count /\ read'.cluster = p.cluster
  BY <1>2, <1>4 DEF ReadType
<1> QED
  BY <1>1, <1>5 DEF IsGone, Onward, Passes, SameTile, SameLimits, SeenNow

LEMMA ByRateEffect ==
    ASSUME TypeOK, DropByRate
    PROVE  IsGone
<1> DEFINE p == Past(Current)
<1>1. /\ Reading /\ Take(Current) /\ Offered(Current) /\ Alike(Current) # {} /\ canStop' = FALSE
      /\ read' = [p EXCEPT !.byRate = p.byRate \cup {read.pos}]
  BY DEF DropByRate, DropsByRate, Take
<1>2. Passes(p, Current)
  BY <1>1, PastPasses
<1>3. read.pos \in Positions
  BY <1>1, CurrentTyped
<1> HIDE DEF p
<1>4. p.byRate \cup {read.pos} \in SUBSET Positions /\ p \in ReadType
  BY <1>2, <1>3 DEF Passes, ReadType
<1>5. /\ read' \in ReadType /\ read'.pos = p.pos /\ read'.lead = p.lead /\ read'.other = p.other
      /\ read'.asNeeded = p.asNeeded /\ read'.byRate = p.byRate \cup {read.pos}
      /\ read'.skipped = p.skipped /\ read'.tooManyFeatures = p.tooManyFeatures
      /\ read'.tooManyBytes = p.tooManyBytes /\ read'.dropRest = p.dropRest
      /\ read'.pending = p.pending /\ read'.count = p.count /\ read'.cluster = p.cluster
  BY <1>1, <1>4 DEF ReadType
<1> QED
  BY <1>1, <1>2, <1>5 DEF IsGone, Onward, Passes, SameTile, SameLimits, SeenNow

LEMMA LostFields ==
    ASSUME TypeOK, Reading
    PROVE  /\ Lost(Current) \in ReadType
           /\ Lost(Current).vals = Sampled(Current) /\ Lost(Current).area = read.area
<1> DEFINE p == Past(Current)
<1>1. Passes(p, Current) /\ read.pos \in Positions
  BY PastPasses, CurrentTyped
<1>2. Lost(Current) = [p EXCEPT !.asNeeded = p.asNeeded \cup {read.pos}, !.dropRest = TRUE]
  BY DEF Lost
<1> HIDE DEF p
<1>3. p.asNeeded \cup {read.pos} \in SUBSET Positions /\ p \in ReadType
  BY <1>1 DEF Passes, ReadType
<1>4. /\ Lost(Current) \in ReadType /\ Lost(Current).vals = p.vals
      /\ Lost(Current).area = p.area
  BY <1>2, <1>3 DEF ReadType
<1> QED
  BY <1>1, <1>4 DEF Passes

LEMMA DropEffect ==
    ASSUME TypeOK, DropByGamma \/ Cluster \/ Coalesce \/ DropAsNeeded
    PROVE  IsGone
<1>1. /\ Reading /\ Take(Current) /\ Offered(Current)
      /\ canStop' \in BOOLEAN /\ (canStop' => try.m # 0)
  <2>1. CASE DropByGamma \/ Cluster \/ DropAsNeeded
    BY <2>1 DEF DropByGamma, Cluster, DropAsNeeded, Take
  <2>2. CASE Coalesce
    BY <2>2 DEF Coalesce, Take, Coalesced, Below, TypeOK
  <2> QED
    BY <2>1, <2>2
<1>2. Alike(Current) # {}
  BY DEF DropByGamma, Cluster, Coalesce, DropAsNeeded, Coalesced, DropsAsNeeded
<1> DEFINE p == Lost(Current)
<1>3. \E v \in SUBSET Nat, a \in Nat : read' = [p EXCEPT !.vals = v, !.area = a]
  <2>1. /\ p \in ReadType /\ p.vals \in SUBSET Nat /\ p.area \in Nat
        /\ read.vals \in SUBSET Nat /\ p.area + Current.value \in Nat
    BY <1>1, LostFields, ReadTypes, RatedTyped, CurrentTyped
  <2>2. \/ read' = [p EXCEPT !.vals = read.vals]
        \/ read' = p
        \/ read' = [p EXCEPT !.area = p.area + Current.value]
    BY DEF DropByGamma, Cluster, Coalesce, DropAsNeeded
  <2> HIDE DEF p
  <2>3. CASE read' = [p EXCEPT !.vals = read.vals]
    <3>1. read' = [p EXCEPT !.vals = read.vals, !.area = p.area]
      BY <2>1, <2>3 DEF ReadType
    <3> QED
      BY <2>1, <3>1
  <2>4. CASE read' = p
    <3>1. read' = [p EXCEPT !.vals = p.vals, !.area = p.area]
      BY <2>1, <2>4 DEF ReadType
    <3> QED
      BY <2>1, <3>1
  <2>5. CASE read' = [p EXCEPT !.area = p.area + Current.value]
    <3>1. read' = [p EXCEPT !.vals = p.vals, !.area = p.area + Current.value]
      BY <2>1, <2>5 DEF ReadType
    <3> QED
      BY <2>1, <3>1
  <2> QED
    BY <2>2, <2>3, <2>4, <2>5
<1> QED
  BY <1>1, <1>2, <1>3, LostEffect

LEMMA NoAnchorEffect ==
    ASSUME TypeOK, NoAnchor
    PROVE  IsVanished
<1> DEFINE c == Counted(Current)
<1>1. /\ Reading /\ Take(Current) /\ Offered(Current) /\ Current.shows \in Vanishing
      /\ canStop' = canStop /\ canStop \in BOOLEAN
  BY DEF NoAnchor, Take, Vanishing, TypeOK
<1>2. read' = [read EXCEPT !.pos = read.pos + 1, !.count = c]
  BY DEF NoAnchor
<1>3. read \in ReadType /\ read.pos + 1 \in Nat \ {0} /\ c \in [Layers -> Nat \cup {-1}]
  BY <1>1, Types, ReadTypes, RatedTyped
<1> HIDE DEF c
<1>4. /\ read' \in ReadType /\ read'.pos = read.pos + 1 /\ read'.count = c
      /\ SameTile /\ SameDropped /\ SameLimits
      /\ read'.dropRest = read.dropRest /\ read'.pending = read.pending
  BY <1>2, <1>3 DEF ReadType, SameTile, SameDropped, SameLimits
<1> QED
  BY <1>1, <1>4 DEF IsVanished, Onward, SeenNow, c

LEMMA VanishEffect ==
    ASSUME TypeOK, Vanish
    PROVE  IsVanished
<1> DEFINE p == Past(Current)
<1>1. /\ Reading /\ Take(Current) /\ Offered(Current) /\ Current.shows \in Vanishing
      /\ canStop' \in BOOLEAN /\ (canStop' => canStop)
  BY DEF Vanish, Remains, Take, Vanishing, TypeOK
<1>2. Passes(p, Current)
  BY <1>1, PastPasses
<1>3. PICK a \in Nat : read' = [p EXCEPT !.area = a]
  <2>1. p.area \in Nat
    BY <1>2, ReadTypes DEF Passes
  <2> QED
    BY <2>1 DEF Vanish
<1> HIDE DEF p
<1>4. /\ read' \in ReadType /\ read'.pos = p.pos /\ read'.lead = p.lead /\ read'.other = p.other
      /\ read'.byRate = p.byRate /\ read'.asNeeded = p.asNeeded
      /\ read'.skipped = p.skipped /\ read'.tooManyFeatures = p.tooManyFeatures
      /\ read'.tooManyBytes = p.tooManyBytes /\ read'.dropRest = p.dropRest
      /\ read'.pending = p.pending /\ read'.count = p.count /\ read'.cluster = p.cluster
  BY <1>2, <1>3 DEF Passes, ReadType
<1> QED
  BY <1>1, <1>2, <1>4
     DEF IsVanished, Onward, Passes, SameTile, SameDropped, SameLimits, SeenNow

LEMMA SkipEffect ==
    ASSUME TypeOK, Skip
    PROVE  IsSkipped
<1> DEFINE p == Past(Current)
           b == BytesFull
           m == p.tooManyFeatures \/ ~BytesFull
<1>1. /\ Reading /\ Take(Current) /\ Offered(Current) /\ (BytesFull \/ FeaturesFull)
      /\ canStop' \in BOOLEAN
      /\ read' = [p EXCEPT !.area = 0, !.skipped = p.skipped + 1,
                           !.tooManyBytes = b, !.tooManyFeatures = m]
  BY DEF Skip, Remains, SkipRest, Take
<1>2. Passes(p, Current)
  BY <1>1, PastPasses
<1>3. b \in BOOLEAN /\ m \in BOOLEAN /\ (b \/ m)
  BY Types, ReadTypes DEF BytesFull
<1> HIDE DEF p, b, m
<1>4. p \in ReadType /\ p.skipped + 1 \in Nat
  BY <1>2 DEF Passes, ReadType
<1>5. /\ read' \in ReadType /\ read'.pos = p.pos /\ read'.lead = p.lead /\ read'.other = p.other
      /\ read'.byRate = p.byRate /\ read'.asNeeded = p.asNeeded
      /\ read'.skipped = p.skipped + 1 /\ read'.tooManyFeatures = m
      /\ read'.tooManyBytes = b /\ read'.dropRest = p.dropRest
      /\ read'.pending = p.pending /\ read'.count = p.count /\ read'.cluster = p.cluster
  BY <1>1, <1>3, <1>4 DEF ReadType
<1> QED
  BY <1>1, <1>2, <1>3, <1>5 DEF IsSkipped, Onward, Passes, SameTile, SameDropped, SeenNow

LEMMA KeepEffect ==
    ASSUME TypeOK, Keep
    PROVE  IsTaken
<1> DEFINE p == Past(Current)
           f == Current
           c == read.cluster[Current.layer]
<1>1. /\ Reading /\ Take(f) /\ Offered(f) /\ ~DropsByRate(f)
      /\ canStop' = (canStop /\ Given(f) = Kept /\ ~Unneeded(f)) /\ KeepIt(f)
  BY DEF Keep, Remains, Take
<1>2. /\ Passes(p, f) /\ read.pos \in Positions /\ f.layer \in Layers
      /\ read.cluster \in [Layers -> Nat] /\ c \in Nat /\ c + 1 \in Nat
  BY <1>1, PastPasses, CurrentTyped, ReadTypes
<1>3. canStop' \in BOOLEAN /\ (canStop' => canStop)
  BY <1>1 DEF TypeOK
<1>4. \/ /\ FinalStatus(f) = Kept
         /\ read' = [p EXCEPT !.area = 0, !.lead = p.lead \cup {read.pos},
                              !.cluster = [p.cluster EXCEPT ![f.layer] = 1]]
      \/ /\ FinalStatus(f) = Added
         /\ read' = [p EXCEPT !.area = 0, !.other = p.other \cup {read.pos}]
      \/ /\ FinalStatus(f) \notin {Kept, Added}
         /\ read' = [p EXCEPT !.area = 0, !.other = p.other \cup {read.pos},
                              !.cluster = [p.cluster EXCEPT ![f.layer] = c + 1]]
  BY <1>1, <1>2 DEF KeepIt, Passes, ReadType
<1> HIDE DEF p, f, c
<1>5. /\ p \in ReadType /\ p.lead \cup {read.pos} \in SUBSET Positions
      /\ p.other \cup {read.pos} \in SUBSET Positions
      /\ [p.cluster EXCEPT ![f.layer] = 1] \in [Layers -> Nat]
      /\ [p.cluster EXCEPT ![f.layer] = c + 1] \in [Layers -> Nat]
  BY <1>2 DEF Passes, ReadType
<1>6. /\ read' \in ReadType /\ read'.pos = p.pos
      /\ read'.byRate = p.byRate /\ read'.asNeeded = p.asNeeded
      /\ read'.skipped = p.skipped /\ read'.tooManyFeatures = p.tooManyFeatures
      /\ read'.tooManyBytes = p.tooManyBytes /\ read'.dropRest = p.dropRest
      /\ read'.pending = p.pending /\ read'.count = p.count
  <2>1. CASE read' = [p EXCEPT !.area = 0, !.lead = p.lead \cup {read.pos},
                               !.cluster = [p.cluster EXCEPT ![f.layer] = 1]]
    BY <1>5, <2>1 DEF ReadType
  <2>2. CASE read' = [p EXCEPT !.area = 0, !.other = p.other \cup {read.pos}]
    BY <1>5, <2>2 DEF ReadType
  <2>3. CASE read' = [p EXCEPT !.area = 0, !.other = p.other \cup {read.pos},
                               !.cluster = [p.cluster EXCEPT ![f.layer] = c + 1]]
    BY <1>5, <2>3 DEF ReadType
  <2> QED
    BY <1>4, <2>1, <2>2, <2>3
<1>7. \/ /\ read'.lead = p.lead \cup {read.pos} /\ read'.other = p.other
         /\ read'.cluster = [p.cluster EXCEPT ![f.layer] = 1]
      \/ /\ FinalStatus(f) = Added
         /\ read'.lead = p.lead /\ read'.other = p.other \cup {read.pos}
         /\ read'.cluster = p.cluster
      \/ /\ FinalStatus(f) \notin {Kept, Added}
         /\ read'.lead = p.lead /\ read'.other = p.other \cup {read.pos}
         /\ read'.cluster = [p.cluster EXCEPT ![f.layer] = c + 1]
  BY <1>4, <1>5 DEF ReadType
<1>8. Leads \/ Fills \/ Follows
  BY <1>2, <1>7 DEF Leads, Fills, Follows, Passes, f, c
<1>9. SameDropped /\ SameLimits /\ SeenNow /\ read'.dropRest = Resting(f)
  BY <1>2, <1>6 DEF SameDropped, SameLimits, SeenNow, Passes, f
<1> QED
  BY <1>1, <1>2, <1>3, <1>6, <1>8, <1>9 DEF IsTaken, Onward, Passes, f

\* Every step that reads a feature is one of the five.
ReadStep ==
    \/ Hide \/ DropByRate \/ DropByGamma \/ Cluster \/ Coalesce \/ DropAsNeeded
    \/ NoAnchor \/ Vanish \/ Skip \/ Keep
Effect == IsHidden \/ IsGone \/ IsVanished \/ IsSkipped \/ IsTaken

LEMMA ReadEffect ==
    ASSUME TypeOK, ReadStep
    PROVE  Effect
BY HideHides, ByRateEffect, DropEffect, NoAnchorEffect, VanishEffect, SkipEffect, KeepEffect
   DEF ReadStep, Effect

LEMMA EffectOnward ==
    ASSUME TypeOK, Effect
    PROVE  /\ Onward /\ Reading /\ outcome = "reading" /\ outcome' = "reading"
           /\ UNCHANGED <<request, tile, try, out>>
           /\ read.pos \in Positions /\ read'.pos = read.pos + 1
           /\ read.pos \in Nat /\ Current = F(read.pos)
<1>1. Onward
  BY DEF Effect, IsHidden, IsGone, IsVanished, IsSkipped, IsTaken
<1>2. Reading /\ outcome' = outcome /\ UNCHANGED <<request, tile, try, out>>
  BY <1>1 DEF Onward, Take
<1> QED
  BY <1>1, <1>2, CurrentTyped, ReadTypes DEF Onward, Reading

\* Only the features that are for deeper zooms are written, when they are first read.
LEMMA ChildrenWritten ==
    ASSUME TypeOK, Effect, InPassed, ChildrenSoFar
    PROVE  children' \in Seq(Positions) /\ ChildrenSoFar'
<1> DEFINE q == read.pos
           n == Len(children)
<1>1. /\ q \in Positions /\ q \in Nat /\ read'.pos = q + 1 /\ Current = F(q)
      /\ request' = request /\ tile' = tile /\ try' = try
      /\ children' = IF ForNextZoom(F(q)) THEN Append(children, q) ELSE children
  BY EffectOnward DEF Onward, Take
<1>2. children \in Seq(Positions) /\ n \in Nat /\ DOMAIN children = 1 .. n
      /\ \A k \in DOMAIN children : children[k] \in Positions
  BY LenProperties, ElementOfSeq DEF TypeOK
<1> DEFINE W(i) == tile.writeChildren /\ F(i).show # "last"
<1>3. /\ \A k, l \in DOMAIN children : k < l => children[k] < children[l]
      /\ {children[k] : k \in DOMAIN children} = {i \in Written : W(i)}
  BY DEF ChildrenSoFar
<1>4. ChildrenSoFar' <=>
         /\ \A k, l \in DOMAIN children' : k < l => children'[k] < children'[l]
         /\ {children'[k] : k \in DOMAIN children'} =
                {i \in IF try.first THEN 1 .. q ELSE Positions : W(i)}
  <2>1. Written' = IF try.first THEN 1 .. q ELSE Positions
    BY <1>1 DEF Written, Passed, Positions
  <2> QED
    BY <1>1, <2>1 DEF ChildrenSoFar, F
<1>5. CASE ForNextZoom(F(q))
  <2>1. /\ children' = Append(children, q) /\ try.first /\ W(q)
    BY <1>1, <1>5 DEF ForNextZoom
  <2>2. /\ children' \in Seq(Positions) /\ DOMAIN children' = 1 .. n + 1
        /\ children'[n + 1] = q /\ \A k \in 1 .. n : children'[k] = children[k]
    <3>1. /\ children' \in Seq(Positions) /\ Len(children') = n + 1
          /\ children'[n + 1] = q /\ \A k \in 1 .. n : children'[k] = children[k]
      BY <1>1, <1>2, <2>1, AppendProperties
    <3> QED
      BY <3>1, LenProperties
  <2>3. \A k \in 1 .. n : children[k] \in 1 .. q - 1
    BY <1>2, <1>3, <2>1 DEF Written, Passed
  <2>4. \A k, l \in DOMAIN children' : k < l => children'[k] < children'[l]
    <3> SUFFICES ASSUME NEW k \in 1 .. n + 1, NEW l \in 1 .. n + 1, k < l
                 PROVE  children'[k] < children'[l]
      BY <2>2
    <3>1. CASE l = n + 1
      BY <1>1, <1>2, <2>2, <2>3, <3>1
    <3>2. CASE l # n + 1
      BY <1>2, <1>3, <2>2, <3>2
    <3> QED
      BY <3>1, <3>2
  <2>5. {children'[k] : k \in DOMAIN children'} = {children[k] : k \in DOMAIN children} \cup {q}
    BY <1>2, <2>2
  <2>6. {i \in 1 .. q : W(i)} = {i \in 1 .. q - 1 : W(i)} \cup {q}
    <3>1. \A i : i \in 1 .. q <=> i \in 1 .. q - 1 \/ i = q
      BY <1>1 DEF Positions
    <3> HIDE DEF W
    <3> QED
      BY <2>1, <3>1
  <2>7. Written = 1 .. q - 1
    BY <2>1 DEF Written, Passed
  <2> QED
    BY <1>3, <1>4, <2>1, <2>2, <2>4, <2>5, <2>6, <2>7
<1>6. CASE ~ForNextZoom(F(q))
  <2>1. children' = children
    BY <1>1, <1>6
  <2>2. try.first => {i \in 1 .. q : W(i)} = {i \in 1 .. q - 1 : W(i)}
    BY <1>1, <1>6 DEF ForNextZoom
  <2> QED
    BY <1>2, <1>3, <1>4, <2>1, <2>2 DEF Written, Passed
<1> QED
  BY <1>5, <1>6

LEMMA EffectTyped ==
    ASSUME TypeOK, Effect, InPassed, ChildrenSoFar
    PROVE  TypeOK'
<1>1. /\ children' \in Seq(Positions) /\ canStop' \in BOOLEAN /\ read' \in ReadType
      /\ UNCHANGED <<request, tile, try, out, outcome>>
  BY ChildrenWritten, EffectOnward DEF Onward, Take
<1> QED
  BY <1>1 DEF TypeOK, ReadType, Positions

-----------------------------------------------------------------------------
(***************************************************************************)
(* What becomes of the features that have been passed.                      *)
(***************************************************************************)
\* The features in the tile and the dropped ones have been passed, and nothing else is
\* passed than the feature that was read.
LEMMA EffectPassed ==
    ASSUME TypeOK, Effect, InPassed
    PROVE  /\ InPassed' /\ Passed' = Passed \cup {read.pos}
           /\ \A i \in InTile \cup read.byRate \cup read.asNeeded :
                i \in Positions /\ i < read.pos /\ Offered(F(i))
<1> DEFINE q == read.pos
<1>1. /\ q \in Positions /\ q \in Nat /\ read'.pos = q + 1 /\ Current = F(q)
      /\ request' = request /\ Len(request.features) \in Nat
      /\ q <= Len(request.features)
  BY EffectOnward, Types DEF Reading
<1>2. Passed' = Passed \cup {q}
  <2>1. Passed' = 1 .. q /\ \A i : i \in 1 .. q <=> i \in 1 .. q - 1 \/ i = q
    BY <1>1 DEF Passed, Positions
  <2> QED
    BY <2>1 DEF Passed
<1>3. \A i \in InTile \cup read.byRate \cup read.asNeeded :
          i \in Passed /\ i \in Positions /\ i < q /\ Offered(F(i))
  BY <1>1, ReadTypes DEF InPassed, Passed, InTile, Positions
<1>4. InTile' \cup read'.byRate \cup read'.asNeeded
          \subseteq InTile \cup read.byRate \cup read.asNeeded
                        \cup (IF Offered(F(q)) THEN {q} ELSE {})
  BY <1>1 DEF Effect, IsHidden, IsGone, IsVanished, IsSkipped, IsTaken, SameTile, SameDropped,
              Leads, Fills, Follows, InTile
<1>5. \A i \in InTile' \cup read'.byRate \cup read'.asNeeded :
          i \in Passed' /\ Offered(F(i))
  BY <1>2, <1>3, <1>4
<1>6. InPassed'
  BY <1>1, <1>5 DEF InPassed, Offered, F
<1> QED
  BY <1>2, <1>3, <1>6

\* What is dropped has been dropped onto a feature in the tile.
LEMMA EffectOnto ==
    ASSUME TypeOK, Effect, InPassed, DroppedOnto
    PROVE  DroppedOnto'
<1> DEFINE q == read.pos
<1>1. /\ q \in Nat /\ Current = F(q) /\ request' = request
      /\ \A i \in InTile : i < q
  BY EffectOnward, EffectPassed
<1>2. \A i \in read.byRate \cup read.asNeeded : \E j \in InTile : Like(i, j)
  BY DEF DroppedOnto
<1>3. \/ InTile' = InTile
      \/ InTile' = InTile \cup {q}
  BY DEF Effect, IsHidden, IsGone, IsVanished, IsSkipped, IsTaken, SameTile, Leads, Fills, Follows, InTile
<1>4. \/ read'.byRate \cup read'.asNeeded = read.byRate \cup read.asNeeded
      \/ /\ read'.byRate \cup read'.asNeeded = read.byRate \cup read.asNeeded \cup {q}
         /\ Alike(F(q)) # {}
  BY <1>1 DEF Effect, IsHidden, IsGone, IsVanished, IsSkipped, IsTaken, SameDropped
<1>5. Alike(F(q)) # {} => \E j \in InTile : Like(q, j)
  BY <1>1 DEF Alike, OfLayer, Like
<1>6. \A i \in read'.byRate \cup read'.asNeeded : \E j \in InTile' : Like(i, j)
  BY <1>2, <1>3, <1>4, <1>5
<1>7. \A i, j : Like(i, j)' <=> Like(i, j)
  BY <1>1 DEF Like, F
<1> QED
  BY <1>6, <1>7 DEF DroppedOnto

\* No feature is lost but those that are skipped, which leaves its mark.
LEMMA EffectNoneLost ==
    ASSUME TypeOK, Effect, InPassed, NoneLost, SkippedTooMany
    PROVE  NoneLost' /\ SkippedTooMany'
<1> DEFINE q == read.pos
           Here == InTile \cup read.byRate \cup read.asNeeded
<1>1. /\ Current = F(q) /\ request' = request /\ Passed' = Passed \cup {q}
      /\ read.skipped \in Nat
  BY EffectOnward, EffectPassed, ReadTypes
<1>2. /\ Here \subseteq Here'
      /\ \/ ~Offered(F(q)) /\ SameLimits
         \/ (q \in Here' \/ Vanished(q)) /\ SameLimits
         \/ read'.skipped = read.skipped + 1 /\ (read'.tooManyFeatures \/ read'.tooManyBytes)
  BY <1>1 DEF Effect, IsHidden, IsGone, IsVanished, IsSkipped, IsTaken, SameTile, SameDropped, Leads, Fills,
              Follows, InTile, Vanished
<1>3. read'.skipped = 0 => read.skipped = 0 /\ (~Offered(F(q)) \/ q \in Here' \/ Vanished(q))
  BY <1>1, <1>2 DEF SameLimits
<1>4. read'.skipped = 0 =>
          \A i \in Passed \cup {q} : Offered(F(i)) => i \in Here' \/ Vanished(i)
  BY <1>2, <1>3 DEF NoneLost
<1>5. NoneLost'
  BY <1>1, <1>4 DEF NoneLost, F, Offered, Vanished
<1>6. SkippedTooMany'
  BY <1>2, <1>1 DEF SkippedTooMany, SameLimits
<1> QED
  BY <1>5, <1>6

\* What is missing of a leaf has put an end to its being one.
LEMMA EffectLeaf ==
    ASSUME TypeOK, Effect, InPassed, EarlyTry, LeafSoFar
    PROVE  EarlyTry' /\ LeafSoFar'
<1> DEFINE q == read.pos
<1>1. /\ Current = F(q) /\ q \in Positions /\ request' = request /\ tile' = tile /\ try' = try
      /\ Passed' = Passed \cup {q} /\ read.skipped \in Nat /\ Current \in Feature
  BY EffectOnward, EffectPassed, ReadTypes, Types
<1>2. EarlyTry' /\ (AtEarly' <=> AtEarly)
  BY <1>1 DEF EarlyTry, AtEarly, FirstDetail
<1>3. \A i : Excused(i)' <=> Excused(i)
  BY <1>1 DEF Excused, Vanished, F, options
<1>4. SUFFICES ASSUME AtEarly, canStop', ~read'.pending, read'.skipped = 0
               PROVE  \A i \in Passed \cup {q} : i \in InTile' \/ Excused(i)
  BY <1>1, <1>2, <1>3 DEF LeafSoFar
<1>5. ~IsGone /\ ~IsSkipped
  BY <1>1, <1>4 DEF IsGone, IsSkipped, EarlyTry, AtEarly
<1>6. canStop /\ ~read.pending /\ read.skipped = 0
  <2>1. CASE IsHidden
    BY <1>4, <2>1, ReadTypes DEF IsHidden, SameLimits
  <2>2. CASE IsTaken
    BY <1>4, <2>2, ReadTypes DEF IsTaken, SameLimits, SeenNow
  <2>3. CASE IsVanished
    BY <1>4, <2>3, ReadTypes DEF IsVanished, SameLimits, SeenNow
  <2> QED
    BY <1>5, <2>1, <2>2, <2>3 DEF Effect
<1>7. \A i \in Passed : i \in InTile \/ Excused(i)
  BY <1>4, <1>6 DEF LeafSoFar
<1>8. CASE IsHidden
  <2>1. InTile' = InTile /\ ~Offered(F(q)) /\ (F(q).show = "later" => options.prefilter)
    BY <1>1, <1>4, <1>8 DEF IsHidden, SameTile, InTile
  <2>2. Excused(q)
    BY <1>1, <2>1 DEF Offered, Feature, Excused
  <2> QED
    BY <1>7, <2>1, <2>2
<1>9. CASE IsTaken
  BY <1>7, <1>9 DEF IsTaken, Leads, Fills, Follows, InTile
<1>10. CASE IsVanished
  <2>1. InTile' = InTile /\ Excused(q)
    BY <1>1, <1>10 DEF IsVanished, SameTile, InTile, Excused, Vanished
  <2> QED
    BY <1>7, <2>1
<1> QED
  BY <1>5, <1>8, <1>9, <1>10 DEF Effect

\* As long as the tile is empty, no feature can be dropped or skipped.
LEMMA EmptyNotFull ==
    ASSUME TypeOK, InTile = {}, ~read.tooManyFeatures, ~read.tooManyBytes
    PROVE  ~BytesFull /\ ~FeaturesFull
<1>1. Cardinality(InTile) = 0 /\ Cardinality(read.lead) = 0
  BY FS_EmptySet DEF InTile
<1>2. SoFar = 0
  BY <1>1 DEF SoFar, Estimated
<1>3. options.maxBytes \in Nat /\ options.maxFeatures \in Nat
  BY Types DEF Options
<1>4. \A limit \in Nat : Inflated(limit) = limit
  BY <1>1 DEF Inflated
<1> QED
  BY <1>2, <1>3, <1>4 DEF BytesFull, FeaturesFull

LEMMA EffectEmpty ==
    ASSUME TypeOK, Effect, InPassed, EmptySoFar
    PROVE  EmptySoFar'
<1> DEFINE q == read.pos
<1>1. /\ Current = F(q) /\ request' = request /\ Passed' = Passed \cup {q}
  BY EffectOnward, EffectPassed
<1> SUFFICES ASSUME InTile' = {}
             PROVE  /\ ~read'.tooManyFeatures /\ ~read'.tooManyBytes
                    /\ \A i \in Passed \cup {q} : Offered(F(i)) => Vanished(i)
  BY <1>1 DEF EmptySoFar, Offered, F, Vanished
<1>2. ~IsTaken /\ InTile = {}
  BY DEF Effect, IsHidden, IsGone, IsVanished, IsSkipped, IsTaken, SameTile, Leads, Fills, Follows, InTile
<1>3. /\ ~read.tooManyFeatures /\ ~read.tooManyBytes
      /\ \A i \in Passed : Offered(F(i)) => Vanished(i)
  BY <1>2 DEF EmptySoFar
<1>4. ~IsSkipped
  BY <1>2, <1>3, EmptyNotFull DEF IsSkipped
<1>5. ~IsGone
  BY <1>2 DEF IsGone, Alike, OfLayer
<1>6. IsHidden \/ IsVanished
  BY <1>2, <1>4, <1>5 DEF Effect
<1> QED
  BY <1>1, <1>3, <1>6 DEF IsHidden, IsVanished, SameLimits, Vanished

-----------------------------------------------------------------------------
(***************************************************************************)
(* Clusters                                                                 *)
(***************************************************************************)
\* A layer goes on counting once it has begun, and begins with a lead.
LEMMA EffectCount ==
    ASSUME TypeOK, Effect, InPassed, CountBegun
    PROVE  CountBegun'
<1> DEFINE q == read.pos
           f == Current
<1>1. /\ f = F(q) /\ request' = request /\ Passed' = Passed \cup {q} /\ f.layer \in Layers
      /\ q \notin Passed
      /\ read.count \in [Layers -> Nat \cup {-1}] /\ Rated(f) \in Nat \cup {-1, -2}
  BY EffectOnward, EffectPassed, ReadTypes, CurrentTyped, RatedTyped DEF Passed
<1>2. \A l \in Layers : read.count[l] # -1 => Counted(f)[l] # -1
  BY <1>1 DEF Counted
<1>3. f.rate = "kept" => Counted(f)[f.layer] # -1
  BY <1>1 DEF Counted, Rated, Kept
<1>4. \/ ~Offered(F(q)) /\ read'.count = read.count
      \/ Offered(F(q)) /\ read'.count = Counted(f)
  BY <1>1 DEF Effect, IsHidden, IsGone, IsVanished, IsSkipped, IsTaken, SeenNow
<1>5. \A j \in Passed : F(j).layer \in Layers
  BY Types, <1>1, EffectOnward DEF Passed, Positions, InPassed, Feature
<1> HIDE DEF f
<1>6. \A j \in Passed \cup {q} :
          Offered(F(j)) /\ F(j).rate = "kept" => read'.count[F(j).layer] # -1
  BY <1>1, <1>2, <1>3, <1>4, <1>5 DEF CountBegun
<1> QED
  BY <1>1, <1>6 DEF CountBegun, Offered, F

\* What follows a lead that was dropped is dropped too, as there is a feature in the
\* tile that the lead itself was dropped onto.
LEMMA FollowerRests ==
    ASSUME TypeOK, Reading, InPassed, CountBegun, StillResting, ~options.prefilter,
           NEW j \in read.asNeeded, AfterLead(j),
           Current.layer = F(j).layer, Current.rate = "extra"
    PROVE  Resting(Current)
<1>1. /\ read.dropRest /\ j \in Passed /\ F(j).rate = "kept" /\ Offered(F(j))
  BY DEF StillResting, AfterLead, InPassed
<1>2. read.count[Current.layer] # -1
  BY <1>1 DEF CountBegun
<1>3. read.count[Current.layer] \in Nat \cup {-1}
  BY CurrentTyped, ReadTypes
<1>4. Rated(Current) # 0
  BY <1>2, <1>3 DEF Rated, Kept, Added, Dropped
<1> QED
  BY <1>1, <1>4 DEF Given, Resting, Kept

LEMMA EffectResting ==
    ASSUME TypeOK, Effect, InPassed, CountBegun, StillResting
    PROVE  StillResting'
<1> DEFINE q == read.pos
<1>1. /\ Current = F(q) /\ q \in Nat /\ read'.pos = q + 1 /\ request' = request /\ Reading
      /\ \A i \in read.asNeeded : i < q /\ i \in Nat
  BY EffectOnward, EffectPassed DEF Positions
<1>2. SUFFICES ASSUME ~options.prefilter, NEW j \in read'.asNeeded,
                      j \in 1 .. q, F(j).rate = "kept",
                      \A k \in j + 1 .. q : F(k).layer = F(j).layer /\ F(k).rate = "extra"
               PROVE  read'.dropRest
  BY <1>1 DEF StillResting, AfterLead, Passed, F, options
<1>3. CASE j \in read.asNeeded
  <2>1. q \in j + 1 .. q /\ j \in 1 .. q - 1
    BY <1>1, <1>2, <1>3
  <2>2. AfterLead(j)
    BY <1>1, <1>2, <2>1 DEF AfterLead, Passed
  <2>3. Resting(Current) /\ read.dropRest
    BY <1>1, <1>2, <1>3, <2>1, <2>2, FollowerRests DEF StillResting
  <2> QED
    BY <2>3 DEF Effect, IsHidden, IsGone, IsVanished, IsSkipped, IsTaken
<1>4. CASE j \notin read.asNeeded
  BY <1>4, <1>2 DEF Effect, IsHidden, IsGone, IsVanished, IsSkipped, IsTaken, SameDropped
<1> QED
  BY <1>3, <1>4

\* Only a feature that is not dropped follows another into the tile.
LEMMA TakenNotRate ==
    ASSUME TypeOK, IsTaken
    PROVE  /\ Follows /\ Alike(Current) # {} =>
                  /\ ~Resting(Current)
                  /\ read.cluster[Current.layer] < options.multiplier
           /\ Fills => Current.rate = "sparse"
<1> DEFINE f == Current
<1>1. /\ ~DropsByRate(f) /\ Reading /\ f.layer \in Layers
      /\ read.cluster[f.layer] \in Nat /\ options.multiplier \in Nat
      /\ Status(f) \in Nat \cup {-1, -2} /\ Given(f) \in Nat \cup {-1, -2}
      /\ Rated(f) \in Nat \cup {-1, -2}
      /\ read.count \in [Layers -> Nat \cup {-1}]
  BY ReadTypes, CurrentTyped, RatedTyped DEF IsTaken, Onward, Take
<1>2. ASSUME Follows, Alike(f) # {}
      PROVE  ~Resting(f) /\ read.cluster[f.layer] < options.multiplier
  <2>1. Status(f) # Dropped /\ ~Resting(f) /\ OfLayer(f.layer) # {}
    BY <1>1, <1>2 DEF DropsByRate, Alike
  <2>2. JoinsCluster(f) \/ Status(f) \notin {Kept, Added}
    BY <1>2, <2>1 DEF Follows, FinalStatus
  <2>3. CASE JoinsCluster(f)
    BY <2>1, <2>3 DEF JoinsCluster
  <2>4. CASE Status(f) \notin {Kept, Added}
    <3>1. Status(f) = Given(f)
      BY <2>1 DEF Status
    <3>2. Given(f) > 0
      BY <1>1, <2>1, <2>4, <3>1 DEF Kept, Added, Dropped
    <3> QED
      BY <1>1, <2>1, <3>2 DEF Status
  <2> QED
    BY <2>2, <2>3, <2>4
<1>3. ASSUME Fills
      PROVE  f.rate = "sparse"
  <2>1. Status(f) = Added
    BY <1>1, <1>3 DEF Fills, FinalStatus, Added, Kept
  <2>2. Given(f) = Added
    BY <2>1 DEF Status, Added, Dropped
  <2>3. Rated(f) = Added
    BY <2>2 DEF Given, Added, Kept
  <2>4. read.count[f.layer] \in Nat \cup {-1}
    BY <1>1
  <2> QED
    BY <2>3, <2>4 DEF Rated, Kept, Added, Dropped
<1> QED
  BY <1>2, <1>3

LEMMA EffectDragged ==
    ASSUME TypeOK, Effect, InPassed, DroppedOnto, CountBegun, StillResting, ClusterDragged
    PROVE  ClusterDragged'
<1> DEFINE q == read.pos
<1>1. /\ Current = F(q) /\ q \in Nat /\ q \in Positions /\ request' = request /\ Reading
      /\ \A i \in InTile \cup read.byRate \cup read.asNeeded : i < q /\ i \in Nat
  BY EffectOnward, EffectPassed DEF Positions
<1>2. \A i, j : LeadOf(i, j)' <=> LeadOf(i, j)
  BY <1>1 DEF LeadOf, F
<1>3. SUFFICES ASSUME ~options.prefilter, NEW i \in read'.other, NEW j \in AllOffered,
                      F(i).rate = "extra", LeadOf(i, j), j \in read'.asNeeded
               PROVE  FALSE
  <2> HIDE DEF q
  <2> QED
    BY <1>1, <1>2 DEF ClusterDragged, AllOffered, Positions, Offered, F, options
<1>4. CASE i \in read.other
  <2>1. j \notin read.asNeeded /\ i < q /\ j < i /\ i \in Nat
    BY <1>1, <1>3, <1>4 DEF ClusterDragged, LeadOf, InTile
  <2>2. j = q
    BY <1>3, <2>1 DEF Effect, IsHidden, IsGone, IsVanished, IsSkipped, IsTaken, SameDropped
  <2> QED
    BY <1>1, <2>1, <2>2
<1>5. CASE i \notin read.other
  <2>1. IsTaken /\ i = q /\ j \in read.asNeeded /\ (Fills \/ Follows)
    BY <1>3, <1>5 DEF Effect, IsHidden, IsGone, IsVanished, IsSkipped, IsTaken, SameTile, SameDropped,
                      Leads, Fills, Follows
  <2>2. j \in Nat /\ j < q /\ j \in 1 .. q - 1
    BY <1>1, <1>3, <2>1 DEF AllOffered, Positions
  <2>3. AfterLead(j) /\ F(j).layer = F(q).layer /\ F(j).type = F(q).type
    BY <1>3, <2>1, <2>2 DEF AfterLead, Passed, LeadOf
  <2>4. Resting(Current)
    BY <1>1, <1>3, <2>1, <2>3, FollowerRests
  <2>5. Alike(Current) # {}
    <3>1. PICK k \in InTile : Like(j, k)
      BY <2>1 DEF DroppedOnto
    <3>2. k \in Alike(F(q))
      BY <3>1, <2>3 DEF Like, Alike, OfLayer
    <3> QED
      BY <1>1, <3>2
  <2>6. ~Follows
    BY <2>1, <2>4, <2>5, TakenNotRate
  <2>7. ~Fills
    BY <1>1, <1>3, <2>1, TakenNotRate
  <2> QED
    BY <2>1, <2>6, <2>7
<1> QED
  BY <1>4, <1>5

\* A feature that is taken only follows the last lead of its layer.
LEMMA EffectClusters ==
    ASSUME TypeOK, Effect, InPassed, ClusterBound, LastCluster
    PROVE  ClusterBound' /\ LastCluster'
<1> DEFINE q == read.pos
           a == F(q).layer
           Size(i) == Cardinality(Followers(F(i).layer, i))
<1>1. /\ Current = F(q) /\ q \in Nat /\ q \in Positions /\ request' = request /\ Reading
      /\ \A i \in InTile : i < q /\ i \in Nat /\ i \in Positions
      /\ a \in Layers /\ read.cluster \in [Layers -> Nat] /\ options.multiplier \in Nat \ {0}
      /\ \A i \in Positions : F(i).layer \in Layers
  BY EffectOnward, EffectPassed, ReadTypes, CurrentTyped, Types DEF Positions, Feature
<1>2. \A i : IsFiniteSet(Followers(F(i).layer, i)) /\ Size(i) \in Nat
  <2> TAKE i
  <2>1. Followers(F(i).layer, i) \subseteq Positions
    BY <1>1 DEF Followers, InTile
  <2>2. IsFiniteSet(Positions)
    BY FS_Interval, Types DEF Positions
  <2> QED
    BY <2>1, <2>2, FS_Subset, FS_CardinalityType
<1>3. /\ \A i \in read.lead : Size(i) < options.multiplier
      /\ \A i \in read.lead :
             IsLast(F(i).layer, i) => Size(i) + 1 <= read.cluster[F(i).layer]
  BY DEF ClusterBound, LastCluster
<1>4. CASE SameTile
  <2>1. \A l, i : Followers(l, i)' = Followers(l, i) /\ (IsLast(l, i)' <=> IsLast(l, i))
    BY <1>1, <1>4 DEF SameTile, Followers, IsLast, F
  <2>2. \A i : F(i)' = F(i)
    BY <1>1 DEF F
  <2> QED
    BY <1>1, <1>4, <2>1, <2>2 DEF ClusterBound, LastCluster, SameTile, options
<1>5. CASE IsTaken /\ Leads
  <2>1. \A i \in read.lead : Followers(F(i).layer, i)' = Followers(F(i).layer, i)
    BY <1>1, <1>5 DEF Leads, Followers, InTile, F
  <2>2. \A i : i = q => Followers(F(i).layer, i)' = {} /\ Cardinality(Followers(F(i).layer, i)') = 0
    <3> TAKE i
    <3> HAVE i = q
    <3>1. \A j \in read'.other : ~(j > i)
      BY <1>1, <1>5 DEF Leads, InTile
    <3>2. Followers(F(i).layer, i)' = {}
      BY <3>1 DEF Followers
    <3> QED
      BY <3>2, FS_EmptySet
  <2>3. ClusterBound'
    <3> SUFFICES ASSUME NEW i \in read.lead \cup {q}
                 PROVE  Cardinality(Followers(F(i).layer, i)') < options.multiplier
      BY <1>1, <1>5 DEF Leads, ClusterBound, options, F
    <3>1. CASE i \in read.lead
      BY <3>1, <1>3, <2>1
    <3>2. CASE i = q
      BY <1>1, <3>2, <2>2
    <3> QED
      BY <3>1, <3>2
  <2>4. LastCluster'
    <3> SUFFICES ASSUME NEW i \in read.lead \cup {q}, IsLast(F(i).layer, i)'
                 PROVE  Cardinality(Followers(F(i).layer, i)') + 1 <= read'.cluster[F(i).layer]
      BY <1>1, <1>5 DEF Leads, LastCluster, F
    <3>1. CASE i # q
      <4>1. i \in read.lead /\ F(i).layer # a /\ IsLast(F(i).layer, i)
        BY <1>1, <1>5, <3>1 DEF Leads, IsLast, InTile, F
      <4>2. read'.cluster[F(i).layer] = read.cluster[F(i).layer]
        BY <1>1, <1>5, <4>1 DEF Leads, InTile
      <4> QED
        BY <1>3, <2>1, <4>1, <4>2
    <3>2. CASE i = q
      <4>1. read'.cluster[a] = 1
        BY <1>1, <1>5 DEF Leads
      <4> QED
        BY <3>2, <4>1, <2>2
    <3> QED
      BY <3>1, <3>2
  <2> QED
    BY <2>3, <2>4
<1>6. CASE IsTaken /\ Fills
  <2>1. F(q).rate = "sparse"
    BY <1>1, <1>6, TakenNotRate
  <2>2. \A l, i : Followers(l, i)' = Followers(l, i) /\ (IsLast(l, i)' <=> IsLast(l, i))
    BY <1>1, <1>6, <2>1 DEF Fills, Followers, IsLast, F
  <2>3. \A i : F(i)' = F(i)
    BY <1>1 DEF F
  <2> QED
    BY <1>1, <1>6, <2>2, <2>3 DEF ClusterBound, LastCluster, Fills, options
<1>7. CASE IsTaken /\ Follows
  <2>1. /\ read'.lead = read.lead /\ read'.other = read.other \cup {q}
        /\ read'.cluster = [read.cluster EXCEPT ![a] = read.cluster[a] + 1]
    BY <1>1, <1>7 DEF Follows
  <2>2. ASSUME NEW i \in read.lead
        PROVE  \/ Followers(F(i).layer, i)' = Followers(F(i).layer, i)
               \/ /\ IsLast(F(i).layer, i) /\ F(i).layer = a /\ F(i).type = F(q).type
                  /\ Followers(F(i).layer, i)' = Followers(F(i).layer, i) \cup {q}
                  /\ q \notin Followers(F(i).layer, i)
    <3> DEFINE Fit == /\ F(i).layer = a /\ F(i).type = F(q).type /\ F(q).rate # "sparse"
                      /\ ~\E k \in read.lead : k > i /\ k < q /\ F(k).layer = F(i).layer
    <3>1. CASE Fit
      <4>1. Followers(F(i).layer, i)' = Followers(F(i).layer, i) \cup {q}
        BY <1>1, <2>1, <3>1 DEF Followers, InTile, F
      <4>2. IsLast(F(i).layer, i)
        BY <1>1, <3>1 DEF IsLast, InTile
      <4>3. q \notin Followers(F(i).layer, i)
        BY <1>1 DEF Followers, InTile
      <4> QED
        BY <3>1, <4>1, <4>2, <4>3
    <3>2. CASE ~Fit
      <4>1. Followers(F(i).layer, i)' = Followers(F(i).layer, i)
        BY <1>1, <2>1, <3>2, SMTT(30) DEF Followers, InTile, F
      <4> QED
        BY <4>1
    <3> QED
      BY <3>1, <3>2
  <2>3. ASSUME NEW i \in read.lead, F(i).layer = a, F(i).type = F(q).type
        PROVE  read.cluster[a] < options.multiplier
    <3>1. i \in Alike(F(q))
      BY <2>3 DEF Alike, OfLayer, InTile
    <3> QED
      BY <1>1, <1>7, <3>1, TakenNotRate
  <2>4. ASSUME NEW i \in read.lead
        PROVE  /\ Cardinality(Followers(F(i).layer, i)') < options.multiplier
               /\ IsLast(F(i).layer, i) =>
                      Cardinality(Followers(F(i).layer, i)') + 1 <= read'.cluster[F(i).layer]
    <3>1. i \in Positions /\ F(i).layer \in Layers /\ Size(i) \in Nat
      BY <1>1, <1>2 DEF InTile
    <3>2. /\ read.cluster[F(i).layer] \in Nat /\ read.cluster[a] \in Nat
          /\ read'.cluster[F(i).layer] >= read.cluster[F(i).layer]
          /\ read'.cluster[a] = read.cluster[a] + 1
      BY <1>1, <2>1, <3>1
    <3>3. CASE Followers(F(i).layer, i)' = Followers(F(i).layer, i)
      <4>1. Cardinality(Followers(F(i).layer, i)') = Size(i)
        BY <3>3
      <4> HIDE DEF Size
      <4> QED
        BY <1>3, <3>1, <3>2, <4>1, <2>1, <1>1
    <3>4. CASE /\ IsLast(F(i).layer, i) /\ F(i).layer = a /\ F(i).type = F(q).type
               /\ Followers(F(i).layer, i)' = Followers(F(i).layer, i) \cup {q}
               /\ q \notin Followers(F(i).layer, i)
      <4>1. Cardinality(Followers(F(i).layer, i)') = Size(i) + 1
        BY <1>2, <3>4, FS_AddElement
      <4>2. Size(i) + 1 <= read.cluster[a] /\ read.cluster[a] < options.multiplier
        BY <1>3, <2>3, <3>4
      <4> HIDE DEF Size
      <4> QED
        BY <1>1, <3>1, <3>2, <3>4, <4>1, <4>2
    <3> QED
      BY <2>2, <3>3, <3>4
  <2>5. \A i : IsLast(F(i).layer, i)' <=> IsLast(F(i).layer, i)
    BY <1>1, <2>1 DEF IsLast, F
  <2> QED
    BY <1>1, <2>1, <2>4, <2>5 DEF ClusterBound, LastCluster, F, options
<1> QED
  BY <1>4, <1>5, <1>6, <1>7 DEF Effect, IsHidden, IsGone, IsVanished, IsSkipped, IsTaken

-----------------------------------------------------------------------------
(***************************************************************************)
(* The invariant, step by step.                                             *)
(***************************************************************************)
LEMMA ReadKeeps ==
    ASSUME IInv, ReadStep
    PROVE  IInv'
<1>1. TypeOK /\ Effect
  BY ReadEffect DEF IInv
<1>2. TypeOK' /\ ChildrenSoFar'
  BY <1>1, EffectTyped, ChildrenWritten DEF IInv
<1>3. InPassed' /\ DroppedOnto' /\ NoneLost' /\ SkippedTooMany' /\ EmptySoFar'
      /\ EarlyTry' /\ LeafSoFar'
  BY <1>1, EffectPassed, EffectOnto, EffectNoneLost, EffectLeaf, EffectEmpty DEF IInv
<1>4. ClusterBound' /\ LastCluster' /\ ClusterDragged' /\ StillResting' /\ CountBegun'
  BY <1>1, EffectClusters, EffectDragged, EffectResting, EffectCount DEF IInv
<1>5. outcome' = "reading" /\ UNCHANGED <<request, tile, try, out>>
  BY <1>1, EffectOnward
<1>6. ReadToTheEnd' /\ LeafSuffices' /\ NeverEmptied' /\ Accounted'
  BY <1>5 DEF ReadToTheEnd, LeafSuffices, NeverEmptied, Accounted, Stored
<1>7. OwnThreshold' /\ Reported'
  BY <1>5 DEF IInv, OwnThreshold, Reported, options
<1> QED
  BY <1>2, <1>3, <1>4, <1>6, <1>7 DEF IInv

\* When the features have been read, all of them have been passed.
LEMMA AllPassed ==
    ASSUME TypeOK, InPassed, Finished
    PROVE  Passed = Positions /\ read.pos = Len(request.features) + 1
<1>1. read.pos \in Nat /\ Len(request.features) \in Nat
  BY ReadTypes, Types
<1>2. read.pos = Len(request.features) + 1
  BY <1>1 DEF InPassed, Finished
<1> QED
  BY <1>1, <1>2 DEF Passed, Positions

\* Another reading begins with nothing passed.
LEMMA FreshTyped == FreshRead \in ReadType
<1>1. /\ [l \in Layers |-> -1] \in [Layers -> Nat \cup {-1}]
      /\ [l \in Layers |-> 0] \in [Layers -> Nat]
  OBVIOUS
<1> QED
  BY <1>1 DEF FreshRead, ReadType

LEMMA FreshKeeps ==
    ASSUME read' = FreshRead, outcome' = "reading", TypeOK'
    PROVE  /\ InPassed' /\ DroppedOnto' /\ NoneLost' /\ SkippedTooMany' /\ LeafSoFar' /\ EmptySoFar'
           /\ ClusterBound' /\ LastCluster' /\ ClusterDragged' /\ StillResting' /\ CountBegun'
           /\ ReadToTheEnd' /\ LeafSuffices' /\ NeverEmptied' /\ Accounted'
<1>1. /\ read'.pos = 1 /\ read'.lead = {} /\ read'.other = {} /\ read'.byRate = {}
      /\ read'.asNeeded = {} /\ read'.skipped = 0
      /\ read'.tooManyFeatures = FALSE /\ read'.tooManyBytes = FALSE
  BY DEF FreshRead
<1>2. Passed' = {} /\ InTile' = {}
  BY <1>1 DEF Passed, InTile
<1>3. Len(request'.features) \in Nat
  <2>1. request'.features \in Seq(Feature)
    BY DEF TypeOK, Request
  <2> QED
    BY <2>1, LenProperties
<1>4. InPassed'
  BY <1>1, <1>2, <1>3 DEF InPassed
<1>5. DroppedOnto' /\ NoneLost' /\ SkippedTooMany' /\ LeafSoFar' /\ EmptySoFar'
  BY <1>1, <1>2 DEF DroppedOnto, NoneLost, SkippedTooMany, LeafSoFar, EmptySoFar
<1>6. ClusterBound' /\ LastCluster' /\ ClusterDragged' /\ StillResting' /\ CountBegun'
  BY <1>1, <1>2 DEF ClusterBound, LastCluster, ClusterDragged, StillResting, CountBegun
<1>7. ReadToTheEnd' /\ LeafSuffices' /\ NeverEmptied' /\ Accounted'
  BY DEF ReadToTheEnd, LeafSuffices, NeverEmptied, Accounted, Stored
<1> QED
  BY <1>4, <1>5, <1>6, <1>7

Tries == [detail : Nat, gamma : 0 .. MaxGamma, m : Nat, first : BOOLEAN]
Outs  == [gamma : 0 .. MaxGamma, m : Nat, still : BOOLEAN]

LEMMA AgainKeeps ==
    ASSUME IInv, Finished, NEW t \in Tries, Again(t), out' \in Outs,
           t.m = try.m \/ ~AtEarly, t.detail \in {try.detail, Lower(try.detail)},
           OwnThreshold', Reported'
    PROVE  IInv'
<1>1. /\ try' = [t EXCEPT !.first = FALSE] /\ read' = FreshRead
      /\ canStop' = (canStop /\ ~Cut)
      /\ UNCHANGED <<request, tile, children, outcome>>
  BY DEF Again
<1>2. try' \in Tries /\ ~try'.first
  BY <1>1 DEF Tries
<1>3. canStop' \in BOOLEAN
  BY <1>1 DEF IInv, TypeOK
<1>4. read' \in ReadType'
  BY <1>1, FreshTyped DEF ReadType, Positions
<1>5. TypeOK'
  <2>1. request' \in Request /\ tile' \in [early : BOOLEAN, writeChildren : BOOLEAN]
        /\ children' \in Seq(Positions') /\ outcome' = outcome
    BY <1>1 DEF IInv, TypeOK, Positions
  <2> QED
    BY <1>2, <1>3, <1>4, <2>1 DEF IInv, TypeOK, Tries, Outs
<1>6. outcome' = "reading"
  BY <1>1 DEF Finished
<1>7. ChildrenSoFar'
  <2>1. Written = Positions /\ Written' = Positions
    BY <1>1, <1>2, AllPassed DEF IInv, Written, Positions
  <2> QED
    BY <1>1, <2>1 DEF IInv, ChildrenSoFar, F
<1>8. EarlyTry'
  <2>1. /\ try'.m = t.m /\ try'.detail = t.detail /\ tile' = tile /\ try \in Tries
        /\ Detail \in Nat /\ EarlyDetail \in Nat
    BY <1>1, LimitAssumption DEF Tries, IInv, TypeOK
  <2> SUFFICES ASSUME tile.early
               PROVE  /\ Detail < EarlyDetail /\ t.detail <= EarlyDetail
                      /\ t.detail = EarlyDetail => t.m = 0
    BY <2>1 DEF EarlyTry, AtEarly, FirstDetail
  <2>2. /\ Detail < EarlyDetail /\ try.detail <= EarlyDetail
        /\ AtEarly <=> try.detail = EarlyDetail
        /\ try.detail = EarlyDetail => try.m = 0
    BY DEF IInv, EarlyTry, AtEarly, FirstDetail
  <2>3. try.detail \in Nat
    BY <2>1 DEF Tries
  <2>4. Lower(try.detail) < EarlyDetail
    BY <2>1, <2>2, <2>3 DEF Lower, FirstDetail, SecondDetail
  <2>5. CASE t.detail = Lower(try.detail)
    BY <2>1, <2>2, <2>3, <2>4, <2>5 DEF Tries
  <2>6. CASE t.detail = try.detail
    BY <2>2, <2>6
  <2> QED
    BY <2>5, <2>6
<1> QED
  BY <1>1, <1>5, <1>6, <1>7, <1>8, FreshKeeps DEF IInv

\* The end of the last reading changes nothing of what was read.
LEMMA EndKeeps ==
    ASSUME IInv, Finished, NEW result, End(result),
           result \in {"written", "leaf", "empty", "failed", "incomplete", "undefined"},
           LeafSuffices', NeverEmptied', Accounted'
    PROVE  IInv'
<1>1. /\ outcome' = result /\ canStop' = (canStop /\ ~Cut)
      /\ UNCHANGED <<request, tile, try, read, out, children>>
  BY DEF End
<1>2. TypeOK'
  BY <1>1 DEF IInv, TypeOK, ReadType, Positions
<1>3. InPassed' /\ DroppedOnto' /\ NoneLost' /\ SkippedTooMany' /\ EmptySoFar'
  BY <1>1 DEF IInv, InPassed, DroppedOnto, NoneLost, SkippedTooMany, EmptySoFar, InTile, Passed,
              Offered, Vanished, F, Like
<1>4. EarlyTry' /\ LeafSoFar'
  BY <1>1 DEF IInv, EarlyTry, LeafSoFar, AtEarly, FirstDetail, Excused, Vanished, InTile, Passed,
              F, options
<1>5. ClusterBound' /\ LastCluster'
  <2>1. \A l, i : Followers(l, i)' = Followers(l, i) /\ (IsLast(l, i)' <=> IsLast(l, i))
    BY <1>1 DEF Followers, IsLast, F
  <2>2. \A i : F(i)' = F(i)
    BY <1>1 DEF F
  <2> QED
    BY <1>1, <2>1, <2>2 DEF IInv, ClusterBound, LastCluster, options
<1>6. ClusterDragged' /\ StillResting' /\ CountBegun'
  <2>1. AllOffered' = AllOffered
    BY <1>1 DEF AllOffered, Positions, Offered, F
  <2> QED
    BY <1>1, <2>1 DEF IInv, ClusterDragged, StillResting, CountBegun, LeadOf, AfterLead, Passed,
              Offered, F, options
<1>7. ChildrenSoFar'
  BY <1>1 DEF IInv, ChildrenSoFar, Written, Passed, Positions, F
<1>8. ReadToTheEnd'
  BY <1>1, AllPassed DEF IInv, ReadToTheEnd
<1>9. OwnThreshold' /\ Reported'
  BY <1>1 DEF IInv, OwnThreshold, Reported, options
<1> QED
  BY <1>2, <1>3, <1>4, <1>5, <1>6, <1>7, <1>8, <1>9 DEF IInv

LEMMA GivenUpKeeps ==
    ASSUME IInv, Finished, NEW result \in {"failed", "incomplete", "undefined"}, End(result)
    PROVE  IInv'
<1>1. outcome' = result
  BY DEF End
<1>2. LeafSuffices' /\ NeverEmptied' /\ Accounted'
  BY <1>1 DEF LeafSuffices, NeverEmptied, Accounted, Stored
<1> QED
  BY <1>2, EndKeeps

\* Less detail is only tried as long as there is some.
LEMMA LowerKeeps ==
    ASSUME IInv, Finished, TryLowerDetail, out' = out
    PROVE  IInv'
<1>1. CASE Allowed(Lower(try.detail)) /\ Again([try EXCEPT !.detail = Lower(try.detail)])
  <2> DEFINE d == Lower(try.detail)
  <2>1. try \in Tries /\ out \in Outs
    BY DEF IInv, TypeOK, Tries, Outs
  <2>2. d \in Int
    BY <2>1, LimitAssumption DEF Tries, Lower, SecondDetail
  <2>3. d \in Nat
    BY <1>1, <2>2, LimitAssumption DEF Allowed
  <2> HIDE DEF d
  <2> DEFINE t == [try EXCEPT !.detail = d]
  <2>4. t \in Tries /\ t.m = try.m /\ t.detail = d
    BY <2>1, <2>3 DEF Tries
  <2>5. try'.gamma = try.gamma /\ try'.m = try.m /\ request' = request
    BY <1>1, <2>1 DEF Again, Tries, d
  <2>6. OwnThreshold' /\ Reported'
    BY <2>5 DEF IInv, OwnThreshold, Reported, options
  <2> QED
    BY <1>1, <2>1, <2>4, <2>6, AgainKeeps DEF d
<1>2. CASE End("failed")
  BY <1>2, GivenUpKeeps
<1> QED
  BY <1>1, <1>2 DEF TryLowerDetail

LEMMA GammaKeeps ==
    ASSUME IInv, RaiseGamma
    PROVE  IInv'
<1> DEFINE g == try.gamma + 1
           t == [try EXCEPT !.gamma = g]
<1>1. /\ Finished /\ try.gamma < MaxGamma /\ Again(t)
      /\ out' = IF g > out.gamma THEN [out EXCEPT !.gamma = g, !.still = TRUE] ELSE out
  BY DEF RaiseGamma, TooBigNow, MoreGamma
<1>2. try \in Tries /\ out \in Outs /\ MaxGamma \in Nat
  BY LimitAssumption DEF IInv, TypeOK, Tries, Outs
<1>3. g \in 0 .. MaxGamma /\ t \in Tries /\ t.m = try.m /\ t.detail = try.detail
  BY <1>1, <1>2 DEF Tries
<1>4. request' = request /\ try'.gamma = g /\ try'.m = try.m
  BY <1>1, <1>2 DEF Again, Tries
<1>5. request.reported.gamma \in Nat /\ request.reported.m \in Nat /\ try.gamma \in Nat
      /\ try.m \in Nat
  BY <1>2, Types DEF IInv, Thresholds, Tries
<1>6. /\ out.gamma = Larger(request.reported.gamma, try.gamma)
      /\ ~options.dynamicDrop => out.m = Larger(request.reported.m, try.m)
      /\ out.still <=> try.gamma > request.reported.gamma \/ try.m > request.reported.m
      /\ options.dynamicDrop => out.m = request.reported.m
      /\ options' = options
  BY <1>4 DEF IInv, Reported, OwnThreshold, options
<1>7. out' \in Outs /\ out'.m = out.m
  BY <1>1, <1>2, <1>3 DEF Outs
<1>8. /\ out'.gamma = Larger(request.reported.gamma, g)
      /\ out'.still <=> g > request.reported.gamma \/ try.m > request.reported.m
  <2> HIDE DEF g
  <2>1. CASE g > out.gamma
    <3>1. out'.gamma = g /\ out'.still = TRUE
      BY <1>1, <1>2, <2>1 DEF Outs
    <3>2. g > request.reported.gamma
      BY <1>2, <1>3, <1>5, <1>6, <2>1 DEF Larger, Outs
    <3> QED
      BY <1>2, <1>3, <1>5, <3>1, <3>2 DEF Larger
  <2>2. CASE ~(g > out.gamma)
    <3>1. out' = out
      BY <1>1, <2>2
    <3>2. out.gamma = request.reported.gamma /\ ~(g > request.reported.gamma)
          /\ ~(try.gamma > request.reported.gamma)
      BY <1>2, <1>3, <1>5, <1>6, <2>2 DEF Larger, Outs, g
    <3> QED
      BY <1>3, <1>5, <1>6, <3>1, <3>2 DEF Larger
  <2> QED
    BY <2>1, <2>2
<1>9. OwnThreshold' /\ Reported'
  BY <1>4, <1>6, <1>7, <1>8 DEF OwnThreshold, Reported
<1> QED
  BY <1>1, <1>3, <1>7, <1>9, AgainKeeps

LEMMA ThresholdKeeps ==
    ASSUME IInv, RaiseThreshold
    PROVE  IInv'
<1>1. PICK v \in Candidates : Greater(v) /\ Again([try EXCEPT !.m = v]) /\ out' = RaisedOut(v)
  BY DEF RaiseThreshold
<1> DEFINE t == [try EXCEPT !.m = v]
<1>2. try \in Tries /\ out \in Outs /\ v \in Nat /\ Finished
  BY LimitAssumption, ReadTypes
     DEF IInv, TypeOK, Tries, Outs, Candidates, Top, RaiseThreshold, TooBigNow
<1>3. t \in Tries /\ t.detail = try.detail /\ ~AtEarly
  BY <1>2 DEF Tries, RaiseThreshold, TooBigNow, NoGoodEarly
<1>4. request' = request /\ try'.m = v /\ try'.gamma = try.gamma /\ v > try.m
  BY <1>1, <1>2 DEF Again, Tries, Greater
<1>5. request.reported.gamma \in Nat /\ request.reported.m \in Nat /\ try.m \in Nat
      /\ try.gamma \in Nat /\ out.m \in Nat
  BY <1>2, Types DEF IInv, Thresholds, Tries, Outs
<1>6. /\ out.gamma = Larger(request.reported.gamma, try.gamma)
      /\ ~options.dynamicDrop => out.m = Larger(request.reported.m, try.m)
      /\ out.still <=> try.gamma > request.reported.gamma \/ try.m > request.reported.m
      /\ options.dynamicDrop => out.m = request.reported.m
      /\ options' = options
  BY <1>4 DEF IInv, Reported, OwnThreshold, options
<1>7. CASE v > out.m
  <2>1. out' = [out EXCEPT !.m = IF options.dynamicDrop THEN out.m ELSE v, !.still = TRUE]
    BY <1>1, <1>7 DEF RaisedOut
  <2> DEFINE w == IF options.dynamicDrop THEN out.m ELSE v
  <2>2. w \in Nat
    BY <1>2, <1>5
  <2>3. out' \in Outs /\ out'.gamma = out.gamma /\ out'.still = TRUE /\ out'.m = w
    <3> HIDE DEF w
    <3>1. out' = [out EXCEPT !.m = w, !.still = TRUE]
      BY <2>1 DEF w
    <3> QED
      BY <1>2, <2>2, <3>1 DEF Outs
  <2>4. v > request.reported.m /\ (~options.dynamicDrop => v = Larger(request.reported.m, v))
    BY <1>2, <1>5, <1>6, <1>7 DEF Larger
  <2>5. OwnThreshold' /\ Reported'
    BY <1>4, <1>6, <2>3, <2>4 DEF OwnThreshold, Reported
  <2> QED
    BY <1>1, <1>2, <1>3, <2>3, <2>5, AgainKeeps
<1>8. CASE ~(v > out.m)
  <2>1. out' = out
    BY <1>1, <1>8 DEF RaisedOut
  <2>2. ~(v > request.reported.m) /\ ~(try.m > request.reported.m) /\ out.m = request.reported.m
    BY <1>2, <1>4, <1>5, <1>6, <1>8 DEF Larger
  <2>3. Larger(request.reported.m, v) = request.reported.m
    BY <1>2, <1>5, <2>2 DEF Larger
  <2>4. OwnThreshold' /\ Reported'
    BY <1>4, <1>6, <2>1, <2>2, <2>3 DEF OwnThreshold, Reported
  <2> QED
    BY <1>1, <1>2, <1>3, <2>1, <2>4, AgainKeeps
<1> QED
  BY <1>7, <1>8

\* A tile that is written within its limits has skipped nothing that counts.
LEMMA WriteKeeps ==
    ASSUME IInv, Write
    PROVE  IInv'
<1>1. /\ Finished /\ ~NoGoodEarly /\ ~TooBig /\ Count > 0
      /\ End(IF Skipped > 0 THEN "impossible" ELSE IF AtEarly THEN "leaf" ELSE "written")
  BY DEF Write
<1>2. /\ TypeOK /\ InPassed /\ DroppedOnto /\ NoneLost /\ SkippedTooMany /\ LeafSoFar
      /\ Passed = Positions /\ read.skipped \in Nat
  BY <1>1, AllPassed, ReadTypes DEF IInv
<1>3. ~(Skipped > 0) /\ (~Cut => read.skipped = 0)
  <2>1. ~Cut => ~(read.skipped > 0)
    BY <1>1, <1>2 DEF TooBig, TooManyFeatures, TooManyBytes, SkippedTooMany
  <2> QED
    BY <1>2, <2>1 DEF Skipped
<1>4. PICK result \in {"leaf", "written"} :
          End(result) /\ (result = "leaf" => AtEarly)
  BY <1>1, <1>3
<1>5. /\ outcome' = result /\ request' = request /\ read' = read
  BY <1>4 DEF End
<1>6. LeafSuffices'
  <2>1. ASSUME AtEarly
        PROVE  \A i \in Positions : i \in InTile \/ Excused(i)
    <3>1. canStop /\ ~Cut /\ ~read.pending
      BY <1>1, <2>1 DEF NoGoodEarly
    <3> QED
      BY <1>2, <1>3, <2>1, <3>1 DEF LeafSoFar
  <2> QED
    BY <1>4, <1>5, <2>1 DEF LeafSuffices, Excused, Vanished, Positions, F, InTile, options
<1>7. Accounted'
  <2>1. ASSUME ~Cut
        PROVE  \A i \in AllOffered :
                 \/ i \in InTile \/ Vanished(i)
                 \/ i \in read.byRate \cup read.asNeeded /\ \E j \in InTile : Like(i, j)
    BY <1>2, <1>3, <2>1 DEF NoneLost, DroppedOnto, AllOffered
  <2>2. /\ Cut' = Cut /\ AllOffered' = AllOffered /\ InTile' = InTile
        /\ \A i : F(i)' = F(i)
    <3>1. \A l : Truncated(l)' = Truncated(l)
      BY <1>5 DEF Truncated, Visible, OfLayer, InTile, F, options
    <3> QED
      BY <1>5, <3>1 DEF Cut, AllOffered, Positions, Offered, InTile, F
  <2>3. outcome' # "impossible"
    BY <1>5
  <2> QED
    BY <1>5, <2>1, <2>2, <2>3 DEF Accounted, Like, Vanished, F
<1>8. NeverEmptied'
  BY <1>5 DEF NeverEmptied
<1> QED
  BY <1>1, <1>4, <1>6, <1>7, <1>8, EndKeeps

\* What is shown of a layer is not empty if anything is visible of it.
LEMMA LeastShown ==
    ASSUME NEW V \in SUBSET Nat, V # {}
    PROVE  \E m \in V : {j \in V : j < m} = {}
<1>1. PICK x \in V : TRUE
  OBVIOUS
<1>2. \E m \in V : \A y \in Nat : <<y, m>> \in OpToRel(<, Nat) => y \notin V
  BY <1>1, NatLessThanWellFounded, WFMin
<1> QED
  BY <1>2 DEF OpToRel

LEMMA BlankKeeps ==
    ASSUME IInv, Blank
    PROVE  IInv'
<1>1. Finished /\ Count = 0 /\ End("empty") /\ outcome' = "empty" /\ request' = request
  BY DEF Blank, End
<1>2. /\ TypeOK /\ InPassed /\ EmptySoFar /\ Passed = Positions
  BY <1>1, AllPassed DEF IInv
<1>3. /\ InTile \subseteq Positions /\ Positions \subseteq Nat /\ IsFiniteSet(Positions)
      /\ \A i \in Positions : F(i).layer \in Layers
  <2>1. \A i \in Positions : F(i) \in Feature
    BY <1>2, Types
  <2>2. IsFiniteSet(Positions)
    BY <1>2, Types, FS_Interval DEF Positions
  <2>3. InTile \subseteq Positions
    BY <1>2, ReadTypes DEF InTile
  <2> QED
    BY <2>1, <2>2, <2>3 DEF Feature, Positions
<1>4. \A l : Shown(l) \subseteq InTile
  BY DEF Shown, Visible, OfLayer
<1>5. ShownFeatures = {}
  <2>1. ShownFeatures \subseteq Positions
    BY <1>3, <1>4 DEF ShownFeatures
  <2>2. IsFiniteSet(ShownFeatures)
    BY <1>3, <2>1, FS_Subset
  <2> QED
    BY <1>1, <2>2, FS_EmptySet DEF Count
<1>6. ASSUME NEW x \in AllOffered, \A i \in AllOffered : F(i).shows = "shape"
      PROVE  FALSE
  <2>1. InTile # {}
    BY <1>2, <1>6 DEF EmptySoFar, AllOffered, Vanished, Vanishing
  <2>2. PICK q \in InTile : TRUE
    BY <2>1
  <2>3. InTile \subseteq AllOffered
    BY <1>2, <1>3 DEF InPassed, AllOffered
  <2> DEFINE l == F(q).layer
  <2>4. q \in Visible(l) /\ Visible(l) \subseteq Nat /\ l \in Layers
    BY <1>3, <1>6, <2>2, <2>3 DEF Visible, OfLayer
  <2> HIDE DEF l
  <2>5. Shown(l) = {}
    BY <1>5, <2>4 DEF ShownFeatures
  <2>6. PICK m \in Visible(l) : {j \in Visible(l) : j < m} = {}
    BY <2>4, LeastShown
  <2>7. Cardinality({j \in Visible(l) : j < m}) = 0
    BY <2>6, FS_EmptySet
  <2>8. m \in Shown(l)
    BY <2>6, <2>7 DEF Shown, Truncated
  <2> QED
    BY <2>5, <2>8
<1>7. NeverEmptied'
  <2>1. AllOffered' = AllOffered /\ \A i : F(i)' = F(i)
    BY <1>1 DEF AllOffered, Positions, Offered, F
  <2> QED
    BY <1>6, <2>1 DEF NeverEmptied
<1>8. LeafSuffices' /\ Accounted'
  BY <1>1 DEF LeafSuffices, Accounted, Stored
<1> QED
  BY <1>1, <1>7, <1>8, EndKeeps

LEMMA InitKeeps ==
    ASSUME Init
    PROVE  IInv
<1>1. PICK early, writeChildren \in BOOLEAN :
        /\ request \in Requests
        /\ early => MayTryEarly(request)
        /\ tile = [early |-> early, writeChildren |-> writeChildren]
        /\ try = [detail |-> IF early THEN EarlyDetail ELSE Detail,
                  gamma |-> request.start.gamma, m |-> request.start.m, first |-> TRUE]
        /\ read = FreshRead /\ canStop = TRUE
        /\ out = [gamma |-> request.reported.gamma, m |-> request.reported.m, still |-> FALSE]
        /\ children = <<>> /\ outcome = "reading"
  BY DEF Init
<1>2. /\ request \in Request
      /\ request.reported.m >= request.start.m
      /\ request.reported.gamma >= request.start.gamma
  BY <1>1, RequestAssumption
<1>3. request.start \in Thresholds /\ request.reported \in Thresholds
      /\ request.features \in Seq(Feature)
  BY <1>2 DEF Request
<1>4. TypeOK
  <2>1. children \in Seq(Positions)
    BY <1>1, EmptySeq
  <2>2. try \in Tries /\ out \in Outs
    BY <1>1, <1>3, LimitAssumption DEF Thresholds, Tries, Outs
  <2> QED
    BY <1>1, <1>2, <2>1, <2>2, FreshTyped DEF TypeOK, Tries, Outs
<1>5. /\ read.pos = 1 /\ read.lead = {} /\ read.other = {} /\ read.byRate = {}
      /\ read.asNeeded = {} /\ read.skipped = 0
      /\ read.tooManyFeatures = FALSE /\ read.tooManyBytes = FALSE
  BY <1>1 DEF FreshRead
<1>6. Passed = {} /\ InTile = {} /\ Len(request.features) \in Nat
  BY <1>3, <1>5, LenProperties DEF Passed, InTile
<1>7. InPassed /\ DroppedOnto /\ NoneLost /\ SkippedTooMany /\ LeafSoFar /\ EmptySoFar
  BY <1>5, <1>6 DEF InPassed, DroppedOnto, NoneLost, SkippedTooMany, LeafSoFar, EmptySoFar
<1>8. ClusterBound /\ LastCluster /\ ClusterDragged /\ StillResting /\ CountBegun
  BY <1>5, <1>6 DEF ClusterBound, LastCluster, ClusterDragged, StillResting, CountBegun
<1>9. ChildrenSoFar
  <2>1. DOMAIN children = {} /\ Written = {}
    BY <1>1, <1>6 DEF Written
  <2> QED
    BY <2>1 DEF ChildrenSoFar
<1>10. OwnThreshold /\ Reported
  BY <1>1, <1>2, <1>3 DEF OwnThreshold, Reported, Larger, Thresholds
<1>11. ReadToTheEnd /\ LeafSuffices /\ NeverEmptied /\ Accounted
  BY <1>1 DEF ReadToTheEnd, LeafSuffices, NeverEmptied, Accounted, Stored
<1>12. EarlyTry
  <2>1. Detail \in Nat /\ EarlyDetail \in Nat
    BY LimitAssumption
  <2>2. tile.early = early /\ try.m = request.start.m
        /\ try.detail = (IF early THEN EarlyDetail ELSE Detail)
    BY <1>1
  <2>3. early => MayTryEarly(request)
    BY <1>1
  <2> QED
    BY <2>1, <2>2, <2>3 DEF EarlyTry, MayTryEarly
<1> QED
  BY <1>4, <1>7, <1>8, <1>9, <1>10, <1>11, <1>12 DEF IInv

LEMMA NextKeeps ==
    ASSUME IInv, [Next]_vars
    PROVE  IInv'
<1>1. CASE ReadStep
  BY <1>1, ReadKeeps
<1>2. CASE GiveUpEarly
  <2>1. Finished /\ TryLowerDetail /\ out' = out
    BY <1>2 DEF GiveUpEarly, TryLowerDetail, End
  <2> QED
    BY <2>1, LowerKeeps
<1>3. CASE RaiseGamma
  BY <1>3, GammaKeeps
<1>4. CASE RaiseThreshold
  BY <1>4, ThresholdKeeps
<1>5. CASE GiveUp \/ ChooseFromNothing \/ Fail
  <2>1. Finished /\ \E result \in {"failed", "incomplete", "undefined"} : End(result)
    BY <1>5 DEF GiveUp, ChooseFromNothing, Fail, TooBigNow
  <2> QED
    BY <2>1, GivenUpKeeps
<1>6. CASE ReduceDetail
  <2>1. Finished /\ TryLowerDetail /\ out' = out
    BY <1>6 DEF ReduceDetail, TooBigNow, TryLowerDetail, End
  <2> QED
    BY <2>1, LowerKeeps
<1>7. CASE Write
  BY <1>7, WriteKeeps
<1>8. CASE Blank
  BY <1>8, BlankKeeps
<1>9. CASE UNCHANGED vars
  <2>1. UNCHANGED <<request, tile, try, read, canStop, out, children, outcome>>
    BY <1>9 DEF vars
  <2>2. TypeOK'
    BY <2>1 DEF IInv, TypeOK, ReadType, Positions
  <2>3. \A i : F(i)' = F(i)
    BY <2>1 DEF F
  <2>4. InTile' = InTile /\ Passed' = Passed /\ Positions' = Positions
    BY <2>1 DEF InTile, Passed, Positions
  <2>5. /\ InPassed' /\ DroppedOnto' /\ NoneLost' /\ SkippedTooMany' /\ EmptySoFar'
        /\ EarlyTry' /\ LeafSoFar'
    BY <2>1, <2>4 DEF IInv, InPassed, DroppedOnto, NoneLost, SkippedTooMany, EarlyTry, LeafSoFar,
                      AtEarly, FirstDetail, Excused, Vanished, EmptySoFar, Offered, F, Like, options
  <2>6. ClusterBound' /\ LastCluster'
    <3>1. \A l, i : Followers(l, i)' = Followers(l, i) /\ (IsLast(l, i)' <=> IsLast(l, i))
      BY <2>1 DEF Followers, IsLast, F
    <3> QED
      BY <2>1, <2>3, <3>1 DEF IInv, ClusterBound, LastCluster, options
  <2>7. AllOffered' = AllOffered
    BY <2>1 DEF AllOffered, Positions, Offered, F
  <2>8. ClusterDragged' /\ StillResting' /\ CountBegun'
    BY <2>1, <2>7 DEF IInv, ClusterDragged, StillResting, CountBegun, LeadOf, AfterLead, Passed,
                      Offered, F, options
  <2>9. ChildrenSoFar'
    BY <2>1 DEF IInv, ChildrenSoFar, Written, Passed, Positions, F
  <2>10. ReadToTheEnd' /\ OwnThreshold' /\ Reported'
    BY <2>1 DEF IInv, ReadToTheEnd, OwnThreshold, Reported, options
  <2>11. LeafSuffices' /\ NeverEmptied'
    BY <2>1, <2>3, <2>4, <2>7 DEF IInv, LeafSuffices, NeverEmptied, options
  <2>12. Accounted'
    <3>1. \A l : Truncated(l)' = Truncated(l)
      BY <2>1 DEF Truncated, Visible, OfLayer, InTile, F, options
    <3>2. Cut' = Cut
      BY <3>1 DEF Cut
    <3> QED
      BY <2>1, <2>3, <2>4, <2>7, <3>2 DEF IInv, Accounted, Stored
  <2> QED
    BY <2>2, <2>5, <2>6, <2>8, <2>9, <2>10, <2>11, <2>12 DEF IInv
<1> QED
  BY <1>1, <1>2, <1>3, <1>4, <1>5, <1>6, <1>7, <1>8, <1>9 DEF Next, Over, ReadStep

\* The invariant, and what it says of a tile that is done.
LEMMA Invariant == Spec => []IInv
<1>1. Init => IInv
  BY InitKeeps
<1>2. IInv /\ [Next]_vars => IInv'
  BY NextKeeps
<1> QED
  BY <1>1, <1>2, PTL DEF Spec
-----------------------------------------------------------------------------
(***************************************************************************)
(* What is promised of every tile                                           *)
(***************************************************************************)
\* tile.cpp, write_tile: a tile is made with thresholds that are reported, so that the
\* zoom is done over with them, and nothing is reported that it did not come to.
THEOREM ReportsThresholds == Spec => []Reported
<1>1. IInv => Reported
  BY DEF IInv
<1> QED
  BY <1>1, Invariant, PTL

\* tile.cpp, rewrite() and first_time: however often the tile is read, what is for
\* deeper zooms is written for them once, in the order of the file.
THEOREM WritesChildrenOnce == Spec => []ChildrenOnce
<1>1. IInv => ChildrenOnce
  <2> SUFFICES ASSUME IInv, outcome # "reading"
               PROVE  /\ \A k, l \in DOMAIN children : k < l => children[k] < children[l]
                      /\ {children[k] : k \in DOMAIN children} =
                             {i \in Positions : tile.writeChildren /\ F(i).show # "last"}
    BY DEF ChildrenOnce
  <2>1. Passed = Positions
    <3>1. read.pos = Len(request.features) + 1 /\ Len(request.features) \in Nat
      BY Types DEF IInv, ReadToTheEnd
    <3> QED
      BY <3>1 DEF Passed, Positions
  <2>2. Written = Positions
    BY <2>1 DEF Written
  <2> QED
    BY <2>2 DEF IInv, ChildrenSoFar
<1> QED
  BY <1>1, Invariant, PTL

\* tile.cpp, "Can't happen: writing tile even though we skipped": it can't, and every
\* feature of a tile that is written is in it, or was dropped onto one that is, or
\* nothing was left of it.
THEOREM AccountsForAll == Spec => []Accounted
<1>1. IInv => Accounted
  BY DEF IInv
<1> QED
  BY <1>1, Invariant, PTL

\* tile.cpp, can_stop_early: a tile that truncates the pyramid has all that deeper
\* zooms would have, but for polygons without a label point in it and for what a
\* prefilter does not tell.
THEOREM LeavesSuffice == Spec => []LeafSuffices
<1>1. IInv => LeafSuffices
  BY DEF IInv
<1> QED
  BY <1>1, Invariant, PTL

\* tile.cpp, find_feature_to_accumulate_onto(): dropping and coalescing never empty a tile.
THEOREM StaysNonEmpty == Spec => []NeverEmptied
<1>1. IInv => NeverEmptied
  BY DEF IInv
<1> QED
  BY <1>1, Invariant, PTL

\* tile.cpp, multiplier_cluster_size and drop_rest: clusters are no larger than the
\* multiplier, and are dropped whole.
THEOREM KeepsClusters == Spec => []ClustersKept
<1>1. IInv => ClustersKept
  BY DEF IInv, ClustersKept
<1> QED
  BY <1>1, Invariant, PTL
=============================================================================
