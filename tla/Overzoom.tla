------------------------------ MODULE Overzoom ------------------------------
(***************************************************************************)
(* overzoom() of clip.cpp: makes one tile from the parts that fall into it *)
(* of the features of other tiles.  tippecanoe-overzoom also thins the     *)
(* clusters that --retain-points-multiplier has left down to one feature   *)
(* of each (-m), accumulates the attributes of the others onto it (-E),    *)
(* keeps one feature of each identifier, and restores the order of input.  *)
(* tile-join --overzoom asks besides which of the four tiles of the next   *)
(* zoom level would have anything in them.                                 *)
(*                                                                         *)
(* Geometry is abstract: a feature knows where any of it is visible, 0     *)
(* being the outer part of the buffer of this tile, which is in no child.  *)
(* It is nowhere if it is clipped away even from this tile.  One attribute *)
(* is followed, the one with an accumulator; full_values is what a feature *)
(* has for it, a sequence of at most one value.                            *)
(***************************************************************************)
EXTENDS Naturals, Sequences, FiniteSets, SequencesExt

CONSTANTS
    Names,          \* of layers
    Ids,            \* of features
    Requests        \* what may be asked for

NoId == "no id"
ASSUME IdAssumption == NoId \notin Ids

\* The operations of set_attribute_accum(), or none; and those with which
\* preserve_attribute() does not begin a new value.
Operations == {"none", "sum", "product", "mean", "max", "min", "concat", "comma", "count"}
Unmade == {"product", "concat", "comma"}

Values == [num : Nat, count : Nat]

Features == [
    key : Nat,                          \* tells features apart, not in the code
    id : Ids \cup {NoId},
    at : SUBSET (0..4),                 \* the children it is visible in, and the buffer
    first : BOOLEAN,                    \* tippecanoe:retain_points_multiplier_first
    seq : Nat,                          \* tippecanoe:retain_points_multiplier_sequence
    fate : {"kept", "filtered", "simplified"},
    values : Seq(Values)]

Tiles == Seq([name : Names, features : Seq(Features)])

AllRequests == [
    layers : Tiles,                     \* those of the source tiles, one after another
    demultiply : BOOLEAN, op : Operations, dedup : BOOLEAN, ordered : BOOLEAN,
    next : BOOLEAN]                     \* whether the children are asked for

ASSUME RequestAssumption == Requests \subseteq AllRequests

\* A key is given to one feature of a request only, or it would not tell them apart.
ASSUME KeyAssumption ==
    \A r \in Requests : \A l, m \in DOMAIN r.layers :
        \A i \in DOMAIN r.layers[l].features : \A j \in DOMAIN r.layers[m].features :
            r.layers[l].features[i].key = r.layers[m].features[j].key => l = m /\ i = j

\* The children are only asked for by tile-join, which asks for nothing else and has no
\* filter (tile-join.cpp:830).
ASSUME ChildAssumption ==
    \A r \in Requests : r.next =>
        /\ ~r.demultiply /\ r.op = "none" /\ ~r.dedup /\ ~r.ordered
        /\ \A l \in DOMAIN r.layers : \A i \in DOMAIN r.layers[l].features :
              r.layers[l].features[i].fate = "kept"

VARIABLES
    request,
    place,          \* 0 while the tile is made, then the child looked at
    sources,        \* the layers of the source tiles, one after another
    layer,          \* the one being read
    along,          \* its next feature; 0 if it is only to be begun
    pending,        \* pending_tile_features
    out,            \* outtile
    seen,           \* deduplicate_ids
    tile,           \* outtile of the tile asked for, once its children are looked at
    next,           \* next_overzoomed_tiles
    status          \* reading, done, or exited

vars == <<request, place, sources, layer, along, pending, out, seen, tile, next, status>>

TypeOK ==
    /\ request \in AllRequests
    /\ place \in 0..4
    /\ {sources, out, tile} \subseteq Tiles
    /\ layer \in 1..(Len(sources) + 1)
    /\ layer <= Len(sources) => along \in 0..(Len(sources[layer].features) + 1)
    /\ pending \in Seq(Features)
    /\ seen \in [Names -> SUBSET Ids]
    /\ next \subseteq 1..4
    /\ status \in {"reading", "done", "exited"}

NothingSeen == [n \in Names |-> {}]

Init ==
    /\ request \in Requests
    /\ place = 0
    /\ sources = request.layers
    /\ layer = 1
    /\ along = 0
    /\ pending = <<>>
    /\ out = <<>>
    /\ seen = NothingSeen
    /\ tile = <<>>
    /\ next = {}
    /\ status = "reading"

-----------------------------------------------------------------------------
(* One feature of a cluster is output, with what the others add to it. *)

Name == sources[layer].name

\* The index of the layer of that name in a tile.
In(t, name) == CHOOSE k \in DOMAIN t : t[k].name = name

\* preserve_attribute1() of attribute.cpp.  A mean is kept as its numerator
\* and count, and the contents of strings are left out.
Plus(op, v, w) ==
    CASE op = "sum" -> [num |-> v.num + w.num, count |-> 0]
      [] op = "max" -> IF w.num > v.num THEN w ELSE v
      [] op = "min" -> IF w.num < v.num THEN w ELSE v
      [] op = "mean" -> [num |-> v.num + w.num, count |-> IF v.count <= 1 THEN 2 ELSE v.count + 1]
      [] op = "count" -> LET n == IF v.count <= 1 THEN 2 ELSE v.count + 1
                         IN  [num |-> n, count |-> n]
      [] OTHER -> v

Begun(op, w) ==
    CASE op = "count" -> [num |-> 1, count |-> 1]
      [] op = "mean" -> [num |-> w.num, count |-> 1]
      [] OTHER -> w

Preserved(values, f) ==
    IF f.values = <<>> THEN values
    ELSE IF values = <<>> THEN <<Begun(request.op, f.values[1])>>
    ELSE <<Plus(request.op, values[1], f.values[1])>>

\* Wrong: the survivor is among those accumulated onto it.
PreservedFromAll(cluster) ==
    IF request.op = "none" THEN cluster[1].values
    ELSE FoldLeft(Preserved, cluster[1].values, cluster)

FullValues(cluster) ==
    IF request.op = "none" THEN cluster[1].values
    ELSE FoldLeft(Preserved, cluster[1].values, Tail(cluster))

Duplicate(f) == request.dedup /\ f.id # NoId /\ f.id \in seen[Name]

WithId(s, f) ==
    IF request.dedup /\ f.id # NoId THEN [s EXCEPT ![Name] = @ \cup {f.id}] ELSE s

\* The program ends with "can't happen".
Impossible(cluster) ==
    /\ ~Duplicate(cluster[1])
    /\ request.op \in Unmade
    /\ cluster[1].values = <<>>
    /\ \E i \in DOMAIN cluster : cluster[i].values # <<>>

\* feature_out(): the tile and the identifiers after it.
FeatureOut(cluster) ==
    IF Duplicate(cluster[1]) THEN [out |-> out, seen |-> seen]
    ELSE [out |-> [out EXCEPT ![In(out, Name)].features =
                      Append(@, [cluster[1] EXCEPT !.values = FullValues(cluster)])],
          seen |-> WithId(seen, cluster[1])]

\* Wrong: the limit holds for the tile itself.
FullAlways(t) == t[In(t, Name)].features # <<>>

\* feature_limit, which is 1 for the children and else as good as none.
Full(t) == place # 0 /\ t[In(t, Name)].features # <<>>

-----------------------------------------------------------------------------
(* A layer is read feature by feature. *)

\* Wrong: the identifiers of a layer are forgotten with each tile.
StartLayerAgain ==
    /\ status = "reading" /\ layer <= Len(sources) /\ along = 0
    /\ along' = 1
    /\ out' = IF \E k \in DOMAIN out : out[k].name = Name THEN out
              ELSE Append(out, [name |-> Name, features |-> <<>>])
    /\ seen' = [seen EXCEPT ![Name] = {}]
    /\ UNCHANGED <<request, place, sources, layer, pending, tile, next, status>>

StartLayer ==
    /\ status = "reading" /\ layer <= Len(sources) /\ along = 0
    /\ along' = 1
    /\ out' = IF \E k \in DOMAIN out : out[k].name = Name THEN out
              ELSE Append(out, [name |-> Name, features |-> <<>>])
    /\ UNCHANGED <<request, place, sources, layer, pending, seen, tile, next, status>>

Visible(f) == IF place = 0 THEN f.at # {} ELSE place \in f.at

AtFeature ==
    status = "reading" /\ layer <= Len(sources) /\ along \in DOMAIN sources[layer].features

Feature == sources[layer].features[along]

\* Clipped away, which is found out before anything is known of its cluster.
Clip ==
    /\ AtFeature /\ ~Visible(Feature)
    /\ along' = along + 1
    /\ seen' = WithId(seen, Feature)
    /\ UNCHANGED <<request, place, sources, layer, pending, out, tile, next, status>>

\* Wrong: a feature that is filtered away does not begin a cluster.
FlushesIfKept(f) == pending # <<>> /\ (request.demultiply => f.first /\ f.fate = "kept")

\* flush_multiplier_cluster
Flushes(f) == pending # <<>> /\ (request.demultiply => f.first)

\* Wrong: every feature is put out by itself.
AfterFlushPending(f) ==
    IF Flushes(f) THEN [out |-> FeatureOut(pending).out, seen |-> FeatureOut(pending).seen,
                          pending |-> pending]
    ELSE [out |-> out, seen |-> seen, pending |-> pending]

\* The last cluster is output when the next one begins.
AfterFlush(f) ==
    IF Flushes(f) THEN [out |-> FeatureOut(pending).out, seen |-> FeatureOut(pending).seen,
                          pending |-> <<>>]
    ELSE [out |-> out, seen |-> seen, pending |-> pending]

\* The tags of the cluster are taken off, and its sequence read, only with -m.
Untagged(f) == IF request.demultiply THEN [f EXCEPT !.first = FALSE] ELSE [f EXCEPT !.seq = 0]

MayOutput == ~Impossible(pending) /\ ~Full(FeatureOut(pending).out)
ReachesLimit == ~Impossible(pending) /\ Full(FeatureOut(pending).out)

\* A feature that is visible begins a cluster or not, and then may still be
\* filtered or simplified away.
Read ==
    /\ AtFeature /\ Visible(Feature)
    /\ Flushes(Feature) => MayOutput
    /\ along' = along + 1
    /\ \E flushed \in {AfterFlush(Feature)} :
          /\ out' = flushed.out
          /\ \/ /\ Feature.fate = "kept"
                /\ pending' = Append(flushed.pending, Untagged(Feature))
                /\ seen' = flushed.seen
             \/ /\ Feature.fate # "kept"
                /\ pending' = flushed.pending
                /\ seen' = WithId(flushed.seen, Feature)
    /\ UNCHANGED <<request, place, sources, layer, tile, next, status>>

\* The limit is reached, and the loop ends with the cluster still pending.
FlushToLimit ==
    /\ AtFeature /\ Visible(Feature) /\ Flushes(Feature) /\ ReachesLimit
    /\ along' = Len(sources[layer].features) + 1
    /\ out' = FeatureOut(pending).out
    /\ seen' = FeatureOut(pending).seen
    /\ UNCHANGED <<request, place, sources, layer, pending, tile, next, status>>

AtEnd ==
    status = "reading" /\ layer <= Len(sources) /\ along = Len(sources[layer].features) + 1

AtTileEnd == status = "reading" /\ layer > Len(sources)

\* Wrong: the last comes first.
PrecedesBackwards(f, i, g, j) == f.seq > g.seq \/ (f.seq = g.seq /\ i < j)

Precedes(f, i, g, j) == f.seq < g.seq \/ (f.seq = g.seq /\ i < j)

\* The one way to have the features of a layer in the order of their seq, and in the
\* order they were in where that is the same.
Restored(fs) ==
    {[i \in DOMAIN fs |-> fs[p[i]]] :
        p \in {q \in [DOMAIN fs -> DOMAIN fs] :
                  \A i, j \in DOMAIN fs : i < j => Precedes(fs[q[i]], q[i], fs[q[j]], q[j])}}

EndLayer ==
    /\ AtEnd
    /\ pending # <<>> => MayOutput
    /\ layer' = layer + 1
    /\ along' = 0
    /\ pending' = <<>>
    /\ \E ended \in {IF pending = <<>> THEN [out |-> out, seen |-> seen] ELSE FeatureOut(pending)} :
          /\ IF request.ordered
             THEN \E fs \in Restored(ended.out[In(ended.out, Name)].features) :
                    out' = [ended.out EXCEPT ![In(ended.out, Name)].features = fs]
             ELSE out' = ended.out
          /\ seen' = ended.seen
    /\ UNCHANGED <<request, place, sources, tile, next, status>>

\* The layers that remain of the tile are not read.
EndAtLimit ==
    /\ AtEnd /\ pending # <<>> /\ ReachesLimit
    /\ layer' = Len(sources) + 1
    /\ along' = 0
    /\ pending' = <<>>
    /\ out' = FeatureOut(pending).out
    /\ seen' = FeatureOut(pending).seen
    /\ UNCHANGED <<request, place, sources, tile, next, status>>

Exit ==
    /\ \/ AtFeature /\ Visible(Feature) /\ Flushes(Feature)
       \/ AtEnd /\ pending # <<>>
    /\ Impossible(pending)
    /\ status' = "exited"
    /\ UNCHANGED <<request, place, sources, layer, along, pending, out, seen, tile, next>>

-----------------------------------------------------------------------------
(* The tile has been made, and its children are made from it, one by one. *)

HasFeatures(t) == \E k \in DOMAIN t : t[k].features # <<>>

\* Wrong: the next child is begun where the last one ended.
LookAtOn(child, t) ==
    /\ place' = child
    /\ sources' = t
    /\ along' = 0
    /\ out' = <<>>
    /\ seen' = NothingSeen
    /\ UNCHANGED layer

LookAt(child, t) ==
    /\ place' = child
    /\ sources' = t
    /\ layer' = 1
    /\ along' = 0
    /\ out' = <<>>
    /\ seen' = NothingSeen

\* What is returned has no layers that are empty.
Returned(t) ==
    LET full == {k \in DOMAIN t : t[k].features # <<>>}
        n    == Cardinality(full)
    IN  {[i \in 1..n |-> t[p[i]]] :
            p \in {q \in [1..n -> full] : /\ \A i, j \in 1..n : i < j => q[i] < q[j]
                                         /\ \A k \in full : \E i \in 1..n : q[i] = k}}

FinishTile ==
    /\ AtTileEnd /\ place = 0
    /\ \E t \in Returned(out) : tile' = t
    /\ IF request.next /\ out # <<>>
       THEN LookAt(1, out) /\ UNCHANGED status
       ELSE status' = "done" /\ UNCHANGED <<place, sources, layer, along, out, seen>>
    /\ UNCHANGED <<request, pending, next>>

FinishChild ==
    /\ AtTileEnd /\ place # 0
    /\ next' = IF HasFeatures(out) THEN next \cup {place} ELSE next
    /\ IF place < 4
       THEN LookAt(place + 1, sources) /\ UNCHANGED status
       ELSE status' = "done" /\ UNCHANGED <<place, sources, layer, along, out, seen>>
    /\ UNCHANGED <<request, pending, tile>>

Next ==
    \/ StartLayer \/ Clip \/ Read \/ FlushToLimit \/ EndLayer \/ EndAtLimit
    \/ Exit \/ FinishTile \/ FinishChild

Spec == Init /\ [][Next]_vars

-----------------------------------------------------------------------------
(* Properties. *)

Kept(f) == f.at # {} /\ f.fate = "kept"

Source(n) == {l \in DOMAIN request.layers : request.layers[l].name = n}

\* A kept feature is the first since the last beginning of a cluster that is seen.
IsFirst(fs, i) ==
    /\ Kept(fs[i])
    /\ request.demultiply =>
          \A j \in 1..(i - 1) : Kept(fs[j]) => \E k \in (j + 1)..i : fs[k].first /\ fs[k].at # {}

Keys(fs) == {fs[i].key : i \in DOMAIN fs}

Made(n) == {k \in DOMAIN tile : tile[k].name = n}

Plain == status = "done" /\ ~request.dedup

\* Of every cluster whose beginning is visible one feature is left, the first that the
\* filter lets through, also when it let the beginning through or not, and when the cluster is at
\* the end of a layer that another tile goes on with (clip.cpp:1591-1618, :1683-1689).
FirstOfEach ==
    Plain => \A n \in Names :
        /\ UNION {Keys(tile[k].features) : k \in Made(n)} =
           UNION {{request.layers[l].features[i].key :
                       i \in {j \in DOMAIN request.layers[l].features : IsFirst(request.layers[l].features, j)}} :
                  l \in Source(n)}
        /\ \A k \in Made(n) : \A i, j \in DOMAIN tile[k].features :
              i # j => tile[k].features[i].key # tile[k].features[j].key

Num(f) == IF f.values = <<>> THEN 0 ELSE f.values[1].num
Carriers(f) == IF f.values = <<>> THEN 0 ELSE IF f.values[1].count <= 1 THEN 1 ELSE f.values[1].count

Total(Of(_), t, n, Counts(_)) ==
    MapThenSumSet(LAMBDA at : Of(t[at[1]].features[at[2]]),
                  {at \in UNION {{k} \X DOMAIN t[k].features : k \in DOMAIN t} :
                      t[at[1]].name = n /\ Counts(t[at[1]].features[at[2]])})

\* Thinning takes nothing away from what is summed up, and counts nothing twice: what the
\* features had that fell into the tile and were not filtered away is what the features
\* of the tile have, whichever clusters it moved between (clip.cpp:1383-1431).  How many were
\* counted is the count that attribute.cpp keeps: a feature to which no other was added
\* has it not, and shows its own value instead of 1, against README.md:425.
Conserved ==
    Plain => \A n \in Names :
        /\ request.op \in {"sum", "mean"} =>
              Total(Num, tile, n, LAMBDA f : TRUE) = Total(Num, request.layers, n, Kept)
        /\ request.op \in {"count", "mean"} =>
              Total(Carriers, tile, n, LAMBDA f : TRUE) = Total(Carriers, request.layers, n, Kept)

Once(t) ==
    \A k, m \in DOMAIN t : \A i \in DOMAIN t[k].features : \A j \in DOMAIN t[m].features :
        t[k].name = t[m].name /\ <<k, i>> # <<m, j>> =>
            t[k].features[i].id = NoId \/ t[k].features[i].id # t[m].features[j].id

\* A feature that is visible puts out what is pending, or goes on with its cluster.
PutsOut(f) == f.at # {} /\ (request.demultiply => f.first)

\* Another feature has been read when the cluster that this one leads is put out.
ReadBy(m, i, l, j) ==
    m < l \/ (m = l /\ \A k \in (j + 1)..i : ~PutsOut(request.layers[l].features[k]))

\* An identifier is taken, for the feature that leads a cluster, by one that led a
\* cluster before it, and by any that was clipped or filtered away until it is put out.
Taken(l, j) ==
    LET f == request.layers[l].features[j]
    IN  /\ f.id # NoId
        /\ \E m \in Source(request.layers[l].name) : \E i \in DOMAIN request.layers[m].features :
              /\ request.layers[m].features[i].id = f.id
              /\ \/ ~Kept(request.layers[m].features[i]) /\ ReadBy(m, i, l, j)
                 \/ IsFirst(request.layers[m].features, i) /\ (m < l \/ (m = l /\ i < j))

\* No layer has two features with the same identifier, also when they come from different
\* tiles or different clusters, and each has every leader of a cluster whose identifier is
\* not taken (clip.cpp:1357-1363, :1500-1508).  "only the first feature with any given feature
\* ID" (README.md:1052) is not what the code does when Taken is by one that is not Kept:
\* one that has waited to be put out is dropped, at :1358, for a later one that was itself
\* dropped, at :1567, :1586, :1624 or :1666, and the tile has none of the two.
IdsMerged ==
    request.dedup =>
        /\ Once(out)
        /\ status = "done" => \A n \in Names :
              UNION {Keys(tile[k].features) : k \in Made(n)} =
              UNION {{request.layers[l].features[i].key :
                          i \in {j \in DOMAIN request.layers[l].features :
                                    IsFirst(request.layers[l].features, j) /\ ~Taken(l, j)}} :
                     l \in Source(n)}

Sequence(key) ==
    LET at == CHOOSE at \in UNION {{l} \X DOMAIN request.layers[l].features : l \in DOMAIN request.layers} :
                  request.layers[at[1]].features[at[2]].key = key
    IN  request.layers[at[1]].features[at[2]].seq

\* A layer is in the order of the input again, with what several tiles and the last
\* cluster of each have given to it (clip.cpp:1691-1693).
OrderRestored ==
    (status = "done" /\ request.ordered /\ request.demultiply) =>
        \A k \in DOMAIN tile : \A i, j \in DOMAIN tile[k].features :
            i < j => Sequence(tile[k].features[i].key) <= Sequence(tile[k].features[j].key)

\* The children that tile-join is told of are those that have anything in them when they are
\* made from the source, as it makes them: not from this tile (clip.cpp:1697-1731, tile-join.cpp:796-840).
ChildrenFound ==
    (status = "done" /\ request.next) =>
        next = (UNION {UNION {f.at : f \in Range(request.layers[l].features)} : l \in DOMAIN request.layers}) \ {0}

=============================================================================
