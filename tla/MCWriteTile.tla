----------------------------- MODULE MCWriteTile -----------------------------
(***************************************************************************)
(* Instances of WriteTile for TLC: for each strategy, every sequence of a   *)
(* few features of the kinds that matter to it.                             *)
(***************************************************************************)
EXTENDS WriteTile

CONSTANTS One, Two      \* layers

UpTo(n, S) == UNION {[1 .. k -> S] : k \in 1 .. n}

\* Points that are all alike, in one layer.
Plain == [layer |-> {One}, type |-> {"point"}, show |-> {"now"}, rate |-> {"kept"},
          value |-> {1, 2}, size |-> {1}, shows |-> {"shape"}]
Kinds(p) == [layer : p.layer, type : p.type, show : p.show, rate : p.rate,
             value : p.value, size : p.size, shows : p.shows]

\* Two features fit, and nothing is done about more.
Usual == [strategy |-> "none", coalesces |-> FALSE, dynamicDrop |-> FALSE,
          usesGamma |-> FALSE, canTruncate |-> TRUE, prefilter |-> FALSE,
          clusterHere |-> FALSE, averages |-> "no", multiplier |-> 1, maxFeatures |-> 2,
          maxBytes |-> 9, tileLimit |-> 0]

\* Tiles of up to n features, with thresholds that have been raised up to m.
Raised(m) == {p \in (0 .. m) \X (0 .. m) : p[1] <= p[2]}
Tiles(opts, n, kinds, m) ==
    {[options |-> opts, features |-> s, start |-> [m |-> p[1], gamma |-> 0],
      reported |-> [m |-> p[2], gamma |-> 0]] : s \in UpTo(n, Kinds(kinds)), p \in Raised(m)}

\* Clusters of retained points, gamma and gaps at the same time.
Thinned(n, m) ==
    Tiles([Usual EXCEPT !.strategy = "densest", !.usesGamma = TRUE, !.multiplier = 2],
          n, [Plain EXCEPT !.rate = {"kept", "extra"}], m)
Clusters == Thinned(4, 0) \cup Thinned(3, 2)

\* Clusters of two layers that interleave, and with lines in between.
Gamma == [Usual EXCEPT !.usesGamma = TRUE, !.multiplier = 2]
Pairs == [Plain EXCEPT !.rate = {"kept", "extra"}, !.value = {1}]
Interleaved == Tiles(Gamma, 4, [Pairs EXCEPT !.layer = {One, Two}], 0)
               \cup Tiles(Gamma, 4, [Pairs EXCEPT !.type = {"point", "line"}], 0)

\* Features that belong to other zooms, and tiles that are first tried in full.
Leaves == Tiles([Usual EXCEPT !.maxFeatures = 3, !.maxBytes = 4],
                3, [Plain EXCEPT !.show = {"now", "later", "last", "filtered"}, !.value = {1},
                                 !.rate = {"drop", "exempt"}], 0)

\* A prefilter, and a limit in each layer.
Prefiltered == Tiles([Usual EXCEPT !.strategy = "densest", !.prefilter = TRUE,
                                   !.multiplier = 2],
                     3, [Plain EXCEPT !.show = {"now", "later"}, !.rate = {"kept", "extra"}], 0)
Limited == Tiles([Usual EXCEPT !.strategy = "densest", !.tileLimit = 1, !.maxFeatures = 1],
                 4, [Plain EXCEPT !.layer = {One, Two}, !.value = {1}], 0)

Coalescing == Tiles([Usual EXCEPT !.strategy = "smallest", !.coalesces = TRUE,
                                  !.maxFeatures = 1, !.maxBytes = 3],
                    4, [Plain EXCEPT !.value = 1 .. 3], 1)

\* Dropping from single tiles, with features added for the density of clusters.
Fraction == Tiles([Usual EXCEPT !.strategy = "fraction", !.dynamicDrop = TRUE,
                                !.usesGamma = TRUE, !.multiplier = 2, !.maxFeatures = 1],
                  3, [Plain EXCEPT !.rate = {"kept", "drop", "sparse"},
                                   !.shows = {"shape", "blank"}], 0)

\* -K with several layers and types of geometry.
Nearby == Tiles([Usual EXCEPT !.strategy = "densest", !.clusterHere = TRUE,
                              !.maxFeatures = 1, !.maxBytes = 4],
                3, [Plain EXCEPT !.layer = {One, Two}, !.type = {"point", "line"},
                                 !.rate = {"kept", "drop"}, !.value = {1}], 0)

Attribute == Tiles([Usual EXCEPT !.strategy = "attribute", !.maxFeatures = 1, !.maxBytes = 4],
                   3, [Plain EXCEPT !.value = 0 .. 2, !.shows = {"shape", "blank"}], 1)

\* Features of which nothing may be left, as they are dropped, coalesced or clustered.
Lossy == [Plain EXCEPT !.shows = {"shape"} \cup Vanishing]
Vanished == Tiles([Usual EXCEPT !.strategy = "smallest", !.coalesces = TRUE,
                                !.maxFeatures = 1, !.maxBytes = 4], 3, Lossy, 0)
            \cup Tiles([Gamma EXCEPT !.strategy = "densest", !.maxBytes = 2],
                       3, [Lossy EXCEPT !.rate = {"kept", "extra"}, !.value = {1}], 0)
            \cup Tiles([Usual EXCEPT !.prefilter = TRUE, !.maxFeatures = 3],
                       2, [Lossy EXCEPT !.show = {"now", "later", "filtered"}, !.value = {1}], 0)

\* --cluster-densest-as-needed, down to cluster_maxzoom and deeper.
Averaged == UNION {Tiles([Usual EXCEPT !.strategy = "densest", !.coalesces = TRUE,
                                       !.averages = a, !.maxFeatures = 1, !.maxBytes = 4],
                         3, Plain, 1) : a \in {"here", "deeper"}}

\* More features than fit, and nothing to be done about them.
TooMany == Tiles(Usual, 3, [Plain EXCEPT !.value = {1}, !.show = {"now", "later"}], 0)

EveryStrategy ==
    UNION {Clusters, Interleaved, Leaves, Prefiltered, Limited, Coalescing, Fraction,
           Nearby, Attribute, Vanished, Averaged, TooMany}
=============================================================================
