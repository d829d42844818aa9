# Tippecanoe in TLA+

TLA+ models of the parts of tippecanoe where the order of steps matters: how its
sources are read by several threads, sorted, thinned out by rate, and made into
tiles zoom level by zoom level, with retries, until every tile fits; how tiles go
through external filters and into a tileset; and how tilesets are joined and tiles
overzoomed.  TLC checks the models on small instances; the TLA+ proof system
proves some of the results for every instance.  Line numbers refer to the files of
the repository.

1. [The system](#1-the-system)
2. [Modules](#2-modules)
3. [What is checked](#3-what-is-checked)
4. [What is proved](#4-what-is-proved)
5. [Where the code and its documentation disagree](#5-where-the-code-and-its-documentation-disagree)
6. [What is not modelled](#6-what-is-not-modelled)
7. [Plan](#7-plan)

## 1. The system

`tippecanoe` runs as a pipeline within one process.  `read_input()` (`main.cpp`)
calls each stage when the one before is finished; within a stage threads work in
parallel.

```
 sources --parsers--> readers' files --radix()--> geometry in index order,
                                                  each feature with a minimum zoom
   --write_first_tile--> file of tile 0/0/0 --traverse_zooms()--> tileset
                             ^    run_thread(): write_tile() for each tile
                             |______ rewrite(): geometry of the next zoom level
```

Two parts stand beside it.  Within `write_tile()` the features of a tile may go
through a prefilter and a postfilter, which are programs of their own (`plugin.cpp`).
And `tile-join` reads finished tilesets side by side and writes their tiles merged
into another one; for tiles that a tileset does not have it calls `overzoom()`
(`clip.cpp`), as `tippecanoe-overzoom` does for single tiles.

| component | state | operations | what is hard | what makes it correct |
|---|---|---|---|---|
| reading of sources: `read_input`, `run_read_parallel`, `runQueue`, `fgbRunQueue`, `serialize_feature` | a reader per CPU (files for geometry and index), the sequence of the next feature, temporary files of a stream, `is_parsing` | open, map, stream, queue, cut up, parse, join | threads give out sequence numbers at once; a stream is copied on while the parser thread works on the file before | each feature is parsed once; sequence numbers are in the order of the input; a file is not written while it is parsed |
| sorting: `radix`, `radix1`, `run_sort`, `merge` | buckets by the next bits of the index, the count of files that may be open | split, sort units in threads, merge, copy, subdivide | subdivision under a limit on memory and files; short units; the end of the index | nothing is lost or doubled; the order; files suffice and are closed |
| dot dropping: `prep_drop_states`, `calc_feature_minzoom` | a `drop_state` for each zoom level | the minimum zoom of the next feature | fractions carried from feature to feature; distances that wrap | no zoom level takes more or less than its share, or leaves out what is far from all others |
| traversal: `traverse_zooms`, `run_thread`, `rewrite` | temporary files for this zoom level and the next, thresholds, `skip_children` | pass over a zoom level, next pass, next level, extension, failure | retries after part of the work is done; threads; tiles that stand in for their descendants | all tiles of a zoom level are made alike; what is reported complete is; nothing is written twice |
| making a tile: `write_tile`, `next_feature` | what is kept so far, thresholds, cluster sizes, samples | keep, drop, coalesce, skip, retry with less detail or higher thresholds | estimates from incomplete readings; clusters; the first try with full detail | nothing vanishes without a trace; what is raised is reported; a leaf has all its descendants would |
| tileset stores: `mbtiles.cpp`, `dirtiles.cpp`, `pmtiles_file.cpp`, `pmtiles.hpp` | tables of tiles and of images, files of a directory, entries of an archive | write a tile, erase a zoom level, convert, list, look up | images that tiles share; an earlier tileset; runs and leaves; narrow integers | a store is a function from tiles to contents; the archive has the same tiles, and each is found |
| joining: `tile-join.cpp` | readers in tile order, the batch, what threads have to join and have joined | open, read the next tile, dispatch, join, collect, overzoom | batches that must not divide a tile; readers that make up tiles past their end | each tile of the output has all the sources have, once; a zoom level is scaled up as a whole; it ends |
| external filters: `plugin.cpp`, `run_prefilter` | a lock, pipes, descriptors, a writer thread and a process for each filter | set up, write, read back, wait, join | pipes inherited by other children; full pipes; a filter that stops early | everything comes back; no deadlock |
| overzooming: `overzoom()`, `feature_out()` | the tile in the making, the pending cluster, identifiers seen | begin a layer, read a feature, output a cluster, look at the children | clusters that end with a layer, or begin with a feature that goes; layers from several tiles | one of each cluster and of each identifier; sums are kept; the children claimed have something in them |
| attributes: `attribute.cpp` | `attribute_accum_state` | accumulate | an attribute that the survivor lacks | what is dropped is accounted for |
| feature filters, geometry, shared borders, string pool, vector tiles, JSON, CSV, projections, compression, options | mostly none: functions of their input | | numeric limits | see section 6 |

How they interact: stages hand over files (geometry, index, pool) and counts; the
traversal calls `write_tile()` with the thresholds of the pass and takes back in
`write_tile_args` the thresholds that the tile came to, what it dropped and which
children need not be made.  Threads within a stage share only what their stage
gives them: the list of files to take, atomic counters of progress, `is_parsing`,
`pipe_lock`.

The traversal writes to a store whatever tiles `write_tile()` makes and erases a zoom
level before it goes over it again, so the stores promise it a plain function from
tiles to contents (KeyedTiles), and it promises that a tile is never written twice
(`WrittenOnce`).

The hazards in `PROJECT.json` are these components' hard parts by line, each with
the properties that would show it going wrong.

## 2. Modules

**TilePyramid** models `traverse_zooms()` with its threads.  `files` and `open`
are `geomfd[j]`, as the headers of the tiles in each file; `sub` are the files for
the next zoom level; `skip` is `skip_children`; `main` has the locals of
`traverse_zooms()`; `tasks` is `pass_dispatch`; `thread[w]` has the locals of
`run_thread()` and its `write_tile_args`.  A thread takes a file (`TakeFile`),
goes through its tiles (`SkipTile`, `WriteTile`, `GiveUp`, `FailTile`) and lets go
of it (`CloseFile`).  When all are joined the zoom level is done over with the
thresholds they report (`NextPass`), or left (`NextLevel`), or it was the last
(`Return`, `ReturnFailed`).  `log` is a history variable for the properties:
what each finished zoom level did.
`write_tile()` is one step here, reduced to `need[t]`, the least gamma and
threshold with which tile t fits: at lower thresholds it raises its own until it
does.  The tile of a zoom level below `MinZoom` is never stored.

**TileLevels** is its abstract specification: the tileset only ever grows by whole
zoom levels, from the top, and a zoom level when added lacks only tiles that have
nothing to draw or have an ancestor to stand in for them.

**WriteTile** models `write_tile()` for one tile.  `request` is what it is called
with: options, features and thresholds; a feature is known by what the decisions
depend on: its layer and type, whether it is for this zoom level, what the drop
rate does with it, the value a strategy measures (gap, extent, drop sequence or
attribute), its size, and what comes of its geometry (`shows`).  Each
feature that is read is one step: `Hide`, `NoAnchor`, `DropByRate`, `DropByGamma`, `Cluster`,
`Coalesce`, `DropAsNeeded`, `Vanish`, `Skip` or `Keep`, in the order of the branches of the
code.  `NoAnchor` and `Vanish` are the features that the reading goes on past with a
bare `continue`, so that they are neither kept, skipped nor dropped: polygons that get no
label point in this tile (tile.cpp:1917-1931), what is too small to draw (2157-2180), and
what was clipped away (2184).  A feature that is `"blank"` vanishes only later, in
simplification, and is counted until then.  `averages` is
`--cluster-densest-as-needed`, which in zooms deeper than `cluster_maxzoom` measures
nothing (2024).  When all are read, `GiveUpEarly`, `RaiseGamma`, `RaiseThreshold` and
`ReduceDetail` start over; `GiveUp`, `Fail`, `Write` and `Blank` end.
`ChooseFromNothing` is the code's look into an empty vector.
Simplified: whether a point is too near the one before for gamma or for `-K` is
left open, and so is which of the sampled values above the present threshold is
chosen (the code goes by a fraction of the sorted samples); the sample is not thinned
at 100,000; `--drop-by-attribute-descending` is the mirror image and left out;
`--preserve-multiplier-density-threshold` appears as features with rate `sparse`;
placeholders kept for complexity when `feature_minzoom > z + 1` are left out; a
prefilter passes features on unchanged.

**ReadInput** models `read_input()` up to the last source.  A source is a sequence
of items, where an item is a separator or the number of features that are
serialized when a thread comes to it.  A batch is what threads are started for:
by `ReadMapped`, by the queues (`Queue`, `RunQueue`), or by the intermediate
thread of a stream (`StartBatch`, `StartLast`), which closes the temporary file
(`CloseTemp`) and then clears `is_parsing` (`EndParsing`).  `Parse(b, i)` is
thread i's next item.  Descriptors are given out as `open()` does, the lowest
that is free, so that one that is used again is seen.  Reads of a stream return
as much as there is up to `ReadBuf`.  The area of each feature counts as 1.

**DropStates** has the operators of `calc_feature_minzoom()` and
`prep_drop_states()`.  The code's sequences are doubles; here they are integers in
units of `1 / RateDen^BaseZoom`, in which every interval is a whole number.
Indices and squares of distances wrap around at `2 * Side` bits, 64 in the code.
**DotDropping** is the specification over them: features go by in the order of
their index and each is taken by the zoom levels from some minimum on.

**RadixSort** models `radix()` down to the merge.  `calls` is the stack of calls of
`radix1()`, each with its buckets; `availfiles` is counted as the code counts it.
`SortUnit(a)` is a thread of `run_sort()`; `MergeNext` is one round of `merge()`,
which gives the feature its minimum zoom.  A feature counts 1 towards memory, and
units are rounded to `Page` features.  `Distribute` is one step, since nothing runs
beside it.  `SortsForDropping` is the refinement of DotDropping: the drop states
are `ds` itself, and what has been taken is computed from what has come out.

**FilterPipe** models a filter's life in a tile thread: `Lock`, `MakePipes`, `Fork`
and `Unlock` are `setup_filter()`, in which another thread's child must not inherit
the pipes; `WriteOut`, `WriteBroken` and `CloseWriter` are the writer thread;
`ReadBack`, `CloseReader`, `Wait` and `Join` are the tile thread until the filter has
returned.  A filter's process (`Exec`, `FilterReads`, `FilterWrites`, `FilterExits`)
is external: it copies, sorts (writes only when it has read everything), stops
after the first feature, or reads nothing.  A pipe ends when no process has its
writing end open, which is why the sets of descriptors `fds` are kept for every
process.

**TileJoin** models `tile-join`'s main loop.  `readers` is the queue of
`tileset_reader`, sorted by the tile that each is at; `Advance` is `advance()`,
with the tiles that a reader makes up after its end (`Overzoomed`, `NextOverzoom`,
`RetrieveOverzoom`).  `Read` is a round of `decode()`, which may dispatch the batch;
`Join(i)` is a tile of `join_worker()` in thread i; `Collect` joins the threads and
writes; `Finish` writes the zoom levels claimed.  A feature is a point in a cell of
the deepest zoom level.  **JoinedTileset** is its abstract specification: tiles are written
once and whole, and in the end none is missing but those that were too big.

**PmtilesArchive** has the operators of a PMTiles directory: numbers of tiles along the
Hilbert curve, entries for runs, root and leaves, the search in them, and the listing.
**TileStore** is a tileset in the making over them: rows and images in a database
(`WriteRow`), files in a directory (`WriteFile`), `EraseZoom`, `NextZoom` and
`Convert`.  **KeyedTiles** is what it promises.  `LeafSize` and `RootLimit` stand for
the sizes in bytes by which `make_root_leaves()` goes; `IntBits` is the width of
the `int` in which `find_tile()` keeps a difference.

**Overzoom** models `overzoom()` with `feature_out()` and `preserve_attribute()`: layer
after layer of the source tiles (`StartLayer`), feature after feature (`Clip`,
`Read`, `FlushToLimit`), clusters in `pending`, identifiers in `seen`, and, when the
tile is made, its four children with a limit of one feature (`FinishTile`,
`FinishChild`).  `Exit` is the program's end with "can't happen" when a product or
concatenation would have to be begun.  A feature knows in which children it is
visible, or that it is in the outer part of the tile's buffer, which is in none of them, and
whether the filter and simplification let it pass; one attribute is followed.

**MCTilePyramid, MCWriteTile, MCReadInput, MCDotDropping, MCRadixSort,
MCFilterPipe, MCTileJoin, MCTileStore, MCOverzoom** hold the instances;
**TilePyramidProofs, WriteTileProofs, ReadInputProofs, DotDroppingProofs,
FilterPipeProofs, TileJoinProofs, TileStoreProofs** and **OverzoomProofs** the
theorems.  Operators whose comment begins with "Wrong:" are plausible mistakes in the
definition that follows; nothing refers to them, and putting one in the place of that
definition makes the property that `PROJECT.json` lists with it fail.

## 3. What is checked

| run | instance | shows |
|---|---|---|
| PyramidDepth | two branches, zoom levels 0 to 3 of which 0 is below minzoom, 2 threads, 8 files, needs up to 2 where 1 is the most that dropping can do | nothing is written twice (`WrittenOnce`), what is reported complete is (`CompleteThrough`), finished zoom levels are left alone (`FinishedStay`), and the tileset grows as TileLevels says (`GrowsByLevels`) |
| PyramidPasses | 2 zoom levels and 1 to extend to; gamma and dropping, and needs beyond them; blank tiles; fair threads | `TypeOK`, `ZoomsUniform`, `LeavesRespected`, `ExtendedFarEnough`, `Terminates` |
| TileStrategies | for each strategy, all sequences of up to 3 or 4 of the features that matter to it, one layer or two, and two types; with a prefilter, features that the filter rejects or that vanish as they are read, and a limit in each layer | clusters stay within the multiplier and are dropped as a whole (`ClustersKept`); thresholds are reported (`Reported`); children's features are written once (`ChildrenOnce`); leaves suffice (`LeafSuffices`); nothing is lost without a trace (`Accounted`, `NeverEmptied`); it ends (`Terminates`) |
| ReadSources | all texts of up to 6 items, as stream and as mapped file; streams of 9; queues of 5; three sources in a row; 3 threads, reads of 2, batches from 3 items | `InputOrder`, `EachOnce`, `BatchesApart`; no deadlock |
| Dots | rate 5/2, zoom levels 0 to 2 below base zoom 3, threshold density 2, all sequences of up to 12 of 64 indices | each zoom level's share (`NoMoreThanRate`, `NoLessThanRate`), and no gaps (`NowhereSparse`) |
| RadixSorts | all distributions of 4 features with 3 indices over 2 readers, 8 to 19 files, memory for 2 | `SortedStably`, `FilesKept`, `SortsForDropping`; no deadlock |
| FilterPipes | two tile threads, one with a prefilter and a postfilter, the other with a prefilter; 4 features, pipes that hold 1; each filter any of four habits; fair threads and filters | what the filter writes comes back, in order, and no process keeps another's pipe (`PassedOn`); every filter returns (`Terminates`) |
| JoinTiles | all lists of one or two, and the sorted ones of three, of 7 tilesets over 3 zoom levels; with and without `-O`, limits of zoom and size; batches of 2, 2 threads; fair threads | the joined tileset is what JoinedTileset says (`Joins`), zoom levels are scaled up as a whole (`OverzoomWhole`), the metadata covers the tiles (`ClaimsCover`), joining ends (`Finishes`) |
| TileStores | all sequences of writes and erasures over 7 tiles of 3 zoom levels with 2 contents, onto nothing or an earlier tileset; leaves of 1 entry, 3 in the root, integers of 6 bits | the stores are functions (`Stores`), the archive lists the same tiles (`ArchiveComplete`), and each is found (`TilesFound`) |
| Overzooms | layers of 3 features and 1 from another tile; all clusters with features clipped, filtered or without the attribute, five operations; identifiers that return; features in some of four children, or in the buffer only | `FirstOfEach`, `Conserved`, `IdsMerged`, `OrderRestored`, `ChildrenFound`, `TypeOK` |
| OverzoomLost, TileLookup | TileJoin as above; TileStore with integers of 4 bits | fail, see section 5 |

Why the bounds are enough.  *Pyramid*: two neighbouring branches are the least in
which one tile's threshold affects another; four levels are the least in which a
leaf, a skipped tile, its revival and what is below it all occur; needs up to 3
give passes without, with one and with two raised thresholds, and giving up.  *Tile*: a cluster
with its lead, a follower, one follower too many and the next lead is four
features; the strategies compare a feature with the threshold and with those
before it, never with more.  A second reading starts from fresh locals, so three
values suffice to see every order of thresholds.  *Read*: with batches of 3 items
or more, 9 items make several batches, with reads that end at separators and that
do not, and cuts between 3 threads that fall on, before and after a separator and
where there is none left.  *Dots*: the intervals of the three zoom levels are 2.5, 6.25 and 15.6, so that 12
features are several cycles of two of them and the wait of the slowest for those above;
64 indices have room for near and far at every zoom level.
*Radix*: indices that differ in the first, in a later
and in no bit, and files for one, two and four levels of subdivision.  *Filters*: four
features are more than two pipes of one and a copying filter hold together, so
everyone can wait for everyone; two threads are the least that can inherit from each
other.  *Join*: three zoom levels are the least in which a reader overzooms twice;
the tilesets differ in their last zoom level, leave out one, or have nothing that
survives; batches of 2 are dispatched in the middle of zoom levels.  *Stores*: four tiles
that follow each other on the curve give every run and gap, with a fifth at its end,
one in each other zoom level, and leaves that hold one entry.  *Overzoom*: in three features
a cluster can begin, go on and end with each of them clipped or filtered, and the fourth shows what the
next tile adds; each value is another power of 4, so that no two sums agree by chance.

Deadlock is checked in the runs of TilePyramid, WriteTile, ReadInput, DotDropping and
RadixSort: these modules have a step `Over` or `Finished` that only a finished system
takes.  ReadInput and RadixSort only go forward (each step raises a position, a batch or
a call that never goes back), so with no deadlock they end if they are scheduled at
all.  In FilterPipe, TileJoin, TileStore and Overzoom the system stops when it is
done, and `CHECK_DEADLOCK FALSE` says so; in the first two `Terminates` and `Finishes` show that
it does not stop before, and the actions of Overzoom only ever go on to the next feature.

Fairness is used for `Terminates` and `Finishes` alone.  In TilePyramid it is weak
fairness of each thread and of the thread that joins them, in TileJoin of the main
loop and of each worker: they are pthreads that wait for nothing but the joins
(`pthread_join`), so the operating system's scheduling suffices.  In FilterPipe it is
weak fairness of each tile thread, each writer and each filter's process; that a
filter goes on reading, writing or exiting by itself is assumed, and a filter that hangs
would hang the program too.  WriteTile is sequential, and weak fairness of its next-state
relation says that it runs.

## 4. What is proved

Proved by TLAPS for every number of threads, files, zoom levels, features, tiles and
contents within the assumptions that the modules name, which TLC evaluates in the
runs:

| module | assumptions |
|---|---|
| TilePyramid | `ZoomAssumption`, `DataAssumption`, `StrategyAssumption`, `ThreadAssumption`, `IncrementAssumption`, `PowerAssumption` |
| WriteTile | `RequestAssumption`, `LimitAssumption` |
| ReadInput | `InputAssumption`, `SizeAssumption` |
| DropStates | `DropAssumption`, `PowerAssumption` |
| FilterPipe | `CallAssumption`, `CapacityAssumption`, `HabitAssumption`, `ItemAssumption`, `ThreadAssumption` |
| TileJoin | `RequestAssumption`, `CatalogueAssumption`, `SizeAssumption`, `PowerAssumption` |
| PmtilesArchive, TileStore | `TileAssumption`, `SizeAssumption`, `EarlierAssumption` |
| Overzoom | `IdAssumption`, `RequestAssumption`, `KeyAssumption`, `ChildAssumption` |

The provers do not know what powers are.  The three `PowerAssumption`s state of them what
is used: that those which occur, and the units and intervals built from them, are
natural numbers; in TilePyramid and TileJoin that each is twice the one before; and in
DropStates that the intervals do not get longer from a zoom level to the next if the drop
rate is at least 1.  `KeyAssumption` says that the keys by which Overzoom's properties know
a feature are distinct, and `ChildAssumption` that the children are only asked for as
tile-join does it (tile-join.cpp:830), without any thinning, filter or simplification.
`IncrementAssumption` says that `max_zoom_increment` is the floor of a logarithm to the
base 4 (tile.cpp:1672): there are no more tiles so many zoom levels down than files for them.

### Traversal (TilePyramidProofs)

* `TypeCorrect`: `Spec => []TypeOK`.
* `Uniform`: all tiles of a finished zoom level were made with
  the same gamma and thresholds.  This is not inductive by itself: one has to know
  that the tiles of the zoom level in progress were all made since it was last
  erased, and each by a thread that will report thresholds at least as high as those
  it used (`TilesReported`, `ThreadsReport`); that the tiles of the files are all
  of one zoom level (`OneZoom`); and that this one is not yet finished
  (`ZoomsInOrder`).  Their conjunction, `UniformInv`, is inductive.
* `FinishedStays`: no step takes a tile of a finished zoom level
  out of the tileset, from the same invariant: what is erased is the zoom level of
  the tiles in the files.
* `WritesOnce`: no tile is written that is already there, and no two headers in the
  files are the same.  The invariant (`OnceInv`) adds that a file has one reader at a
  time (`OneReader`), and that each header for the next zoom level, and each tile stored
  in this pass, comes from a header that its reader has gone past
  (`HeadersBehind`, `TilesBehind`).  Only the first pass writes headers, except for tiles
  below a leaf, whose headers are written in the first pass that drops features, of which
  there is one in a zoom level (`DroppingBegins`); and a tile has one parent.
* `CompletesZooms`, `RespectsLeaves`, `ExtendsFarEnough`: what is reported complete
  is, unless a zoom level was gone over a third time; only a zoom level that drops nothing
  has leaves, and below one there are tiles only where the zoom level after it drops
  features; with `-ae` the last zoom level drops nothing or is the limit.  The invariant
  (`LevelsInv`) is about the zoom level in progress: each of its tiles has a header
  or an ancestor that stands in for it (`Reached`); the tiles that a thread has gone past
  were skipped or are stored (`Treated`), and their children have headers
  (`ChildrenThere`), each child of a tile in a file of its own, since there are enough files even
  where several zoom levels are passed at once before minzoom (`ShardsApart`); the files are open in
  the first two passes (`FilesOpen`); the leaves recorded are those that threads have
  made (`LeavesKnown`, `ThreadLeaves`); and each zoom level that drops anything has one after it
  if zoom levels may be added (`Extending`).  That a tile without a header has an ancestor
  which is a leaf is by the least counterexample among its ancestors.
* `Grows`: TilePyramid implements TileLevels.  From the same invariant: the step that leaves
  a zoom level maps to `Publish`, since then its tiles are all there or covered, and every
  other step maps to a stutter.

### Making a tile (WriteTileProofs)

`IInv` is one invariant for all six.  It says what has become of the features that the
present reading has passed: each that is offered is in the tile, or dropped onto a like
one before it that is, or vanished, or something was skipped (`InPassed`, `DroppedOnto`,
`NoneLost`, `Vanished`); what was skipped is a reason to read the tile again (`SkippedTooMany`).  A reading
begins with none passed, so all of it holds again.

* `ReportsThresholds`: thresholds are reported, and only those that the tile came to.
* `WritesChildrenOnce`: only the first reading writes features for the next zoom level, which
  by then are those it has passed (`ChildrenSoFar`).
* `AccountsForAll`: nothing is lost from a tile that is stored but features of which nothing
  was left.
* `LeavesSuffice`: as long as `canStop` has not been cleared, nothing is missing of what
  deeper zoom levels have (`LeafSoFar`), but for what the code itself overlooks (`Excused`,
  section 5).  `--cluster-densest-as-needed` coalesces without clearing it, which does no
  harm since the early try is made with no threshold (`EarlyTry`).
* `StaysNonEmpty`: of the features that are offered, the first that does not vanish is kept, or
  skipped for a limit that one feature does not exceed (`EmptySoFar`).
* `KeepsClusters`: the size of the last cluster of each layer is no more than what is counted
  (`LastCluster`), and while a lead that was dropped is the last of its layer, what follows
  is to be dropped (`StillResting`, `CountBegun`).

### Reading (ReadInputProofs)

* `KeepsApart`: no file is written to, or its descriptor used for another, while a
  thread parses it.  The invariant (`Safe`): a batch other than the last has ended
  (`OnlyLast`), a temporary file that is parsed is open under its descriptor and under no other
  (`TempsOpen`), threads stay within their parts (`ThreadsInside`), and what has been
  batched is behind what main still holds (`Frontier`).
* `NumbersInOrder`: sequence numbers are in the order of the input.  A thread has numbers
  from its first up to one for each of its items, which is where the next
  thread's begin (`ThreadsInOrder`), and parts that follow each other have numbers that
  do.  The hypothesis `SerializedOnce` is that no queued item is a geometry collection,
  which would be numbered once for each member (section 5); the instance of ReadSources
  satisfies it.
* `ParsesOnce`: each feature is parsed, once, and counted in the area unless its source is a
  FlatGeobuf.  The parts of the threads are disjoint and begin at lines, because
  cuts are made at separators (`PartsApart`, `LinesWhole`); a position that
  has been gone past has given as many features as the item has (`AllCounted`); all that main
  has dealt with is in some part (`Covering`), and the rest begins at a line
  (`FrontAtLine`).

### Dropping of dots (DotDroppingProofs)

* `TypeCorrect`, and `RateHolds`: a zoom level takes at most its
  share of the features, rounded up.  The invariant (`Balanced`) is that a zoom level's
  sequence is exactly what has gone by less an interval for each feature taken, and
  is no less than minus one interval, since a feature is only taken when the
  sequence is due.  That there is a highest zoom level that refuses, which
  the operators choose, is by well-founded induction on the levels.
* `LessHolds`: nor much less than its share, for a rate of at least 1.  The invariant
  (`WaitInv`) is about what the sequences have left over: the highest zoom level with a rate
  is never left with anything, and each other with at most one interval of the level above
  more than that one has.  It is kept because a level only refuses what the next takes
  when it is due nothing (`ByRateRefuses`), and then it was not ahead before.
* `DensityHolds`: a feature is left out of a zoom level only where one that was
  taken is within the threshold.  What the code remembers as the index of the last one taken
  may lag, as it is not recorded for features that all zoom levels take; but it is never
  ahead of the one really taken (`Behind`), so distances do not wrap and are measured too far.

### Joining (TileJoinProofs)

* `JoinsWhole`: TileJoin implements JoinedTileset, so each tile is written once, with all
  that the sources have in it, and none but those too big is missing in the end.  The
  argument is about the order of tiles.  A reader goes forward only and passes
  everything that its tileset has to offer, the tiles it makes up past its end among them
  (`Reading`, `Over`, `Out`): those of the zoom that it is at and has still to pass are waiting,
  and those of the next are there if it has passed their parents (`MadeUp`).  What readers have
  passed is in one place, which is the batch, the input or the output of a thread, or
  the tileset (`OnePlace`), with all that these readers had for it and nothing else (`NoneLost`,
  `NoneForeign`).  The batch may still get more for a tile; but
  what is with the threads all readers are past (`InOrder`), so it is whole.
* `NeverFails`: the phase for a tile that is written twice is never reached.
* `OverzoomsWhole`: in the end a tileset was scaled up to a zoom level in all of its tiles or
  in none, since it is either at an end with nothing consumed, or has gone through the
  whole of each zoom level that it began.
* `ClaimsCovered`: the zooms that the metadata claims have all tiles between them and, unless
  tiles may have been too large, are zooms of tiles that were written.  The invariant is that
  they go from the least to the largest zoom of tiles that threads made (`ZoomsSeen`, `Claims`).

`Invariance` is that their conjunction, `IInv`, always holds.

### Overzooming (OverzoomProofs)

The invariant that all of these rest on (`IInv`) is that a tile has at most one
layer of each name, that each identifier in it has been remembered for the name
of its layer, and that within a layer each is there once (`Good`).  Sorting a
layer for the order of input permutes it, so it keeps all three.  The accumulated
value comes from a fold over the cluster, of which the prover does not know the type;
the invariant therefore says only that there is some set V that all values in the
state are from (`Shapes`), and V grows with each feature that is output.

* `MergesIds`: no layer has two features with the same identifier, and each has just those
  leaders of its clusters whose identifiers are not taken.  The first half is in `IInv`.
  For the second (`IdInv`), what is pending begins with the leader that waits at the place
  that is read next (`Leads`); what has been seen is what was clipped or filtered away and
  the leaders of the clusters that were put out (`HasSeen`); so the identifier of a leader
  has been seen when it is put out just if it is taken, by an earlier leader or by
  something that vanished until then (`TakenWhenSeen`), and the tile has the
  leaders that were not (`HasLeft`).
* `FindsChildren`: the children that tile-join is told of are those in which anything of the
  source is visible.  While the tile is made, what it and the pending
  feature show is what the features that were read show (`TileShows`), so the tile shows
  what the source does; then a child has a feature, or one pending, if one of those that were
  read is visible in it, and only if any is (`ChildShows`), which also holds when
  the limit of one feature ends the reading early.
* `KeepsFirsts`: of each cluster the first kept feature is left, and nothing else.  The
  invariant (`FirstInv`) ties what is pending to the clusters: something is pending just
  as long as a kept feature has not been followed by the beginning of another cluster
  (`OpenAt`).  So the tile, and the first feature pending, have the keys of
  the first features before the place that is read next (`HasFirsts`), each once as they
  come from different places (`AllCome`, `KeysOnce`).
* `RestoresOrder`: the layers are in the order of the input.  All but the one that is being read
  are sorted (`Ascends`), and features keep the sequence that they had (`ComesFrom`).

### Filters and stores (FilterPipeProofs, TileStoreProofs)

* `FilterPipeProofs!PassesOn`: what comes back from a filter is what it wrote, whole and in order, and
  no process keeps an end of another filter's pipe.  The invariant has the holder of the lock as the only
  one with ends that another's child could inherit (`OneAtATime`, `ProgramEnds`,
  `ChildEnds`), and the features in the pipes, in the filter and read back, joined together, as a
  part of the tile's that begins where it does (`Flow`).
* `TileStoreProofs!TablesConsistent` and `StoresTiles`: the tileset that can be read is a
  function from tiles to contents that is set one tile at a time and loses whole zoom levels
  only: TileStore implements KeyedTiles.  The tables alone do not show it, because
  the view joins them: a row without its image would not be a tile.  So the invariant
  (`IInv`) is that each row's image is there and has the contents of the row's hash
  (`RowsHaveImages`), from which the view is the map itself (`ViewIsMap`).
  Erasing keeps it since a row and its image are of the same zoom level.

### Checked only

* Liveness (`Terminates`, `Finishes`): it rests on fairness and ENABLED, which this prover cannot
  treat.
* What folds, `SortSeq`, `SelectSeq` and recursive functions compute, which would need
  induction over sequences: the sums and counts that accumulation makes in Overzoom
  (`Conserved`, and `TypeOK`, which gives the values their type), the numbers and the
  directory of an archive in TileStore (`ArchiveComplete`, `TilesFound`), and what the
  merge of RadixSort brings out (`SortedStably`, `SortsForDropping`).
* `FilesKept` of RadixSort has not been proved: its stack of calls of `radix1()` is a sequence,
  over which the open buckets would have to be summed up.

## 5. Where the code and its documentation disagree

Two runs state what a comment or the README says and fail on what the code does:

* **OverzoomLost.** tile-join stops reading when every reader has come to its end and
  none of their overzoomed tiles has been used at this zoom level (tile-join.cpp:550).  A
  tileset that could be scaled up to the zoom levels of another is not, if the other's tiles
  come before its own in the order or are none; README.md:811 says that all will have the same
  maxzoom.
* **TileLookup.** `find_tile()` keeps the difference of two 64-bit tile numbers in an
  `int` (pmtiles.hpp:351), so where numbers are further apart than it can hold, which is from
  zoom level 16 on, tiles that are there are not found.

The models have the code's behaviour in these other places too; the properties
are stated so as to allow for it.  In the making of tiles:

* after the second pass over a zoom level the threads close its files (tile.cpp:3242),
  although a third pass may follow, which then writes no tile: `CompleteThrough`
  excepts zoom levels with three passes;
* with a prefilter, that a feature waits for a deeper zoom level is noted in
  `run_prefilter()`'s state and not seen by `write_tile()` (tile.cpp:1382), so the tile
  becomes a leaf without it, although "an excluded feature at any deeper minzoom (even z + 1)
  must block leafing here" (tile.cpp:1221): `LeafSuffices`, which states prefilters too, excepts
  features that wait behind one;
* a polygon that gets no label point in a tile is passed over without clearing
  `can_stop_early` (tile.cpp:1929), so the tile may become a leaf without it.  But label
  points come at shorter distances in deeper zoom levels (geometry.cpp:983), so a child may
  have one, where README.md:360 calls a leaf "sufficient to be overzoomed to any higher zoom
  level" and README.md:553 promises a label point "in each tile it intersects":
  `LeafSuffices` excepts features that are `"unanchored"`;
* if nothing is left of the features that were kept, the estimate of how many features
  there were is 0, and the tile is taken for empty although others were skipped
  (tile.cpp:2713): `NeverEmptied` speaks of tiles in which every feature has a shape;
* features that vanish as they are read are nowhere accounted for, and their attributes
  are not accumulated: `Accounted` excepts those in `Vanishing`;
* with `--cluster-densest-as-needed`, in a zoom level deeper than `cluster_maxzoom` no gap is
  measured (tile.cpp:2024), but a tile that is too big still chooses a greater one
  (tile.cpp:2750) and looks into an empty vector: the step `ChooseFromNothing`;
* only the direct children of a truncated tile are revived, not their descendants
  (tile.cpp:3175), which `Covered` and `LeavesRespected` allow;
* a zoom level that drops features by gamma alone still truncates its pyramid
  (tile.cpp:959): `LeavesRespected` speaks of thresholds only;
* if only minzoom was completed, the program says that none was (main.cpp:2772):
  the phase `nodata`, of which `CompleteThrough` says nothing;
* a feature that the filter rejects at this zoom level does not keep a tile from
  becoming a leaf (tile.cpp:1277): `LeafSuffices` excepts such features;
* `drop_rest` is kept for the tile and not for each layer (tile.cpp:1949), so that
  clusters are dropped as a whole only if one layer's features come together; what
  follows is coalesced only if it is of the same type; and a prefilter forgets which
  features are leads (tile.cpp:1385): `ClustersKept` excepts these;
* with `-K` a threshold may be chosen from an empty vector (tile.cpp:753, 794): the
  step `ChooseFromNothing`, which TileStrategies reaches;
* the limit on features is applied to each layer, and forgets what was skipped in
  another (tile.cpp:2600-2605): `Accounted` excepts tiles that were cut down to it;
* when a filter makes up a layer, `layer_unmaps` is resized (plugin.cpp:107) while the
  thread that feeds the prefilter may read it (tile.cpp:1392); not modelled.

In reading and dropping:

* a queued Geobuf feature that is a geometry collection is numbered once per member
  (geobuf.cpp:455), so that numbers of one thread run into those of the next, where
  README.md:531 promises the original order: ReadSources has no collections in queues;
* the temporary file of a stream that ends just when a batch was started stays open,
  and the reader gets ahead of the parsers without bound if no read ends at a
  separator (main.cpp:1767, 1789);
* the area of a FlatGeobuf is that of its last thread (main.cpp:1525), which
  `AreaTotal` excepts;
* whether a source is decompressed is looked up under the number of its layer
  (main.cpp:1718); not modelled;
* `previndex` is not recorded for a feature that every zoom level takes
  (main.cpp:317), and with a density of 1 the square at zoom 0 wraps around to 0
  (main.cpp:334): both keep more features than they should, so `NowhereSparse` holds;
* `FilesKept` assumes 8 files to begin with: with fewer, two buckets are opened all the
  same (main.cpp:1107).

In stores, joining and overzooming:

* an image is looked up by its hash alone when a tileset is converted, whatever its
  zoom level (pmtiles_file.cpp:195), which `ImageOf` does too: the same hash has the
  same contents, so `ArchiveComplete` holds;
* "claim the zooms that were actually written" (tile-join.cpp:1636) includes those of
  tiles that were then skipped for their size: `ClaimsCover` states equality only without the limit;
* with `-r` the readers are opened while the options are parsed (tile-join.cpp:1503), so
  that `-O`, `-z` and `-Z` count only before it; TileJoin opens readers after the options;
* the "lock around sqlite3 access" (tile-join.cpp:797) is only ever taken by the one
  thread that reads, and not around its other uses of the database;
* a cluster whose first feature is clipped away is taken for part of the one before
  (clip.cpp:1565-1589, before the tag is looked at), where README.md:1049 says that the
  first feature of each cluster will be retained: `FirstOfEach` speaks of clusters whose
  beginning is visible;
* product, concatenation and comma end the program with "can't happen" if the feature that
  survives lacks the attribute (attribute.cpp:170), where README.md:421 names no such
  condition: the step `Exit`;
* `count` leaves a feature that nothing was accumulated onto with its own value, not 1, where
  README.md:425 says that the operation "replaces the attribute with the number of
  features": `Conserved` goes by the count kept beside the value, and `Carriers` counts such a
  feature as one;
* `--preserve-input-order` does nothing without `-m`, because the sequence is only read with it
  (clip.cpp:1592-1605): `OrderRestored` presumes both;
* a feature that is clipped or filtered away is remembered by its identifier
  (clip.cpp:1567, 1586, 1624, 1666), so that one that comes later is left out, and so is one
  that came before but is still pending: when it is put out it finds its own identifier
  remembered (clip.cpp:1358) and is dropped, and none is left of the two.  README.md:1052
  promises to "include only the first feature with any given feature ID".  `IdsMerged` states
  which leaders are left (`Taken` names both cases), and `FirstOfEach` is stated without
  `--deduplicate-by-id`.

## 6. What is not modelled

* Geometry (clipping, simplification, cleaning, tiny polygons, shared borders):
  numeric algorithms over coordinates, with no state between calls.  What they
  decide (does anything remain? where is it visible?) is an input of WriteTile, TileJoin
  and Overzoom.
* Byte formats: serialization, vector tiles, JSON output, compression.
* The pull parser for JSON, the parsers of CSV, Geobuf and FlatGeobuf beyond their
  queues, the string pool, feature filters, `jsontool`'s sort and join: sequential
  functions of their input, which their own tests can reach.
* The command line and defaults: independent assignments.
* Third-party code: catch, clipper2, mapbox, milo, protozero, flatbuffers, sqlite.  It
  is more than half of the lines of the repository, so the share of lines that is modelled
  is small; of the program's own code it is the parts with state that several
  threads, passes or processes work on.
* Data races on statistics and on flags that limit how often a warning is
  given: they decide only what is printed.
* Two images with the same hash; checks of disk space; signals; a filter that hangs.

Each part says what it abstracts in the comments of its module.

## 7. Plan

The stores, joining, filters and overzooming of the first plan are done, and their
invariants are proved but for those in "Checked only".  What remains, in order of what it would
add:

1. Proof of `FilesKept` of RadixSort, by counting the buckets on the stack of calls that are
   not yet finished.
2. **ZoomGuess**: guessing maxzoom, basezoom and drop rate and the fix-up of
   `--drop-denser` (main.cpp:2255-2725), ending in the states DotDropping starts from.
3. The sort of vertices for shared borders (sort.cpp) in the manner of RadixSort.
4. Pure algorithms, against reference definitions: the string pool's tree, the filter
   evaluator, tile ranges of `rewrite()`, the parser's stack of containers.
