---------------------------- MODULE TilePyramid ----------------------------
(***************************************************************************)
(* The zoom-by-zoom tiling loop of tippecanoe: traverse_zooms() and the     *)
(* tiling threads it starts, run_thread().                                  *)
(*                                                                         *)
(* Each zoom is tiled in passes.  In a pass the threads take geometry       *)
(* files from a shared list and, for every tile found in a file, call       *)
(* write_tile(), which stores the tile and writes the features of the       *)
(* tile's children into the thread's own files for the next zoom.  A tile   *)
(* that is too big raises a threshold; if any threshold was raised, the     *)
(* zoom is erased and done over.  A tile that fits at full detail           *)
(* truncates the pyramid: its children are skipped at the next zoom unless  *)
(* that zoom has to drop features.                                          *)
(*                                                                         *)
(* write_tile() itself is one step here, reduced to the least thresholds    *)
(* with which the tile fits.                                                *)
(***************************************************************************)
EXTENDS Integers, Sequences, FiniteSets

CONSTANTS
    Data,           \* the tile positions <<z, x, y>> that have features
    Root,           \* the one tile of the first zoom (iz, ix, iy)
    Needs,          \* possible needs: functions Data -> -1..; see need below
    MinZoom,        \* minzoom
    MaxZoom,        \* maxzoom as requested
    ZoomLimit,      \* MAX_ZOOM
    AlwaysExtend,   \* additional[A_EXTEND_ZOOMS]
    ExtendMax,      \* extend_zooms_max as requested
    CanTruncate,    \* additional[A_VARIABLE_DEPTH_PYRAMID]
    UsesGamma,      \* additional[A_INCREASE_GAMMA_AS_NEEDED]
    UsesDropping,   \* one of the other as-needed strategies
    MaxGamma,       \* steps by which gamma can be increased before it reaches 10
    MaxDrop,        \* largest dropping threshold the data of a tile offers
    CPUs,           \* CPUS
    TempFiles       \* TEMP_FILES

Files   == 0 .. TempFiles - 1
Threads == 0 .. CPUs - 1
Zooms   == 0 .. ZoomLimit

\* The tile that contains t at zoom k.
AncestorAt(t, k) == <<k, t[2] \div 2^(t[1] - k), t[3] \div 2^(t[1] - k)>>
Parent(t) == <<t[1] - 1, t[2] \div 2, t[3] \div 2>>

ASSUME ZoomAssumption ==
    /\ MinZoom \in Nat /\ MaxZoom \in Nat /\ ZoomLimit \in Nat
    /\ MinZoom <= MaxZoom /\ MaxZoom <= ZoomLimit
    /\ ExtendMax \in Nat /\ AlwaysExtend \in BOOLEAN

ASSUME DataAssumption ==
    /\ Data \subseteq (Zooms \X Nat \X Nat)
    /\ Root \in Data /\ Root[1] <= MinZoom
    /\ \A t \in Data : t[1] >= Root[1] /\ AncestorAt(t, Root[1]) = Root
    /\ \A t \in Data : t # Root => Parent(t) \in Data
    /\ \A t \in Data : t[1] < ZoomLimit => \E c \in Data : Parent(c) = t

ASSUME StrategyAssumption ==
    /\ CanTruncate \in BOOLEAN /\ UsesGamma \in BOOLEAN /\ UsesDropping \in BOOLEAN
    /\ MaxGamma \in Nat /\ MaxDrop \in Nat
    /\ Needs \subseteq [Data -> Nat \cup {-1}]
    /\ \A f \in Needs, t \in Data : t[1] < MinZoom => f[t] = -1

ASSUME ThreadAssumption ==
    /\ CPUs \in Nat \ {0}
    /\ TempFiles \in Nat /\ TempFiles >= 4
-----------------------------------------------------------------------------
VARIABLES
    need,       \* least gamma + drop with which a tile fits; -1 when it draws nothing
    db,         \* the tileset: set of [tile, gamma, drop]
    files,      \* geomfd[j], as the tile headers in the file
    open,       \* open[j]: geomfd[j] >= 0
    sub,        \* the files being written for the next zoom
    skip,       \* skip_children
    main,       \* the locals of traverse_zooms
    tasks,      \* pass_dispatch
    thread,     \* the locals and write_tile_args of each tiling thread
    log         \* history: what each finished zoom did (no counterpart in the code)

vars == <<need, db, files, open, sub, skip, main, tasks, thread, log>>

\* Zooms below MinZoom need not all be visited: a tile below it passes its
\* features on to the zoom as many steps down as there are shards for.
Shards(n) == TempFiles \div n
Log4(n) == CHOOSE i \in 0 .. n : 4^i <= n /\ n < 4^(i + 1)
MaxZoomIncrement(n) == Log4(Shards(n))
ThreadCounts == {n \in 1 .. CPUs : n <= TempFiles \div 4}

\* "Internal error: %d shards, max zoom increment %d".  There is a shard for each of the
\* tiles that a tile has so many zooms below.
ASSUME IncrementAssumption ==
    \A n \in ThreadCounts :
        /\ Shards(n) \in Nat \ {0} /\ MaxZoomIncrement(n) \in 1 .. TempFiles
        /\ 2^MaxZoomIncrement(n) * 2^MaxZoomIncrement(n) <= Shards(n)

\* What powers of 2 are.
ASSUME PowerAssumption ==
    /\ 2^0 = 1
    /\ \A i \in 0 .. ZoomLimit + TempFiles : 2^i \in Nat \ {0} /\ 2^(i + 1) = 2 * 2^i

NextZoom(z, n) ==
    IF z + 1 >= MinZoom THEN z + 1
    ELSE IF z + MaxZoomIncrement(n) > MinZoom THEN MinZoom
    ELSE z + MaxZoomIncrement(n)

Children(t, n) ==
    LET k == NextZoom(t[1], n)
    IN {c \in Data : c[1] = k /\ AncestorAt(c, t[1]) = t}

\* Wrong: all the children of a tile share a shard.
ShardOfParent(w, c, n) ==
    LET P == 2^MaxZoomIncrement(n)
    IN w * Shards(n) + (((c[2] \div P) * P + ((c[3] \div P) % P)) % Shards(n))

\* The shard of thread w that the features of child tile c are written to.
Shard(w, c, n) ==
    LET P == 2^MaxZoomIncrement(n)
    IN w * Shards(n) + ((c[2] * P + (c[3] % P)) % Shards(n))

\* The child of those that share a shard that is written first, and whose
\* header is the only one written: the loops run over x and then y.
FirstOf(kids) ==
    CHOOSE c \in kids : \A d \in kids :
        c[2] < d[2] \/ (c[2] = d[2] /\ c[3] <= d[3])

\* Wrong: nothing is written below the maxzoom asked for, even to extend it.
RewriteToMaxZoom(w, t, n, mz, ext) ==
    LET kids(j) == {c \in Children(t, n) : Shard(w, c, n) = j}
    IN [j \in Files |-> IF NextZoom(t[1], n) <= mz /\ kids(j) # {}
                        THEN Append(sub[j], FirstOf(kids(j)))
                        ELSE sub[j]]

\* rewrite(): tile t's features go into thread w's files for the next zoom
Rewrite(w, t, n, mz, ext) ==
    LET kids(j) == {c \in Children(t, n) : Shard(w, c, n) = j}
        wanted  == NextZoom(t[1], n) <= mz \/ AlwaysExtend \/ ext > 0
    IN [j \in Files |-> IF wanted /\ kids(j) # {}
                        THEN Append(sub[j], FirstOf(kids(j)))
                        ELSE sub[j]]

IsGreatest(m, S) == m \in S /\ \A i \in S : m >= i
Least(a, b) == IF a < b THEN a ELSE b
Most(a, b)  == IF a > b THEN a ELSE b

\* As many threads as there are files with data and as the limits allow, rounded
\* down to a power of 2, and at least one.
Useful(f) == {j \in Files : Len(f[j]) > 0}
IsThreadCount(n, useful) ==
    LET cap == Least(useful, Least(CPUs, TempFiles \div 4))
    IN \/ cap < 1 /\ n = 1
       \/ n <= cap /\ cap < 2 * n /\ \E e \in 0 .. CPUs : n = 2^e

\* The thresholds with which write_tile() ends up when it starts from those of
\* the pass: it first increases gamma as far as that goes, then the others.
Fits(t, g, d) == need[t] <= g + d
\* Wrong: gamma has no limit.
GammaUnlimited(t) ==
    IF UsesGamma /\ ~Fits(t, main.gamma, main.drop) THEN need[t] - main.drop ELSE main.gamma

GammaFor(t) ==
    IF UsesGamma /\ ~Fits(t, main.gamma, main.drop)
    THEN Least(MaxGamma, need[t] - main.drop)
    ELSE main.gamma
DropFor(t) ==
    IF Fits(t, GammaFor(t), main.drop) THEN main.drop ELSE need[t] - GammaFor(t)

\* write_tile_args that are reset for every pass
FreshThread(on) ==
    [pc |-> IF on THEN "take" ELSE "done", file |-> 0, pos |-> 1,
     gamma |-> 0, drop |-> 0, still |-> FALSE, wrote |-> -1,
     skipOut |-> {}, failed |-> FALSE]
-----------------------------------------------------------------------------
Init ==
    /\ need \in Needs
    /\ db = {}
    /\ files = [j \in Files |-> IF j = 0 THEN <<Root>> ELSE <<>>]
    /\ open = [j \in Files |-> j = 0]
    /\ sub = [j \in Files |-> <<>>]
    /\ skip = {}
    /\ main = [phase |-> "pass", z |-> Root[1], maxzoom |-> MaxZoom, extend |-> ExtendMax,
               pass |-> 0, gamma |-> 0, drop |-> 0, first |-> FALSE, threads |-> 1,
               largest |-> -1, failed |-> FALSE, result |-> -1]
    /\ tasks = {0}
    /\ thread = [w \in Threads |-> FreshThread(w = 0)]
    /\ log = [k \in Zooms |-> [passes |-> 0, gamma |-> 0, drop |-> 0, leaves |-> {}]]

(***************************************************************************)
(* The tiling threads                                                      *)
(***************************************************************************)
Running(w) == main.phase = "pass" /\ thread[w].pc = "take"
Tiling(w)  == main.phase = "pass" /\ thread[w].pc = "file"

\* Pop a file from the shared list, under task_lock, and open it.
TakeFile(w) ==
    /\ Running(w)
    /\ \E j \in tasks :
         /\ IsGreatest(j, tasks)
         /\ tasks' = tasks \ {j}
         /\ thread' = IF open[j]
                      THEN [thread EXCEPT ![w] = [@ EXCEPT !.pc = "file", !.file = j, !.pos = 1]]
                      ELSE thread
    /\ UNCHANGED <<need, db, files, open, sub, skip, main, log>>

NoMoreFiles(w) ==
    /\ Running(w) /\ tasks = {}
    /\ thread' = [thread EXCEPT ![w] = [@ EXCEPT !.pc = "done"]]
    /\ UNCHANGED <<need, db, files, open, sub, skip, main, tasks, log>>

AtTile(w)  == Tiling(w) /\ thread[w].pos <= Len(files[thread[w].file])
Current(w) == files[thread[w].file][thread[w].pos]

\* Wrong: in later passes everything is tiled, dropping or not.
SkippedAtFirst(t) == Parent(t) \in skip /\ main.pass = 0

\* The parent truncated its pyramid, and the zoom is not dropping features.
Skipped(t) == Parent(t) \in skip /\ main.drop = 0

\* Wrong: a tile revived in a later pass leaves nothing for the next zoom.
WritesChildrenAtFirst(t) == main.pass = 0

\* Wrong: when dropping begins, the other tiles write their children again.
WritesChildrenAgain(t) == main.pass = 0 \/ main.first

\* Children are written in the first pass that tiles t.
WritesChildren(t) == IF Parent(t) \in skip THEN main.first ELSE main.pass = 0

SkipTile(w) ==
    /\ AtTile(w) /\ Skipped(Current(w))
    /\ thread' = [thread EXCEPT ![w] = [@ EXCEPT !.pos = thread[w].pos + 1]]
    /\ UNCHANGED <<need, db, files, open, sub, skip, main, tasks, log>>

WriteChildren(w, t) ==
    sub' = IF WritesChildren(t)
           THEN Rewrite(w, t, main.threads, main.maxzoom, main.extend)
           ELSE sub

\* What a thread has to report after tiling t with thresholds g and d.
Tiled(th, t, g, d, leaf) ==
    [th EXCEPT !.pos = @ + 1, !.wrote = t[1], !.gamma = Most(g, @), !.drop = Most(d, @),
               !.still = @ \/ g > th.gamma \/ d > th.drop,
               !.skipOut = IF leaf THEN @ \cup {t} ELSE @]

\* write_tile() succeeds with thresholds g and d.  A tile that fits without
\* dropping, at the detail of the deepest zoom, may truncate the pyramid.
WriteTile(w) ==
    /\ AtTile(w) /\ ~Skipped(Current(w))
    /\ LET t == Current(w)
           g == GammaFor(t)
           d == DropFor(t)
       IN /\ d = main.drop \/ (UsesDropping /\ d <= MaxDrop)
          /\ WriteChildren(w, t)
          /\ \E leaf \in BOOLEAN :
               /\ leaf => /\ CanTruncate /\ main.drop = 0
                          /\ g = main.gamma /\ d = main.drop /\ need[t] >= 0
               /\ thread' = [thread EXCEPT ![w] = Tiled(@, t, g, d, leaf)]
          /\ IF need[t] >= 0 /\ \E r \in db : r.tile = t
             THEN /\ main' = [main EXCEPT !.phase = "exists"]
                  /\ db' = db
             ELSE /\ main' = main
                  /\ db' = IF need[t] >= 0
                           THEN db \cup {[tile |-> t, gamma |-> g, drop |-> d]}
                           ELSE db
    /\ UNCHANGED <<need, files, open, skip, tasks, log>>

\* "Can't increase ... threshold further": exit(EXIT_INCOMPLETE)
GiveUp(w) ==
    /\ AtTile(w) /\ ~Skipped(Current(w))
    /\ UsesDropping /\ DropFor(Current(w)) > MaxDrop
    /\ main' = [main EXCEPT !.phase = "incomplete"]
    /\ UNCHANGED <<need, db, files, open, sub, skip, tasks, thread, log>>

\* write_tile() returns -1: there is nothing to raise that would make it fit, as when
\* a fraction is to be dropped of no more features than there are layers.
\* The thread abandons the rest of the file.
FailTile(w) ==
    /\ AtTile(w) /\ ~Skipped(Current(w))
    /\ LET t == Current(w)
       IN /\ DropFor(t) > (IF UsesDropping THEN MaxDrop ELSE main.drop)
          /\ WriteChildren(w, t)
          /\ thread' = [thread EXCEPT ![w] =
               [Tiled(@, t, GammaFor(t), main.drop, FALSE) EXCEPT
                   !.pos = Len(files[thread[w].file]) + 1, !.failed = TRUE]]
    /\ UNCHANGED <<need, db, files, open, skip, main, tasks, log>>

\* The end of a file: reopen it at its start for another pass, except that
\* there is no other pass after the second.
CloseFile(w) ==
    /\ Tiling(w) /\ thread[w].pos > Len(files[thread[w].file])
    /\ open' = [open EXCEPT ![thread[w].file] = main.pass # 1]
    /\ thread' = [thread EXCEPT ![w] = [@ EXCEPT !.pc = "take"]]
    /\ UNCHANGED <<need, db, files, sub, skip, main, tasks, log>>

(***************************************************************************)
(* traverse_zooms(): what it does when the threads of a pass have finished  *)
(***************************************************************************)
AllDone == main.phase = "pass" /\ \A w \in Threads : thread[w].pc = "done"

Joined == 0 .. main.threads - 1

\* What joining the threads of the pass finds: the greatest thresholds g and d
\* and the greatest zoom k that any of them reports, or that was in effect.
Joins(g, d, k) ==
    /\ AllDone
    /\ IsGreatest(g, {thread[w].gamma : w \in Joined} \cup {main.gamma})
    /\ IsGreatest(d, {thread[w].drop : w \in Joined} \cup {main.drop})
    /\ IsGreatest(k, {thread[w].wrote : w \in Joined})

\* Wrong: a zoom is done over though nothing changes; or only for some thresholds.
RaisedAlways(g, d)   == g >= main.gamma \/ d > main.drop
RaisedDropping(g, d) == d > main.drop

Raised(g, d) == g > main.gamma \/ d > main.drop
SkipOut   == UNION {thread[w].skipOut : w \in Joined}

FailedOut == main.failed \/ \E w \in Joined : thread[w].failed

\* The zoom counter may be behind when zooms are being skipped, and maxzoom is
\* extended when the last zoom still had to drop features.
ZoomOut(k) == Most(main.z, k)
Extends(k) ==
    /\ \E w \in Joined : thread[w].still
    /\ AlwaysExtend \/ main.extend > 0
    /\ ZoomOut(k) = main.maxzoom /\ main.maxzoom < ZoomLimit
Joining(k) ==
    [main EXCEPT !.z = ZoomOut(k), !.largest = Most(@, k), !.failed = FailedOut,
                 !.maxzoom = IF Extends(k) THEN @ + 1 ELSE @,
                 !.extend = IF Extends(k) /\ @ > 0 THEN @ - 1 ELSE @]

\* Wrong: the comparison is the wrong way round.
ErasedThrough(z) == {r \in db : r.tile[1] > z}

\* The tileset without the tiles of zoom z: dir_erase_zoom(), mbtiles_erase_zoom()
Erased(z) == {r \in db : r.tile[1] # z}

\* Some threshold went up: erase the zoom and do it over.  The code tells the
\* first two passes from the later ones, and those are not told apart.
Redo(g, d, k) ==
    /\ Joins(g, d, k) /\ Raised(g, d)
    /\ db' = Erased(ZoomOut(k))
    /\ main' = [Joining(k) EXCEPT !.pass = Least(main.pass + 1, 2), !.gamma = g, !.drop = d,
                                  !.first = d > 0 /\ main.drop = 0]
    /\ tasks' = Useful(files)
    /\ thread' = [w \in Threads |->
         [FreshThread(w < main.threads) EXCEPT !.gamma = g, !.drop = d]]
    /\ UNCHANGED <<need, files, open, sub, skip, log>>
NextPass == \E g \in 0 .. MaxGamma, d \in 0 .. MaxDrop, k \in Zooms \cup {-1} : Redo(g, d, k)

FinishedLog(k) ==
    [log EXCEPT ![ZoomOut(k)] = [passes |-> main.pass + 1, gamma |-> main.gamma,
                                 drop |-> main.drop, leaves |-> SkipOut]]

\* The zoom is finished; its files are closed and those of the next take over.
NextLevel == \E g \in 0 .. MaxGamma, d \in 0 .. MaxDrop, k \in Zooms \cup {-1} :
    /\ Joins(g, d, k) /\ ~Raised(g, d) /\ ~FailedOut
    /\ Joining(k).z < Joining(k).maxzoom
    /\ \E n \in ThreadCounts :
         /\ IsThreadCount(n, Cardinality(Useful(sub)))
         /\ main' = [Joining(k) EXCEPT !.z = ZoomOut(k) + 1, !.pass = 0, !.gamma = 0, !.drop = 0,
                                       !.first = FALSE, !.threads = n]
         /\ thread' = [w \in Threads |-> FreshThread(w < n)]
    /\ files' = sub
    /\ sub' = [j \in Files |-> <<>>]
    /\ open' = [j \in Files |-> TRUE]
    /\ tasks' = Useful(sub)
    /\ skip' = SkipOut
    /\ log' = FinishedLog(k)
    /\ UNCHANGED <<need, db>>

\* The last zoom is finished: traverse_zooms() returns the last zoom that has
\* any tiles.
Return == \E g \in 0 .. MaxGamma, d \in 0 .. MaxDrop, k \in Zooms \cup {-1} :
    /\ Joins(g, d, k) /\ ~Raised(g, d) /\ ~FailedOut
    /\ Joining(k).z >= Joining(k).maxzoom
    /\ LET j == Joining(k)
           last == IF j.largest >= 0 THEN Least(j.maxzoom, j.largest) ELSE j.maxzoom
       IN main' = [j EXCEPT !.maxzoom = last, !.result = last, !.phase = "complete"]
    /\ log' = FinishedLog(k)
    /\ UNCHANGED <<need, db, files, open, sub, skip, tasks, thread>>

\* A tile failed: traverse_zooms() returns the zoom before, and main decides
\* whether there is anything to show for it.
ReturnFailed == \E g \in 0 .. MaxGamma, d \in 0 .. MaxDrop, k \in Zooms \cup {-1} :
    /\ Joins(g, d, k) /\ ~Raised(g, d) /\ FailedOut
    /\ LET result == ZoomOut(k) - 1
       IN main' = [Joining(k) EXCEPT
            !.result = result, !.phase = IF result > MinZoom THEN "through" ELSE "nodata"]
    /\ UNCHANGED <<need, db, files, open, sub, skip, tasks, thread, log>>

Over == main.phase # "pass" /\ UNCHANGED vars

ThreadStep(w) ==
    \/ TakeFile(w) \/ NoMoreFiles(w)
    \/ SkipTile(w) \/ WriteTile(w) \/ GiveUp(w) \/ FailTile(w)
    \/ CloseFile(w)

MainStep == NextPass \/ NextLevel \/ Return \/ ReturnFailed

Next == (\E w \in Threads : ThreadStep(w)) \/ MainStep \/ Over

Spec == Init /\ [][Next]_vars

\* Every started thread is scheduled, and so is the one that joins them.
Fairness == WF_vars(MainStep) /\ \A w \in Threads : WF_vars(ThreadStep(w))
FairSpec == Spec /\ Fairness
-----------------------------------------------------------------------------
(***************************************************************************)
(* Correctness                                                             *)
(***************************************************************************)
Tileset == [tile : Data, gamma : Nat, drop : Nat]

MainType ==
    [phase : {"pass", "exists", "incomplete", "complete", "through", "nodata"},
     z : Nat, maxzoom : Nat, extend : Nat, pass : 0 .. 2,
     gamma : 0 .. MaxGamma, drop : 0 .. MaxDrop, first : BOOLEAN,
     threads : ThreadCounts, largest : Nat \cup {-1}, failed : BOOLEAN,
     result : Nat \cup {-1}]

ThreadType ==
    [pc : {"take", "file", "done"}, file : Files, pos : Nat \ {0},
     gamma : 0 .. MaxGamma, drop : 0 .. MaxDrop, still : BOOLEAN,
     wrote : Nat \cup {-1}, skipOut : SUBSET Data, failed : BOOLEAN]

LogType == [passes : 0 .. 3, gamma : Nat, drop : Nat, leaves : SUBSET Data]

\* Every variable has its type.
TypeOK ==
    /\ need \in [Data -> Nat \cup {-1}]
    /\ db \subseteq Tileset
    /\ files \in [Files -> Seq(Data)] /\ sub \in [Files -> Seq(Data)]
    /\ open \in [Files -> BOOLEAN]
    /\ skip \subseteq Data
    /\ tasks \subseteq Files
    /\ main \in MainType
    /\ thread \in [Threads -> ThreadType]
    /\ log \in [Zooms -> LogType]

Written(t) == \E r \in db : r.tile = t

\* An ancestor of t stands in for it, and no tile between them is there after all.
Covered(t) == \E k \in Root[1] .. t[1] - 1 :
    /\ AncestorAt(t, k) \in log[k].leaves
    /\ \A i \in k + 1 .. t[1] - 1 : ~Written(AncestorAt(t, i))
Finished(k) == log[k].passes > 0

\* Every tile of zoom k that has something to show is in the tileset, or below
\* one that was written in enough detail to stand in for it.
Complete(k) == \A t \in Data : t[1] = k /\ need[t] >= 0 => Written(t) \/ Covered(t)

\* The features of a tile are written for the next zoom in one place only,
\* however many passes the zoom takes and whichever thread tiles it: a tile
\* heads a run of features at most once in the files of a zoom.
HeadersOnce ==
    \A f \in {files, sub} : \A j, k \in Files :
        \A a \in DOMAIN f[j], b \in DOMAIN f[k] : f[j][a] = f[k][b] => j = k /\ a = b

\* A tile is never written over one that is already there, which would end the
\* program: passes start from an erased zoom, and a pass writes a tile once.
NeverExists == main.phase # "exists"

\* Nothing is written twice, neither for the next zoom nor to the tileset.
WrittenOnce == HeadersOnce /\ NeverExists

\* All the tiles of a finished zoom were made with the thresholds of its last
\* pass, so that neighbouring tiles are reduced alike.
ZoomsUniform ==
    \A r \in db : Finished(r.tile[1]) =>
        r.gamma = log[r.tile[1]].gamma /\ r.drop = log[r.tile[1]].drop

\* ZoomsUniform is not inductive.  It holds because the tiles of a zoom in
\* progress were all made since the zoom was last erased, each by a thread that
\* reports thresholds at least as high; and because all the tiles in the files
\* of a zoom are of one zoom, which is not yet finished.
ZoomsInOrder == \A k \in Zooms : Finished(k) => k < main.z
OneZoom ==
    /\ \A j \in Files : \A a \in DOMAIN files[j] :
         /\ files[j][a][1] >= main.z
         /\ \A i \in Files : \A b \in DOMAIN files[i] : files[i][b][1] = files[j][a][1]
    /\ \A j \in Files : \A a \in DOMAIN sub[j] :
         \E i \in Files : \E b \in DOMAIN files[i] :
             sub[j][a][1] = NextZoom(files[i][b][1], main.threads)
ThreadsReport == \A w \in Threads :
    /\ thread[w].pc # "done" => w \in Joined
    /\ thread[w].wrote = -1 \/ \E j \in Files : \E a \in DOMAIN files[j] :
                                    thread[w].wrote = files[j][a][1]
TilesReported == \A r \in db : ~Finished(r.tile[1]) =>
    /\ r.gamma >= main.gamma /\ r.drop >= main.drop
    /\ \E w \in Joined : /\ thread[w].wrote = r.tile[1]
                         /\ thread[w].gamma >= r.gamma /\ thread[w].drop >= r.drop
UniformInv ==
    /\ TypeOK
    /\ ZoomsUniform
    /\ main.phase = "pass" => ZoomsInOrder /\ OneZoom /\ ThreadsReport /\ TilesReported

\* When the program says that the tileset is complete (through some zoom), no
\* tile is missing from those zooms, except where a zoom took three passes: the
\* third finds its files closed.
CompleteThrough ==
    main.phase \in {"complete", "through"} =>
        \A k \in MinZoom .. main.result : Complete(k) \/ log[k].passes > 2

\* A tile stands in for its descendants only if nothing was dropped from its
\* zoom, and below it there are tiles only if the zoom after it had to drop
\* features.
LeavesRespected ==
    /\ \A k \in Zooms : log[k].leaves # {} => log[k].drop = 0
    /\ \A r \in db : \A k \in Root[1] .. r.tile[1] - 1 :
        AncestorAt(r.tile, k) \in log[k].leaves =>
            IF Finished(k + 1) THEN log[k + 1].drop > 0 ELSE main.drop > 0

\* With -ae the zooms are extended until one needs no dropping.
ExtendedFarEnough ==
    main.phase = "complete" /\ AlwaysExtend =>
        main.result = ZoomLimit \/ log[main.result].drop = 0

\* A finished zoom is never touched again, whatever is erased later.
FinishedStay == [][\A r \in db : Finished(r.tile[1]) => r \in db']_vars

\* The tileset grows by whole zooms: see TileLevels.
Levels == INSTANCE TileLevels WITH
    draws  <- {t \in Data : need[t] >= 0},
    done   <- {k \in Zooms : Finished(k)},
    shown  <- {r.tile : r \in {q \in db : Finished(q.tile[1])}},
    leaves <- UNION {log[k].leaves : k \in Zooms}
GrowsByLevels == Levels!Spec

\* The passes over a zoom end, and so do the zooms.
Terminates == <>(main.phase # "pass")
=============================================================================
