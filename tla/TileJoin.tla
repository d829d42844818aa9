------------------------------ MODULE TileJoin ------------------------------
(***************************************************************************)
(* tile-join (tile-join.cpp): tilesets are read side by side, each in the  *)
(* order zoom, column, row from the south, by a queue of readers that is   *)
(* kept sorted by the tile that each is at.  The tiles found make up a     *)
(* batch, which is only given to the threads when no other reader is at    *)
(* the tile that was read last.  A reader that has come to its end goes on *)
(* (with -O) to make up tiles of the next zooms from its last one, which   *)
(* are used as long as another reader still has tiles there.               *)
(*                                                                         *)
(* A feature is a point in a cell of the deepest zoom, and a tile has the  *)
(* features of the cells under it, without a buffer.                       *)
(***************************************************************************)
EXTENDS Integers, Sequences, SequencesExt, FiniteSets, FiniteSetsExt,
        Functions

CONSTANTS
    Catalogue,      \* the tilesets there are, as a sequence of records
                    \* [tiles, points, kept, listed]
    Requests,       \* the command lines, [args, overzoom, minzoom, maxzoom, limited]
    Deepest,        \* the zoom whose cells place the features
    CPUs,           \* CPUS
    BatchLimit,     \* 100 * CPUS
    SizeLimit       \* features that a tile of 500000 bytes has

Zooms == 0..Deepest
TilesAt(z) == {<<z, x, y>> : x, y \in 0..(2^z - 1)}
Tiles == UNION {TilesAt(z) : z \in Zooms}
Threads == 1..CPUs

CellsIn(t) ==
    {c \in TilesAt(Deepest) :
        /\ c[2] \div 2^(Deepest - t[1]) = t[2]
        /\ c[3] \div 2^(Deepest - t[1]) = t[3]}
Children(t) == {<<t[1] + 1, 2 * t[2] + i, 2 * t[3] + j>> : i, j \in {0, 1}}
Ancestor(t, z) == <<z, t[2] \div 2^(t[1] - z), t[3] \div 2^(t[1] - z)>>

ASSUME RequestAssumption ==
    \A q \in Requests :
        /\ q.args \in Seq(DOMAIN Catalogue) /\ q.args # <<>>
        /\ q.minzoom \in Nat /\ q.maxzoom \in Zooms /\ q.minzoom <= q.maxzoom
        /\ q.overzoom \in BOOLEAN /\ q.limited \in BOOLEAN
ASSUME CatalogueAssumption ==
    \A s \in DOMAIN Catalogue :
        /\ Catalogue[s].tiles \subseteq Tiles
        /\ Catalogue[s].kept \subseteq Catalogue[s].points
        /\ Catalogue[s].points \subseteq TilesAt(Deepest)
        /\ Catalogue[s].listed \in BOOLEAN

NoTile == 32        \* the zoom of a reader that has nothing left

ASSUME SizeAssumption ==
    /\ CPUs \in Nat \ {0} /\ Deepest \in Nat /\ Deepest + 1 < NoTile
    /\ BatchLimit \in Nat /\ SizeLimit \in Nat

\* What powers of 2 are.
ASSUME PowerAssumption ==
    /\ 2^0 = 1
    /\ \A i \in Zooms : 2^i \in Nat \ {0} /\ 2^(i + 1) = 2 * 2^i

VARIABLES
    request,        \* the command line
    phase,          \* "opening", "reading", "joining", "done" or "failed"
    opened,         \* how many of the arguments have been opened
    readers,        \* the queue of tileset_reader
    last,           \* has the last batch been dispatched?
    tasks,          \* the batch that is being read: tile -> sequence of contents
    inputs,         \* what each thread has still to join
    outputs,        \* what each thread has joined
    layermaps,      \* for each thread the zooms of the features it has seen
    collected,      \* how many threads of the batch have been joined
    out,            \* the tileset written
    claimed         \* minzoom and maxzoom of the metadata

vars == <<request, phase, opened, readers, last, tasks, inputs, outputs, layermaps,
          collected, out, claimed>>

\* The content of a tile: which source it is from and the cells with features, or
\* nothing.
Content(s, t) ==
    LET cells == Catalogue[s].points \cap CellsIn(t)
    IN  IF cells = {} THEN <<>> ELSE <<s, cells>>

Joined(contents) == UNION {{<<d[1], c>> : c \in d[2]} : d \in ToSet(contents) \ {<<>>}}

\* What the filters, the layers and -i leave of the features.
Surviving(contents) == {f \in Joined(contents) : f[2] \in Catalogue[f[1]].kept}

TooLarge(q, features) == q.limited /\ Cardinality(features) > SizeLimit

AtZoom(t, z) == <<z, t[2], t[3]>>

\* z/x/tms_y order.
TileBefore(a, b) ==
    \/ a[1] < b[1]
    \/ a[1] = b[1] /\ a[2] < b[2]
    \/ a[1] = b[1] /\ a[2] = b[2] /\ a[3] > b[3]

\* Wrong: from the north.
PulledFromNorth(a, b) == a[2] < b[2] \/ (a[2] = b[2] /\ a[3] < b[3])

\* tilecmp, "backwards, since we are pulling from the end of the list": here the next
\* tile is the first.
PulledBefore(a, b) == a[2] < b[2] \/ (a[2] = b[2] /\ a[3] > b[3])

DataBefore(a, b) == b # <<>> /\ (a = <<>> \/ a[1] < b[1])

ReaderBefore(r, s) ==
    \/ TileBefore(r.tile, s.tile)
    \/ r.tile = s.tile /\ DataBefore(r.data, s.data)

FirstTile(tiles) == CHOOSE t \in tiles : \A u \in tiles \ {t} : TileBefore(t, u)
FirstPulled(tiles) == CHOOSE t \in tiles : \A u \in tiles \ {t} : PulledBefore(t, u)

-----------------------------------------------------------------------------
(* The reader of a tileset. *)

\* Directories and .pmtiles only list the tiles of the zooms that are asked for.
Readable(q, s) ==
    IF Catalogue[s].listed
    THEN {t \in Catalogue[s].tiles : t[1] \in q.minzoom..q.maxzoom}
    ELSE Catalogue[s].tiles

NewReader(s) ==
    [source |-> s, tile |-> <<0, 0, 0>>, data |-> <<>>, over |-> FALSE, done |-> FALSE,
     rest |-> Readable(request, s), top |-> -1, attop |-> {}, waiting |-> {},
     nextover |-> {}, consumed |-> FALSE]

\* Wrong: that tiles of the zoom before were used is not forgotten.
NextOverzoomConsumed(r) ==
    LET zoom  == r.tile[1] + 1
        first == zoom = r.top + 1
        tiles == IF first THEN UNION {Children(t) : t \in r.attop} ELSE r.nextover
    IN  [r EXCEPT !.tile = AtZoom(@, zoom), !.waiting = tiles,
                  !.nextover = IF first THEN @ ELSE {}]

\* The first zoom past the last is all the children of the tiles there; after that
\* only those that were found to have features.
NextOverzoom(r) ==
    LET zoom  == r.tile[1] + 1
        first == zoom = r.top + 1
        tiles == IF first THEN UNION {Children(t) : t \in r.attop} ELSE r.nextover
    IN  [r EXCEPT !.tile = AtZoom(@, zoom), !.waiting = tiles,
                  !.nextover = IF first THEN @ ELSE {}, !.consumed = FALSE]

\* retrieve_overzoom(), which also finds the children that will have features.
RetrieveOverzoom(r, t) ==
    LET content == IF Ancestor(t, r.top) \in r.attop /\ t[1] <= Deepest
                   THEN Content(r.source, t) ELSE <<>>
    IN  [r EXCEPT !.tile = t, !.data = content, !.over = TRUE,
                  !.nextover = @ \cup {c \in Children(t) :
                      content # <<>> /\ t[1] < Deepest /\ Content(r.source, c) # <<>>}]

\* advance() of a reader that is done.
Overzoomed(r) ==
    LET s == IF r.waiting = {} THEN NextOverzoom(r) ELSE r
        t == FirstPulled(s.waiting)
    IN  IF s.waiting = {} THEN [s EXCEPT !.over = FALSE, !.tile = AtZoom(@, NoTile)]
        ELSE RetrieveOverzoom([s EXCEPT !.waiting = @ \ {t}], t)

NextTile(r) ==
    LET t == FirstTile(r.rest)
        deeper == t[1] > r.top
    IN  [r EXCEPT !.over = FALSE, !.tile = t, !.rest = @ \ {t},
                  !.data = Content(r.source, t),
                  !.top = IF deeper THEN t[1] ELSE @,
                  !.attop = IF deeper THEN {t} ELSE @ \cup {t}]

AtEnd(r) ==
    LET ended == [r EXCEPT !.done = TRUE, !.over = FALSE]
    IN  IF request.overzoom THEN Overzoomed(NextOverzoom(ended))
        ELSE [ended EXCEPT !.tile = AtZoom(@, NoTile)]

Advance(r) ==
    IF r.done THEN Overzoomed(r) ELSE IF r.rest # {} THEN NextTile(r) ELSE AtEnd(r)

\* Wrong: it is over when the real tiles are.
AllDoneReal(queue) == \A i \in DOMAIN queue : queue[i].done

AllDone(queue) == \A i \in DOMAIN queue : queue[i].done /\ ~queue[i].consumed

\* Put in "whatever sequence its next tile calls for".
Enqueue(queue, r) ==
    LET later == {i \in DOMAIN queue : ReaderBefore(r, queue[i])}
    IN  InsertAt(queue, IF later = {} THEN Len(queue) + 1
                        ELSE CHOOSE i \in later : \A j \in later : i <= j, r)

-----------------------------------------------------------------------------
Init ==
    /\ request \in Requests
    /\ phase = "opening" /\ opened = 0 /\ readers = <<>> /\ last = FALSE
    /\ tasks = <<>> /\ out = <<>> /\ claimed = <<>> /\ collected = 0
    /\ inputs = [i \in Threads |-> <<>>]
    /\ outputs = [i \in Threads |-> <<>>]
    /\ layermaps = [i \in Threads |-> {}]

\* begin_reading() of the next argument: it is sorted in by its first tile.
Open ==
    /\ phase = "opening"
    /\ \E r \in {NewReader(request.args[opened + 1])} : \E ahead \in {Advance(r)} :
            readers' = Enqueue(readers, ahead)
    /\ opened' = opened + 1
    /\ phase' = IF opened' = Len(request.args) THEN "reading" ELSE "opening"
    /\ UNCHANGED <<request, last, tasks, inputs, outputs, layermaps, collected, out, claimed>>

Added(batch, t, content) ==
    IF t[1] \notin request.minzoom..request.maxzoom THEN batch
    ELSE [u \in DOMAIN batch \cup {t} |->
            (IF u \in DOMAIN batch THEN batch[u] ELSE <<>>)
                \o (IF u = t THEN <<content>> ELSE <<>>)]

\* The tiles of a batch go to the threads in turn.
Dispatch(batch) ==
    LET rank(t) == Cardinality({u \in DOMAIN batch : TileBefore(u, t)})
        share(i) == {t \in DOMAIN batch : rank(t) % CPUs = i - 1}
    IN  /\ inputs' = [i \in Threads |-> [t \in share(i) |-> batch[t]]]
        /\ outputs' = [i \in Threads |-> <<>>]
        /\ collected' = 0
        /\ phase' = "joining"
        /\ tasks' = <<>>

\* Is the next reader "looking at a different tile"?
Complete(t, others) == others = <<>> \/ others[1].tile # t

Read ==
    /\ phase = "reading"
    /\ ~AllDone(readers)
    /\ \E r \in {Head(readers)}, others \in {Tail(readers)} :
       \E batch \in {Added(tasks, r.tile, r.data)},
          ahead \in {Advance([r EXCEPT !.consumed = @ \/ r.over])} :
           /\ readers' = Enqueue(others, ahead)
           /\ IF Complete(r.tile, others) /\ Cardinality(DOMAIN batch) > BatchLimit
              THEN Dispatch(batch)
              ELSE tasks' = batch /\ UNCHANGED <<inputs, outputs, collected, phase>>
    /\ UNCHANGED <<request, opened, last, layermaps, out, claimed>>

ReadLast ==
    /\ phase = "reading"
    /\ AllDone(readers)
    /\ Dispatch(tasks)
    /\ last' = TRUE
    /\ UNCHANGED <<request, opened, readers, layermaps, out, claimed>>

\* The tiles of made besides those there are.
Beside(tiles, made) ==
    [t \in DOMAIN tiles \cup DOMAIN made |-> IF t \in DOMAIN tiles THEN tiles[t] ELSE made[t]]

\* A tile of join_worker() in thread i.
Join(i) ==
    /\ phase = "joining"
    /\ inputs[i] # <<>>
    /\ LET t        == FirstTile(DOMAIN inputs[i])
           features == Surviving(inputs[i][t])
       IN  /\ layermaps' = [layermaps EXCEPT
                    ![i] = IF features = {} THEN @ ELSE @ \cup {t[1]}]
           /\ outputs' = [outputs EXCEPT
                    ![i] = IF features = {} \/ TooLarge(request, features) THEN @
                           ELSE Beside(@, [u \in {t} |-> features])]
           /\ inputs' = [inputs EXCEPT ![i] = RestrictDomain(@, LAMBDA u : u # t)]
    /\ UNCHANGED <<request, phase, opened, readers, last, tasks, collected, out, claimed>>

\* The next thread is joined and what it made is written.  A tile that has been written
\* already is an error of the database.
Collect ==
    /\ phase = "joining"
    /\ inputs[collected + 1] = <<>>
    /\ LET made  == outputs[collected + 1]
           again == DOMAIN made \cap DOMAIN out # {}
       IN  /\ out' = IF again THEN out ELSE Beside(out, made)
           /\ phase' = IF again THEN "failed"
                       ELSE IF collected + 1 < CPUs THEN "joining"
                       ELSE IF last THEN "joined" ELSE "reading"
    /\ collected' = collected + 1
    /\ UNCHANGED <<request, opened, readers, last, tasks, inputs, outputs, layermaps, claimed>>

\* Wrong: only what the first thread saw.
FirstZooms(maps) == maps[1]

\* merge_layermaps(), of which only the zooms are left.
MergedZooms(maps) == UNION {maps[i] : i \in Threads}

\* The zooms of the metadata.
Finish ==
    /\ phase = "joined"
    /\ LET zooms == MergedZooms(layermaps)
       IN  claimed' = IF zooms = {} THEN <<>> ELSE <<Min(zooms), Max(zooms)>>
    /\ phase' = "done"
    /\ UNCHANGED <<request, opened, readers, last, tasks, inputs, outputs, layermaps,
                   collected, out>>

Next == Open \/ Read \/ ReadLast \/ Collect \/ Finish \/ \E i \in Threads : Join(i)

Spec == Init /\ [][Next]_vars

\* The main thread and the workers are threads that the system goes on running.
FairSpec ==
    /\ Spec
    /\ WF_vars(Open \/ Read \/ ReadLast \/ Collect \/ Finish)
    /\ \A i \in Threads : WF_vars(Join(i))

-----------------------------------------------------------------------------
(* Correctness. *)

TypeOK ==
    /\ phase \in {"opening", "reading", "joining", "joined", "done", "failed"}
    /\ opened \in 0..Len(request.args) /\ Len(readers) = opened
    /\ \A i \in DOMAIN readers : readers[i].tile[1] \in Zooms \cup {Deepest + 1, NoTile}
    /\ DOMAIN tasks \subseteq Tiles /\ DOMAIN out \subseteq Tiles
    /\ collected \in 0..CPUs

Args(q) == ToSet(q.args)
LastZoom(q, s) == Max({t[1] : t \in Readable(q, s)} \cup {-1})

\* The features that the output should have of source s in a tile past its last zoom.
ScaledUp(q, s, t) ==
    LET top == LastZoom(q, s)
    IN  IF top >= 0 /\ t[1] > top /\ Ancestor(t, top) \in Readable(q, s)
        THEN {<<s, c>> : c \in Catalogue[s].kept \cap CellsIn(t)} ELSE {}

Must(q, t) ==
    UNION {{<<s, c>> : c \in Catalogue[s].kept \cap CellsIn(t)} :
            s \in {a \in Args(q) : t \in Readable(q, a)}}

May(q, t) ==
    Must(q, t) \cup (IF q.overzoom THEN UNION {ScaledUp(q, s, t) : s \in Args(q)} ELSE {})

Wanted(q) == {t \in Tiles : t[1] \in q.minzoom..q.maxzoom /\ Must(q, t) # {}}

Fits(q, features) == ~TooLarge(q, features)

Abstract == INSTANCE JoinedTileset WITH finished <- (phase = "done")

\* Each tile is written once and with all that the sources have there, whatever the
\* batches and the threads it went through, and none is left out.
Joins == Abstract!Spec

Has(s, t) == t \in DOMAIN out /\ \E c \in TilesAt(Deepest) : <<s, c>> \in out[t]

\* A tileset is scaled up to a zoom in all of its tiles or in none: "at least one
\* overzoomed tile has been consumed at this zoom level, in which case they should all
\* allowed to be consumed before stopping" (all_done()).
OverzoomWhole ==
    phase = "done" /\ ~request.limited =>
        \A s \in Args(request), z \in Zooms :
            LET scaled == {t \in TilesAt(z) : ScaledUp(request, s, t) # {}}
            IN  (\A t \in scaled : Has(s, t)) \/ (\A t \in scaled : ~Has(s, t))

\* The zooms of the metadata have all the tiles between them, and are those of tiles
\* written unless some were too large.
ClaimsCover ==
    /\ TypeOK
    /\ phase = "done" =>
        /\ \A t \in DOMAIN out : claimed # <<>> /\ t[1] \in claimed[1]..claimed[2]
        /\ claimed # <<>> /\ ~request.limited =>
                ToSet(claimed) \subseteq {t[1] : t \in DOMAIN out}

\* tile-join comes to its end: readers that make up tile after tile of ever deeper zooms
\* do not keep each other going.
Finishes == <>(phase = "done")

\* The tilesets are scaled up "so they will all have the same maxzoom in the output
\* tileset" (README.md).
AllReachMaxzoom ==
    phase = "done" /\ request.overzoom /\ ~request.limited /\ out # <<>> =>
        LET z == Max({t[1] : t \in DOMAIN out})
        IN  \A s \in Args(request), t \in TilesAt(z) :
                ScaledUp(request, s, t) # {} => Has(s, t)

=============================================================================
