--------------------------- MODULE PmtilesArchive ---------------------------
(***************************************************************************)
(* The directory of a .pmtiles file: how mbtiles_map_image_to_pmtiles()    *)
(* makes its entries, how make_root_leaves() splits it if it is large, and *)
(* how find_tile() and collect_entries() read it (pmtiles/pmtiles.hpp).    *)
(*                                                                         *)
(* Tiles are numbered along a Hilbert curve, the zooms one after another.  *)
(* An entry stands for a run of tiles with the same contents.              *)
(***************************************************************************)
EXTENDS Integers, Sequences, SequencesExt, FiniteSets

CONSTANTS
    Tiles,          \* the tiles <<z, x, y>>
    MaxZoom,        \* their largest zoom
    LeafSize,       \* leaf_size of make_root_leaves(), at first
    RootLimit,      \* entries that the root has room for
    IntBits         \* bits of an int

Zooms == 0..MaxZoom

ASSUME TileAssumption ==
    \A t \in Tiles : t[1] \in Zooms /\ t[2] \in 0..(2^t[1] - 1) /\ t[3] \in 0..(2^t[1] - 1)
ASSUME SizeAssumption == LeafSize \in Nat \ {0} /\ RootLimit \in Nat \ {0, 1} /\ IntBits \in Nat

NoContents == 0     \* an entry without a length

-----------------------------------------------------------------------------
(* The numbers of the tiles. *)

Rotate(s, p, rx, ry) ==
    IF ry = 1 THEN p
    ELSE IF rx = 1 THEN <<s - 1 - p[2], s - 1 - p[1]>>
    ELSE <<p[2], p[1]>>

\* The numbers of the zooms before z.
Before(z) == FoldLeft(LAMBDA acc, k : acc + 4^(k - 1), 0, [k \in 1..z |-> k])

\* zxy_to_tileid(), from the largest square to the smallest.
TileId(t) ==
    LET Step(at, s) ==
            LET rx == (at.p[1] \div s) % 2
                ry == (at.p[2] \div s) % 2
            IN  [p |-> Rotate(s, at.p, rx, ry),
                 d |-> at.d + s * s * (IF rx = 1 THEN 3 - ry ELSE ry)]
    IN  Before(t[1]) +
        FoldLeft(Step, [p |-> <<t[2], t[3]>>, d |-> 0], [k \in 1..t[1] |-> 2^(t[1] - k)]).d

\* tileid_to_zxy(), the other way.
TileOf(id) ==
    LET z == CHOOSE k \in Zooms : Before(k) <= id /\ id < Before(k + 1)
        Step(at, s) ==
            LET rx == (at.d \div 2) % 2
                ry == (at.d + rx) % 2
                p  == Rotate(s, at.p, rx, ry)
            IN  [p |-> <<p[1] + s * rx, p[2] + s * ry>>, d |-> at.d \div 4]
        p == FoldLeft(Step, [p |-> <<0, 0>>, d |-> id - Before(z)], [k \in 1..z |-> 2^(k - 1)]).p
    IN  <<z, p[1], p[2]>>

-----------------------------------------------------------------------------
(* Making the directory. *)

Entry(id, run, contents) == [id |-> id, run |-> run, contents |-> contents]

\* Wrong: whether or not there are other tiles between.
ExtendsAcrossGaps(e, id, contents) == e.contents = contents

\* A run only gets its second tile: later ones are compared with its first.
Extends(e, id, contents) == id = e.id + 1 /\ e.contents = contents

WithTile(entries, id, contents) ==
    IF entries # <<>> /\ Extends(entries[Len(entries)], id, contents)
    THEN [entries EXCEPT ![Len(entries)].run = @ + 1]
    ELSE Append(entries, Entry(id, 1, contents))

Entries(tiles) ==
    LET ids == {TileId(t) : t \in DOMAIN tiles}
        order == [k \in 1..Cardinality(ids) |->
                    CHOOSE id \in ids : Cardinality({j \in ids : j < id}) = k - 1]
    IN  FoldLeft(LAMBDA entries, id : WithTile(entries, id, tiles[TileOf(id)]), <<>>, order)

Leaves(entries, size) ==
    [k \in 1..((Len(entries) + size - 1) \div size) |->
        SubSeq(entries, (k - 1) * size + 1, IF k * size < Len(entries) THEN k * size ELSE Len(entries))]

\* Wrong: by its last tile.
LastOfLeaf(leaf) == leaf[Len(leaf)].id

\* An entry of the root for a leaf begins where the leaf does.
StartOfLeaf(leaf) == leaf[1].id

\* make_root_leaves() and build_root_leaves(): the root has the entries, or else the
\* leaves, which are made twice as large until there is room for them in the root.
Archive(tiles) ==
    LET entries == Entries(tiles)
        doubled == CHOOSE k \in 0..Len(entries) :
                        /\ Len(Leaves(entries, LeafSize * 2^k)) < RootLimit
                        /\ \A j \in 0..(k - 1) : Len(Leaves(entries, LeafSize * 2^j)) >= RootLimit
        leaves  == Leaves(entries, LeafSize * 2^doubled)
    IN  IF Len(entries) <= RootLimit THEN [root |-> entries, leaves |-> <<>>]
        ELSE [root |-> [k \in DOMAIN leaves |-> Entry(StartOfLeaf(leaves[k]), 0, k)],
              leaves |-> leaves]

-----------------------------------------------------------------------------
(* Reading it. *)

\* What is left of a number in an int.
ToInt(n) == ((n + 2^(IntBits - 1)) % 2^IntBits) - 2^(IntBits - 1)

\* The binary search of find_tile(), which compares with "int cmp": the index of the entry
\* that has the number, and otherwise of the last before it.
Search(entries, id) ==
    LET Between[m \in 1..(Len(entries) + 1), n \in 0..Len(entries)] ==
            LET k   == (m + n) \div 2
                cmp == ToInt(id - entries[k].id)
            IN  CASE m > n   -> [index |-> n, exact |-> FALSE]
                  [] cmp > 0 -> Between[k + 1, n]
                  [] cmp < 0 -> Between[m, k - 1]
                  [] OTHER   -> [index |-> k, exact |-> TRUE]
    IN  Between[1, Len(entries)]

FindTile(entries, id) ==
    LET found == Search(entries, id)
        e     == entries[found.index]
    IN  IF found.exact \/ (found.index > 0 /\ (e.run = 0 \/ (id >= e.id /\ id - e.id < e.run)))
        THEN e ELSE Entry(0, 0, NoContents)

\* get_tile() goes on to the leaf that it finds in the root.
GetTile(a, t) ==
    LET e == FindTile(a.root, TileId(t))
    IN  IF e.run > 0 \/ e.contents = NoContents THEN e.contents
        ELSE FindTile(a.leaves[e.contents], TileId(t)).contents

\* entries_tms(), without the order.
Listing(a) ==
    LET entries == IF a.leaves = <<>> THEN a.root ELSE FlattenSeq(a.leaves)
        ids(e)  == e.id..(e.id + e.run - 1)
        entryOf(id) == CHOOSE e \in ToSet(entries) : id \in ids(e)
    IN  [t \in {TileOf(id) : id \in UNION {ids(e) : e \in ToSet(entries)}} |->
            entryOf(TileId(t)).contents]

=============================================================================
