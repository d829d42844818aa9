----------------------------- MODULE TileStore -----------------------------
(***************************************************************************)
(* A tileset in the making (mbtiles.cpp, dirtiles.cpp, pmtiles_file.cpp).  *)
(*                                                                         *)
(* In an .mbtiles file a tile is a row of the table map, which has the     *)
(* hash of its contents, and the contents are in the table images, once    *)
(* for each zoom level they occur in.  In a directory a tile is a file.    *)
(* When tiling has to be done over the tiles of the zoom are erased.  A    *)
(* .pmtiles file is an .mbtiles file until the end, and then converted.    *)
(*                                                                         *)
(* The hash of some contents is the contents themselves: two contents with *)
(* the same hash are not modelled.                                         *)
(***************************************************************************)
EXTENDS PmtilesArchive

CONSTANTS
    Contents,       \* what there can be in a tile
    Earlier         \* the tilesets that the output may have been before

ASSUME EarlierAssumption == \A e \in Earlier : \E s \in SUBSET Tiles : e \in [s -> Contents]

VARIABLES
    kind,           \* "mbtiles", "directory" or "pmtiles"
    phase,          \* "writing", "written", "converted", or "failed" with an exit
    zoom,           \* the zoom level that traverse_zooms() is at
    map,            \* the table map: tile -> hash
    images,         \* the table images: <<zoom, hash>> -> contents
    files,          \* the files of a directory: tile -> contents
    archive         \* the converted file

vars == <<kind, phase, zoom, map, images, files, archive>>

Hash(c) == c
Image(z, h) == <<z, h>>

Nothing == [x \in {} |-> x]
Rows(e) == {Image(t[1], Hash(e[t])) : t \in DOMAIN e}
Having(f, k, v) == [x \in DOMAIN f \cup {k} |-> IF x = k THEN v ELSE f[x]]

\* An output that is there already is an error, but with --allow-existing, which
\* .pmtiles do not have (check_pmtiles(), mbtiles_open(), check_dir()).
Init ==
    /\ kind \in {"mbtiles", "directory", "pmtiles"}
    /\ phase = "writing"
    /\ zoom = 0
    /\ archive = <<>>
    /\ \E e \in Earlier :
        /\ kind = "pmtiles" => e = Nothing
        /\ map = IF kind = "directory" THEN Nothing ELSE [t \in DOMAIN e |-> Hash(e[t])]
        /\ images = IF kind = "directory" THEN Nothing ELSE [i \in Rows(e) |-> i[2]]
        /\ files = IF kind = "directory" THEN e ELSE Nothing

\* mbtiles_write_tile(): "replace into images", and then "insert into map", which fails
\* for a tile that is there.
WriteRow(t, c) ==
    /\ phase = "writing" /\ kind # "directory"
    /\ t[1] = zoom
    /\ images' = Having(images, Image(t[1], Hash(c)), c)
    /\ IF t \in DOMAIN map THEN phase' = "failed" /\ UNCHANGED map
       ELSE map' = Having(map, t, Hash(c)) /\ UNCHANGED phase
    /\ UNCHANGED <<kind, zoom, files, archive>>

\* dir_write_tile()
WriteFile(t, c) ==
    /\ phase = "writing" /\ kind = "directory"
    /\ t[1] = zoom
    /\ IF t \in DOMAIN files THEN phase' = "failed" /\ UNCHANGED files
       ELSE files' = Having(files, t, c) /\ UNCHANGED phase
    /\ UNCHANGED <<kind, zoom, map, images, archive>>

\* Wrong: the other zooms that had the same contents lose their images too.
ErasedEverywhere(table, z) ==
    [i \in {j \in DOMAIN table : \A k \in DOMAIN table : k[1] = z => k[2] # j[2]} |-> table[i]]

\* "delete from images where zoom_level = ?"
ErasedImages(table, z) == [i \in {j \in DOMAIN table : j[1] # z} |-> table[i]]
ErasedTiles(table, z) == [t \in {u \in DOMAIN table : u[1] # z} |-> table[t]]

\* mbtiles_erase_zoom() or dir_erase_zoom(), when a pass has to be done over.
EraseZoom ==
    /\ phase = "writing"
    /\ map' = ErasedTiles(map, zoom)
    /\ images' = ErasedImages(images, zoom)
    /\ files' = ErasedTiles(files, zoom)
    /\ UNCHANGED <<kind, phase, zoom, archive>>

NextZoom ==
    /\ phase = "writing"
    /\ IF zoom < MaxZoom THEN zoom' = zoom + 1 /\ UNCHANGED phase
       ELSE phase' = "written" /\ UNCHANGED zoom
    /\ UNCHANGED <<kind, map, images, files, archive>>

\* mbtiles_map_image_to_pmtiles() looks the image up by its hash alone, and takes the
\* first that has it.
ImageOf(h) == images[CHOOSE i \in DOMAIN images : i[2] = h]

Convert ==
    /\ phase = "written" /\ kind = "pmtiles"
    /\ archive' = Archive([t \in DOMAIN map |-> ImageOf(map[t])])
    /\ phase' = "converted"
    /\ UNCHANGED <<kind, zoom, map, images, files>>

Next ==
    \/ \E t \in Tiles, c \in Contents : WriteRow(t, c) \/ WriteFile(t, c)
    \/ EraseZoom
    \/ NextZoom
    \/ Convert

Spec == Init /\ [][Next]_vars

-----------------------------------------------------------------------------
(* Correctness. *)

TypeOK ==
    /\ kind \in {"mbtiles", "directory", "pmtiles"}
    /\ phase \in {"writing", "written", "converted", "failed"}
    /\ zoom \in 0..MaxZoom
    /\ \E s \in SUBSET Tiles : map \in [s -> Contents]
    /\ \E s \in SUBSET (Zooms \X Contents) : images \in [s -> Contents]
    /\ \E s \in SUBSET Tiles : files \in [s -> Contents]

\* The view "tiles" of the database joins the two tables.
Joinable == {t \in DOMAIN map : Image(t[1], map[t]) \in DOMAIN images}
View ==
    IF kind = "directory" THEN files
    ELSE [t \in Joinable |-> images[Image(t[1], map[t])]]

\* Whatever is written and erased, in a tileset of any kind, what can be read is what was
\* written since the zoom was erased last: the images that tiles share are not lost with
\* one of them, nor with those of another zoom.
Keyed == INSTANCE KeyedTiles WITH tiles <- View
Stores == Keyed!Spec

\* A converted tileset lists the same tiles with the same contents (entries_tms(), which
\* tile-join and tippecanoe-decode go by).
ArchiveComplete == phase = "converted" => Listing(archive) = View

\* And each tile can be found by its position in the directory, or the leaf of it, while
\* the others are not (pmtiles_get_tile()).
TilesFound ==
    phase = "converted" =>
        \A t \in Tiles : GetTile(archive, t) = IF t \in DOMAIN View THEN View[t] ELSE NoContents

=============================================================================
