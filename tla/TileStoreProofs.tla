-------------------------- MODULE TileStoreProofs --------------------------
(***************************************************************************)
(* That a tileset of any kind keeps its tiles as a function does: TileStore *)
(* implements KeyedTiles, for every set of tiles, contents and zooms.      *)
(***************************************************************************)
EXTENDS TileStore, TLAPS

\* Every row of map has its image in the same zoom, and an image is what its hash stands
\* for; so that the view is what map says.
RowsHaveImages ==
    /\ \A t \in DOMAIN map : Image(t[1], map[t]) \in DOMAIN images
    /\ \A i \in DOMAIN images : images[i] = i[2]

Tables ==
    /\ DOMAIN map \subseteq Tiles /\ map = [t \in DOMAIN map |-> map[t]]
    /\ \A t \in DOMAIN map : map[t] \in Contents
    /\ DOMAIN files \subseteq Tiles /\ files = [t \in DOMAIN files |-> files[t]]
    /\ \A t \in DOMAIN files : files[t] \in Contents

IInv == Tables /\ RowsHaveImages

ViewShows == View = IF kind = "directory" THEN files ELSE map

\* The tileset that the two tables stand for.
LEMMA ViewIsMap == IInv => ViewShows
<1> SUFFICES ASSUME IInv PROVE ViewShows
  OBVIOUS
<1>1. Joinable = DOMAIN map
  BY DEF IInv, RowsHaveImages, Joinable
<1>2. \A t \in DOMAIN map : images[Image(t[1], map[t])] = map[t]
  BY DEF IInv, RowsHaveImages, Image
<1>3. [t \in Joinable |-> images[Image(t[1], map[t])]] = [t \in DOMAIN map |-> map[t]]
  BY <1>1, <1>2
<1>4. QED
  BY <1>3 DEF ViewShows, View, IInv, Tables

\* The same after a step.
LEMMA NextViewIsMap == IInv' => ViewShows'
  BY ViewIsMap, PTL

\* The tables are consistent at first, also when they are those of an earlier tileset.
LEMMA InitTables == Init => IInv
<1> SUFFICES ASSUME Init PROVE IInv
  OBVIOUS
<1>1. PICK e \in Earlier :
        /\ map = IF kind = "directory" THEN Nothing ELSE [t \in DOMAIN e |-> Hash(e[t])]
        /\ images = IF kind = "directory" THEN Nothing ELSE [i \in Rows(e) |-> i[2]]
        /\ files = IF kind = "directory" THEN e ELSE Nothing
  BY DEF Init
<1>2. DOMAIN e \subseteq Tiles /\ e = [t \in DOMAIN e |-> e[t]] /\ \A t \in DOMAIN e : e[t] \in Contents
  BY EarlierAssumption
<1>3. Tables
  <2>1. CASE kind = "directory"
    BY <1>1, <1>2, <2>1 DEF Tables, Nothing
  <2>2. CASE kind # "directory"
    BY <1>1, <1>2, <2>2 DEF Tables, Nothing, Hash
  <2>3. QED
    BY <2>1, <2>2
<1>4. RowsHaveImages
  <2>1. CASE kind = "directory"
    BY <1>1, <2>1 DEF RowsHaveImages, Nothing
  <2>2. CASE kind # "directory"
    BY <1>1, <1>2, <2>2 DEF RowsHaveImages, Rows, Hash, Image
  <2>3. QED
    BY <2>1, <2>2
<1>5. QED
  BY <1>3, <1>4 DEF IInv

\* A new row comes with its image; "replace into images" leaves the other images, and
\* even its own if it was there.
LEMMA WriteRowTables ==
    ASSUME IInv, NEW t \in Tiles, NEW c \in Contents, WriteRow(t, c)
    PROVE  IInv'
<1>1. images' = Having(images, Image(t[1], c), c)
  BY DEF WriteRow, Hash
<1>2. \A i \in DOMAIN images' : images'[i] = i[2]
  <2>1. Image(t[1], c)[2] = c
    BY DEF Image
  <2>2. QED
    BY <1>1, <2>1 DEF IInv, RowsHaveImages, Having
<1>3. DOMAIN images \subseteq DOMAIN images' /\ Image(t[1], c) \in DOMAIN images'
  BY <1>1 DEF Having
<1>4. CASE map' = map
  BY <1>2, <1>3, <1>4 DEF IInv, Tables, RowsHaveImages, WriteRow
<1>5. CASE t \notin DOMAIN map /\ map' = Having(map, t, c)
  <2>1. DOMAIN map' = DOMAIN map \cup {t} /\ map'[t] = c /\ map' = [x \in DOMAIN map' |-> map'[x]]
    BY <1>5 DEF Having
  <2>2. \A x \in DOMAIN map : map'[x] = map[x]
    BY <1>5 DEF Having
  <2>3. Tables'
    BY <2>1, <2>2 DEF IInv, Tables, WriteRow
  <2>4. \A x \in DOMAIN map' : Image(x[1], map'[x]) \in DOMAIN images'
    BY <1>3, <2>1, <2>2 DEF IInv, RowsHaveImages
  <2>5. QED
    BY <1>2, <2>3, <2>4 DEF IInv, RowsHaveImages
<1>6. QED
  BY <1>4, <1>5 DEF WriteRow, Hash

\* A file of a directory leaves the tables alone.
LEMMA WriteFileTables ==
    ASSUME IInv, NEW t \in Tiles, NEW c \in Contents, WriteFile(t, c)
    PROVE  IInv'
<1>1. RowsHaveImages'
  BY DEF IInv, RowsHaveImages, WriteFile, Image
<1>2. CASE files' = files
  BY <1>1, <1>2 DEF IInv, Tables, WriteFile
<1>3. CASE files' = Having(files, t, c)
  <2>1. DOMAIN files' = DOMAIN files \cup {t} /\ files'[t] = c
        /\ files' = [x \in DOMAIN files' |-> files'[x]]
    BY <1>3 DEF Having
  <2>2. \A x \in DOMAIN files : x # t => files'[x] = files[x]
    BY <1>3 DEF Having
  <2>3. QED
    BY <1>1, <2>1, <2>2 DEF IInv, Tables, WriteFile
<1>4. QED
  BY <1>2, <1>3 DEF WriteFile

\* Erasing takes the images of a zoom, which only the rows of that zoom have, and they go
\* too.
LEMMA EraseTables ==
    ASSUME IInv, EraseZoom
    PROVE  IInv'
<1>1. DOMAIN map' = {t \in DOMAIN map : t[1] # zoom} /\ map' = [t \in DOMAIN map' |-> map'[t]]
      /\ \A t \in DOMAIN map' : map'[t] = map[t]
  BY DEF EraseZoom, ErasedTiles
<1>2. DOMAIN files' = {t \in DOMAIN files : t[1] # zoom} /\ files' = [t \in DOMAIN files' |-> files'[t]]
      /\ \A t \in DOMAIN files' : files'[t] = files[t]
  BY DEF EraseZoom, ErasedTiles
<1>3. DOMAIN images' = {i \in DOMAIN images : i[1] # zoom}
      /\ \A i \in DOMAIN images' : images'[i] = images[i]
  BY DEF EraseZoom, ErasedImages
<1>4. Tables'
  BY <1>1, <1>2 DEF IInv, Tables
<1>5. \A t \in DOMAIN map' : Image(t[1], map'[t]) \in DOMAIN images'
  BY <1>1, <1>3 DEF IInv, RowsHaveImages, Image
<1>6. RowsHaveImages'
  BY <1>3, <1>5 DEF IInv, RowsHaveImages
<1>7. QED
  BY <1>4, <1>6 DEF IInv

\* So every step keeps the tables consistent.
LEMMA NextTables == IInv /\ [Next]_vars => IInv'
<1> SUFFICES ASSUME IInv, [Next]_vars PROVE IInv'
  OBVIOUS
<1>1. CASE \E t \in Tiles, c \in Contents : WriteRow(t, c) \/ WriteFile(t, c)
  BY <1>1, WriteRowTables, WriteFileTables
<1>2. CASE EraseZoom
  BY <1>2, EraseTables
<1>3. CASE UNCHANGED <<map, images, files>>
  BY <1>3 DEF IInv, Tables, RowsHaveImages, Image
<1>4. QED
  BY <1>1, <1>2, <1>3 DEF Next, NextZoom, Convert, vars

\* A tile is written as the function would be, or nothing changes.
LEMMA WriteView ==
    ASSUME IInv, IInv', NEW t \in Tiles, NEW c \in Contents, WriteRow(t, c) \/ WriteFile(t, c)
    PROVE  Keyed!Write(t, c) \/ View' = View
<1>1. View = (IF kind = "directory" THEN files ELSE map)
      /\ View' = (IF kind' = "directory" THEN files' ELSE map')
  BY ViewIsMap, NextViewIsMap DEF ViewShows
<1>2. kind' = kind
  BY DEF WriteRow, WriteFile
<1>3. CASE WriteRow(t, c)
  BY <1>1, <1>2, <1>3 DEF WriteRow, Keyed!Write, Having, Hash
<1>4. CASE WriteFile(t, c)
  BY <1>1, <1>2, <1>4 DEF WriteFile, Keyed!Write, Having
<1>5. QED
  BY <1>3, <1>4

\* A zoom is erased as in the function.
LEMMA EraseView ==
    ASSUME IInv, IInv', EraseZoom
    PROVE  Keyed!Erase(zoom)
<1>1. View = (IF kind = "directory" THEN files ELSE map)
      /\ View' = (IF kind' = "directory" THEN files' ELSE map')
  BY ViewIsMap, NextViewIsMap DEF ViewShows
<1>2. QED
  BY <1>1 DEF EraseZoom, ErasedTiles, Keyed!Erase

\* It begins as a function too.
LEMMA InitView == Init => Keyed!Init
<1> SUFFICES ASSUME Init PROVE Keyed!Init
  OBVIOUS
<1>1. IInv
  BY InitTables
<1>2. View = IF kind = "directory" THEN files ELSE map
  BY <1>1, ViewIsMap DEF ViewShows
<1>3. View \in [DOMAIN View -> Contents] /\ DOMAIN View \subseteq Tiles
  BY <1>1, <1>2 DEF IInv, Tables
<1>4. QED
  BY <1>3 DEF Keyed!Init

\* Every step of the tables is a step of the function, or changes nothing in it.
LEMMA NextView ==
    ASSUME IInv, IInv', [Next]_vars
    PROVE  [Keyed!Next]_View
<1>1. CASE \E t \in Tiles, c \in Contents : WriteRow(t, c) \/ WriteFile(t, c)
  BY <1>1, WriteView DEF Keyed!Next
<1>2. CASE EraseZoom
  <2>1. Keyed!Erase(zoom)
    BY <1>2, EraseView
  <2>2. CASE \E t \in Tiles : t[1] = zoom
    BY <2>1, <2>2 DEF Keyed!Next
  <2>3. CASE ~\E t \in Tiles : t[1] = zoom
    <3>1. View' = (IF kind' = "directory" THEN files' ELSE map')
          /\ View = (IF kind = "directory" THEN files ELSE map)
      BY ViewIsMap, NextViewIsMap DEF ViewShows
    <3>2. map' = map /\ files' = files
      BY <1>2, <2>3 DEF EraseZoom, ErasedTiles, IInv, Tables
    <3>3. QED
      BY <1>2, <3>1, <3>2 DEF EraseZoom
  <2>4. QED
    BY <2>2, <2>3
<1>3. CASE UNCHANGED <<kind, map, images, files>>
  BY <1>3 DEF View, Joinable, Image
<1>4. QED
  BY <1>1, <1>2, <1>3 DEF Next, NextZoom, Convert, vars

\* The tables stay consistent, whatever is written and erased.
THEOREM TablesConsistent == Spec => []IInv
<1>1. QED
  BY InitTables, NextTables, PTL DEF Spec

\* Stores: a tileset of any kind is a function from the tiles written since their zoom was
\* erased last to their contents (mbtiles_write_tile(), mbtiles_erase_zoom(),
\* dir_write_tile(), dir_erase_zoom()).
THEOREM StoresTiles == Spec => Stores
<1>1. IInv /\ IInv' /\ [Next]_vars => [Keyed!Next]_View
  BY NextView
<1>2. QED
  BY <1>1, InitView, TablesConsistent, PTL DEF Spec, Stores, Keyed!Spec

=============================================================================
