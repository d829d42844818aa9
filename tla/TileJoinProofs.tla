--------------------------- MODULE TileJoinProofs ---------------------------
(***************************************************************************)
(* Proofs about the joining of tilesets, for any tilesets, any command     *)
(* line, any number of threads and any batches: that each tile is written  *)
(* once, with all that the sources have in it, that none is left out, and  *)
(* that a tileset is scaled up to a zoom in all of its tiles or in none.    *)
(*                                                                         *)
(* The argument is about the order of the tiles.  A reader only goes       *)
(* forward, passing all the tiles that its tileset has to offer, real or    *)
(* scaled up, and what it has passed is in every place that holds that      *)
(* tile: the batch, the input or the output of a thread, or the tileset.    *)
(* What has been given to the threads all the readers are past.             *)
(***************************************************************************)
EXTENDS TileJoin, FiniteSetTheorems, SequenceTheorems, WellFoundedInduction, TLAPS

Place == Nat \X Nat \X Nat
AnyTile == UNION {TilesAt(z) : z \in 0..(Deepest + 1)}
Sources == DOMAIN Catalogue
Data == {<<>>} \cup (Sources \X SUBSET TilesAt(Deepest))
Feature == Sources \X TilesAt(Deepest)

ReaderType ==
    [source : Sources, tile : Place, data : Data, over : BOOLEAN, done : BOOLEAN,
     rest : SUBSET Tiles, top : Int, attop : SUBSET Tiles, waiting : SUBSET AnyTile,
     nextover : SUBSET AnyTile, consumed : BOOLEAN]

IsBatch(b) == DOMAIN b \subseteq Tiles /\ b \in [DOMAIN b -> Seq(Data)]
IsMade(m) == DOMAIN m \subseteq Tiles /\ m \in [DOMAIN m -> SUBSET Feature]

-----------------------------------------------------------------------------
(* A reader. *)

\* What tileset s has to offer for tile t: the tile itself, or past its last zoom what
\* there is of the tile above it.
Scales(q, s, t) ==
    /\ q.overzoom /\ LastZoom(q, s) >= 0
    /\ t \in Tiles /\ t[1] > LastZoom(q, s)
    /\ Ancestor(t, LastZoom(q, s)) \in Readable(q, s)
Offers(q, s, t) == t \in Readable(q, s) \/ Scales(q, s, t)
Bears(q, s, t) == Offers(q, s, t) /\ Content(s, t) # <<>>

Been(q, r) == Readable(q, r.source) \ r.rest

\* The tiles of the last zoom that has been read.
TopRead(q, r) ==
    /\ \A t \in Been(q, r) : t[1] <= r.top
    /\ r.attop = {t \in Been(q, r) : t[1] = r.top}
    /\ \/ r.top = -1 /\ Been(q, r) = {}
       \/ r.top \in Zooms /\ r.attop # {}

\* Before the end of the tileset.
Early(q, r) ==
    /\ ~r.done /\ ~r.over /\ ~r.consumed /\ r.waiting = {} /\ r.nextover = {}
    /\ r.rest \subseteq Readable(q, r.source)
    /\ \A t \in Been(q, r), u \in r.rest : TileBefore(t, u)
    /\ TopRead(q, r)
AtTile(q, r) ==
    /\ r.tile \in Been(q, r) /\ r.tile[1] = r.top
    /\ \A t \in Been(q, r) \ {r.tile} : TileBefore(t, r.tile)
    /\ r.data = Content(r.source, r.tile)
Reading(q, r) == Early(q, r) /\ AtTile(q, r)

\* Past the end, at a tile that is made up.
Parent(t) == <<t[1] - 1, t[2] \div 2, t[3] \div 2>>
Above(q, r) ==
    /\ q.overzoom /\ r.top >= 0 /\ r.top < r.tile[1] /\ r.tile[1] <= Deepest + 1
    /\ r.waiting \subseteq TilesAt(r.tile[1])
    /\ r.nextover \subseteq TilesAt(r.tile[1] + 1)
    /\ r.tile[1] >= Deepest => r.nextover = {}
MadeUp(q, r) ==
    /\ r.tile \in TilesAt(r.tile[1])
    /\ r.data = IF Scales(q, r.source, r.tile) THEN Content(r.source, r.tile) ELSE <<>>
    /\ \A t \in r.waiting : TileBefore(r.tile, t)
    /\ \A t \in Tiles : Scales(q, r.source, t) /\ Content(r.source, t) # <<>> =>
        /\ t[1] = r.tile[1] /\ TileBefore(r.tile, t) => t \in r.waiting
        /\ t[1] = r.tile[1] + 1 /\ ~TileBefore(r.tile, Parent(t)) => t \in r.nextover
        /\ t[1] = r.tile[1] /\ TileBefore(t, r.tile) => r.consumed
Ended(q, r) == r.done /\ r.rest = {} /\ TopRead(q, r)
Over(q, r) == Ended(q, r) /\ r.over /\ Above(q, r) /\ MadeUp(q, r)
Out(q, r) ==
    /\ Ended(q, r) /\ ~r.over /\ r.tile[1] = NoTile
    /\ r.waiting = {} /\ r.nextover = {} /\ ~r.consumed

ReaderOK(q, r) == Reading(q, r) \/ Over(q, r) \/ Out(q, r)

-----------------------------------------------------------------------------
(* The program. *)

InRange(t) == t[1] \in request.minzoom..request.maxzoom

\* Of the readers rs, one of source s is past t, and all are or nothing more is read.
Readers == ToSet(readers)
Passed(rs, s, t) == \E r \in rs : r.source = s /\ TileBefore(t, r.tile)
Past(rs, ended, t) == ended \/ \A r \in rs : TileBefore(t, r.tile)

Types ==
    /\ request \in Requests
    /\ phase \in {"opening", "reading", "joining", "joined", "done"}
    /\ opened \in 0..Len(request.args)
    /\ readers \in Seq(ReaderType) /\ Len(readers) = opened
    /\ last \in BOOLEAN /\ collected \in 0..CPUs
    /\ IsBatch(tasks) /\ IsMade(out)
    /\ DOMAIN inputs = Threads /\ DOMAIN outputs = Threads
    /\ \A i \in Threads : IsBatch(inputs[i]) /\ IsMade(outputs[i])
    /\ layermaps \in [Threads -> SUBSET Zooms]

Phases ==
    /\ phase = "opening" =>
        /\ opened < Len(request.args) /\ collected = 0 /\ tasks = <<>> /\ out = <<>>
        /\ \A i \in Threads : outputs[i] = <<>>
    /\ phase # "opening" => opened = Len(request.args)
    /\ phase \in {"opening", "reading"} => ~last
    /\ phase = "joining" => collected < CPUs /\ tasks = <<>>
    /\ phase # "joining" =>
        \A i \in Threads : inputs[i] = <<>> /\ (i > collected => outputs[i] = <<>>)
    /\ phase \in {"joined", "done"} => last /\ collected = CPUs
    /\ last => tasks = <<>> /\ AllDone(readers)
    /\ \A i \in Threads : i <= collected => inputs[i] = <<>>

\* The queue is in order and has a reader of each argument.
Sorted(queue) ==
    \A j, k \in DOMAIN queue : j < k => ~TileBefore(queue[k].tile, queue[j].tile)
Queue ==
    /\ Sorted(readers)
    /\ \A r \in Readers : ReaderOK(request, r) /\ r.source \in Args(request)
    /\ \A n \in 1..opened : \E r \in Readers : r.source = request.args[n]
    /\ phase = "opening" =>
        \A r \in Readers, t \in Tiles : Bears(request, r.source, t) => ~TileBefore(t, r.tile)

\* Who has tile t.
InInput(i, t) == t \in DOMAIN inputs[i]
InOutput(i, t) == i > collected /\ t \in DOMAIN outputs[i]
Given(t) == t \in DOMAIN out \/ \E i \in Threads : InInput(i, t) \/ InOutput(i, t)

\* Each tile is in one place.
OnePlace ==
    /\ \A t \in DOMAIN tasks : ~Given(t)
    /\ \A t \in Tiles : t \in DOMAIN tasks \/ Given(t) => InRange(t)
    /\ \A i \in Threads, t \in Tiles :
        /\ InInput(i, t) \/ InOutput(i, t) => t \notin DOMAIN out
        /\ \A j \in Threads : InInput(i, t) => ~InOutput(j, t)
        /\ \A j \in Threads : i # j => ~(InInput(i, t) /\ InInput(j, t))
        /\ \A j \in Threads : i # j => ~(InOutput(i, t) /\ InOutput(j, t))

\* The readers are at or past what has been read and past what has been given away.
InOrder ==
    /\ \A t \in DOMAIN tasks, r \in Readers : ~TileBefore(r.tile, t)
    /\ \A t \in Tiles : Given(t) => Past(Readers, last, t)

Kept(s, t) == {<<s, c>> : c \in Catalogue[s].kept \cap CellsIn(t)}
TooBig(t) == TooLarge(request, May(request, t))

\* All places that have a tile have what s has in it, and unless it is too big there is
\* one.
EachHas(s, t) ==
    /\ t \in DOMAIN tasks => Content(s, t) \in ToSet(tasks[t])
    /\ \A i \in Threads : InInput(i, t) => Content(s, t) \in ToSet(inputs[i][t])
    /\ \A i \in Threads : InOutput(i, t) => Kept(s, t) \subseteq outputs[i][t]
    /\ t \in DOMAIN out => Kept(s, t) \subseteq out[t]
Settled(s, t) ==
    \/ t \in DOMAIN tasks
    \/ Past(Readers, last, t) /\ (Given(t) \/ TooBig(t) \/ Kept(s, t) = {})
NoneLost ==
    \A r \in Readers, t \in Tiles :
        InRange(t) /\ Bears(request, r.source, t) /\ TileBefore(t, r.tile) =>
            EachHas(r.source, t) /\ Settled(r.source, t)

\* A tile has nothing that no reader has passed.
FromReader(rs, s, t) == s \in Args(request) /\ Offers(request, s, t) /\ Passed(rs, s, t)
FoundIn(rs, contents, t) ==
    \A d \in ToSet(contents) \ {<<>>} : d = Content(d[1], t) /\ FromReader(rs, d[1], t)
MadeOf(rs, features, t) ==
    \A f \in features : f \in Kept(f[1], t) /\ FromReader(rs, f[1], t)
NoneForeign ==
    /\ \A t \in DOMAIN tasks : FoundIn(Readers, tasks[t], t)
    /\ \A i \in Threads, t \in Tiles :
        /\ InInput(i, t) => FoundIn(Readers, inputs[i][t], t)
        /\ InOutput(i, t) => MadeOf(Readers, outputs[i][t], t)
    /\ \A t \in DOMAIN out : MadeOf(Readers, out[t], t)

Sized ==
    \A i \in Threads, t \in Tiles :
        InOutput(i, t) => outputs[i][t] # {} /\ ~TooLarge(request, outputs[i][t])

\* The zooms of what has been made.
ZoomsSeen ==
    /\ \A i \in Threads : \A t \in DOMAIN outputs[i] : t[1] \in layermaps[i]
    /\ \A t \in DOMAIN out : \E i \in Threads : t[1] \in layermaps[i]
    /\ ~request.limited =>
        \A i \in Threads : \A z \in layermaps[i] :
            \E t \in Tiles : t[1] = z /\ (t \in DOMAIN out \/ \E j \in Threads : InOutput(j, t))
Claims ==
    phase = "done" =>
        claimed = IF MergedZooms(layermaps) = {} THEN <<>>
                  ELSE <<Min(MergedZooms(layermaps)), Max(MergedZooms(layermaps))>>

IInv ==
    /\ Types /\ Phases /\ Queue /\ OnePlace /\ InOrder /\ NoneLost /\ NoneForeign
    /\ Sized /\ ZoomsSeen /\ Claims

-----------------------------------------------------------------------------
(* The order of the tiles. *)

LEMMA Order ==
    /\ \A t \in Place : ~TileBefore(t, t)
    /\ \A t, u, v \in Place : TileBefore(t, u) /\ TileBefore(u, v) => TileBefore(t, v)
    /\ \A t, u \in Place : TileBefore(t, u) \/ t = u \/ TileBefore(u, t)
    /\ \A t, u \in Place : t[1] < u[1] => TileBefore(t, u)
    /\ \A t, u \in Place : TileBefore(t, u) => t[1] <= u[1] /\ ~TileBefore(u, t)
    /\ \A t, u, v \in Place : ~TileBefore(u, t) /\ TileBefore(u, v) => TileBefore(t, v)
    /\ \A t, u, v \in Place : TileBefore(t, u) /\ ~TileBefore(v, u) => TileBefore(t, v)
    /\ \A t, u, v \in Place : ~TileBefore(u, t) /\ ~TileBefore(v, u) => ~TileBefore(v, t)
  BY DEF TileBefore, Place

LEMMA LeastShown ==
    ASSUME NEW V \in SUBSET Nat, V # {}
    PROVE  \E m \in V : \A j \in V : m <= j
<1>1. PICK x \in V : TRUE
  OBVIOUS
<1>2. \E m \in V : \A y \in Nat : <<y, m>> \in OpToRel(<, Nat) => y \notin V
  BY <1>1, NatLessThanWellFounded, WFMin
<1>3. \A m \in V, y \in Nat : y < m => <<y, m>> \in OpToRel(<, Nat)
  BY DEF OpToRel
<1>4. PICK m \in V : \A y \in Nat : <<y, m>> \in OpToRel(<, Nat) => y \notin V
  BY <1>2
<1>5. \A j \in V : ~(j < m)
  BY <1>3, <1>4
<1> QED
  BY <1>5

\* A finite set of numbers has a least and a greatest.
LEMMA MaxShown ==
    ASSUME NEW n \in Nat, NEW V \in SUBSET (-1..n), V # {}
    PROVE  Max(V) \in V /\ \A j \in V : j <= Max(V)
<1> DEFINE W == {n - j : j \in V}
<1>1. W \in SUBSET Nat /\ W # {}
  <2>1. \A j \in V : n - j \in Nat
    OBVIOUS
  <2> QED
    BY <2>1
<1>2. PICK m \in W : \A j \in W : m <= j
  <2> HIDE DEF W
  <2> QED
    BY <1>1, LeastShown
<1>3. PICK x \in V : m = n - x
  BY <1>2
<1>4. \A j \in V : x >= j
  BY <1>2, <1>3
<1> QED
  BY <1>3, <1>4 DEF Max

LEMMA MinShown ==
    ASSUME NEW V \in SUBSET Nat, V # {}
    PROVE  Min(V) \in V /\ \A j \in V : Min(V) <= j
<1>1. PICK m \in V : \A j \in V : m <= j
  BY LeastShown
<1> QED
  BY <1>1 DEF Min

LEMMA FirstShown ==
    ASSUME NEW S \in SUBSET Place, IsFiniteSet(S), S # {}
    PROVE  FirstTile(S) \in S /\ \A u \in S \ {FirstTile(S)} : TileBefore(FirstTile(S), u)
<1> DEFINE prior(t) == {u \in S : TileBefore(u, t)}
           V == {Cardinality(prior(t)) : t \in S}
<1>1. \A t \in S : IsFiniteSet(prior(t)) /\ Cardinality(prior(t)) \in Nat
  <2>1. \A t \in S : prior(t) \subseteq S
    OBVIOUS
  <2> QED
    BY <2>1, FS_Subset, FS_CardinalityType
<1>2. PICK m \in V : \A j \in V : m <= j
  <2>1. V \in SUBSET Nat /\ V # {}
    BY <1>1
  <2> HIDE DEF V
  <2> QED
    BY <2>1, LeastShown
<1>3. PICK t \in S : m = Cardinality(prior(t))
  BY <1>2
<1>4. ASSUME NEW u \in S \ {t}
      PROVE  TileBefore(t, u)
  <2>1. CASE TileBefore(u, t)
    <3>1. prior(u) \subseteq prior(t) /\ u \in prior(t) /\ u \notin prior(u)
      BY <2>1, Order
    <3> HIDE DEF prior
    <3>2. Cardinality(prior(u)) < Cardinality(prior(t))
      BY <3>1, <1>1, FS_Subset
    <3> QED
      BY <3>2, <1>1, <1>2, <1>3
  <2> QED
    BY <2>1, Order
<1> QED
  BY <1>3, <1>4 DEF FirstTile

-----------------------------------------------------------------------------
(* Zooms and tiles. *)

LEMMA Powers ==
    /\ 2^0 = 1
    /\ \A z \in Zooms : 2^(z + 1) = 2 * 2^z
    /\ \A z \in 0..(Deepest + 1) : 2^z \in Nat \ {0}
<1>1. \A z \in Zooms : 2^z \in Nat \ {0} /\ 2^(z + 1) = 2 * 2^z
  BY PowerAssumption
<1>2. 2^(Deepest + 1) \in Nat \ {0}
  BY <1>1, SizeAssumption DEF Zooms
<1>3. \A z \in 0..(Deepest + 1) : z \in Zooms \/ z = Deepest + 1
  BY SizeAssumption DEF Zooms
<1> QED
  BY <1>1, <1>2, <1>3, PowerAssumption

LEMMA TileTypes ==
    /\ \A z \in 0..(Deepest + 1) : \A t \in TilesAt(z) : t \in Place /\ t[1] = z
    /\ \A t \in Tiles : t[1] \in Zooms /\ t \in TilesAt(t[1])
    /\ Tiles \subseteq AnyTile /\ AnyTile \subseteq Place
    /\ \A t \in AnyTile : t[1] \in 0..(Deepest + 1)
    /\ Zooms \subseteq 0..(Deepest + 1)
    /\ \A z \in Zooms : TilesAt(z) \subseteq Tiles
<1>1. \A z \in 0..(Deepest + 1) : \A t \in TilesAt(z) : t \in Place /\ t[1] = z
  <2> TAKE z \in 0..(Deepest + 1)
  <2>1. 2^z - 1 \in Int
    BY Powers
  <2> QED
    BY <2>1, SizeAssumption DEF TilesAt, Place
<1>2. Zooms \subseteq 0..(Deepest + 1)
  BY SizeAssumption DEF Zooms
<1> QED
  BY <1>1, <1>2 DEF Tiles, AnyTile

LEMMA TilesFinite ==
    IsFiniteSet(AnyTile) /\ \A z \in 0..(Deepest + 1) : IsFiniteSet(TilesAt(z))
<1>1. ASSUME NEW z \in 0..(Deepest + 1)
      PROVE  IsFiniteSet(TilesAt(z))
  <2> DEFINE side == 0..(2^z - 1)
             cells == side \X side
  <2>1. 2^z - 1 \in Int
    BY Powers
  <2>2. IsFiniteSet(side)
    BY <2>1, FS_Interval
  <2>3. IsFiniteSet(cells)
    BY <2>2, FS_Product
  <2> DEFINE f == [c \in cells |-> <<z, c[1], c[2]>>]
  <2>4. f \in [cells -> TilesAt(z)]
    BY DEF TilesAt
  <2>5. \A t \in TilesAt(z) : \E c \in cells : f[c] = t
    <3> TAKE t \in TilesAt(z)
    <3>1. PICK x \in side, y \in side : t = <<z, x, y>>
      BY DEF TilesAt
    <3>2. <<x, y>> \in cells /\ f[<<x, y>>] = t
      BY <3>1
    <3> HIDE DEF f, cells
    <3> QED
      BY <3>2
  <2> HIDE DEF cells, f
  <2>6. f \in Surjection(cells, TilesAt(z))
    BY <2>4, <2>5 DEF Surjection
  <2> QED
    BY <2>3, <2>6, FS_Surjection
<1> DEFINE all == {TilesAt(z) : z \in 0..(Deepest + 1)}
<1>2. IsFiniteSet(0..(Deepest + 1))
  <2>1. Deepest + 1 \in Int
    BY SizeAssumption
  <2> QED
    BY <2>1, FS_Interval
<1>3. IsFiniteSet(all)
  <2> DEFINE f == [z \in 0..(Deepest + 1) |-> TilesAt(z)]
  <2>1. f \in Surjection(0..(Deepest + 1), all)
    BY DEF Surjection
  <2> QED
    BY <1>2, <2>1, FS_Surjection
<1>4. IsFiniteSet(UNION all)
  BY <1>1, <1>3, FS_UNION
<1> QED
  BY <1>1, <1>4 DEF AnyTile

\* Half of a whole part is the whole part of half.
LEMMA Halved ==
    ASSUME NEW x \in Nat, NEW m \in Nat \ {0}
    PROVE  /\ (x \div 2) \div m = x \div (2 * m)
           /\ (x \div m) \div 2 = x \div (2 * m)
           /\ x \div m \in Nat
<1>1. ASSUME NEW p \in Nat, NEW u \in 0..(2 * m - 1), x = (2 * m) * p + u
      PROVE  x \div (2 * m) = p
  <2> DEFINE b == 2 * m
  <2>1. b \in Nat \ {0} /\ u \in 0..(b - 1) /\ x = b * p + u
    BY <1>1
  <2> HIDE DEF b
  <2>2. x \div b = p
    BY <2>1
  <2> QED
    BY <2>2 DEF b
<1>2. (x \div m) \div 2 = x \div (2 * m) /\ x \div m \in Nat
  <2> DEFINE q == x \div m
             r == x % m
             p == q \div 2
             s == q % 2
  <2>1. q \in Nat /\ r \in 0..(m - 1) /\ x = m * q + r
    OBVIOUS
  <2>2. p \in Nat /\ s \in 0..1 /\ q = 2 * p + s
    BY <2>1
  <2> HIDE DEF q, r, p, s
  <2>3. m * s \in 0..m
    BY <2>2
  <2>4. m * q = (2 * m) * p + m * s
    BY <2>1, <2>2
  <2> DEFINE u == m * s + r
  <2>5. u \in 0..(2 * m - 1) /\ x = (2 * m) * p + u
    BY <2>1, <2>2, <2>3, <2>4
  <2> HIDE DEF u
  <2>6. x \div (2 * m) = p
    BY <1>1, <2>2, <2>5
  <2> QED
    BY <2>1, <2>6 DEF p, q
<1>3. (x \div 2) \div m = x \div (2 * m)
  <2> DEFINE q == x \div 2
             r == x % 2
             p == q \div m
             s == q % m
  <2>1. q \in Nat /\ r \in 0..1 /\ x = 2 * q + r
    OBVIOUS
  <2> HIDE DEF q, r
  <2>2. p \in Nat /\ s \in 0..(m - 1) /\ q = m * p + s
    BY <2>1
  <2> HIDE DEF p, s
  <2> DEFINE u == 2 * s + r
  <2>4. 2 * (m * p) = (2 * m) * p
    BY <2>2
  <2>5. u \in 0..(2 * m - 1) /\ x = (2 * m) * p + u
    BY <2>1, <2>2, <2>4
  <2> HIDE DEF u
  <2>6. x \div (2 * m) = p
    BY <1>1, <2>2, <2>5
  <2> QED
    BY <2>6 DEF p, q
<1> QED
  BY <1>2, <1>3

\* The parent of a tile has it as a child and has all that is in it.
LEMMA ParentShown ==
    ASSUME NEW t \in Tiles, t[1] > 0
    PROVE  /\ Parent(t) \in TilesAt(t[1] - 1) /\ Parent(t)[1] = t[1] - 1 /\ Parent(t) \in Tiles
           /\ t \in Children(Parent(t))
           /\ CellsIn(t) \subseteq CellsIn(Parent(t))
           /\ Ancestor(t, t[1] - 1) = Parent(t)
           /\ \A z \in Nat : z < t[1] - 1 => Ancestor(Parent(t), z) = Ancestor(t, z)
<1> DEFINE z == t[1]
           half == 2^(z - 1)
<1>1. z \in Zooms /\ z \in Nat /\ z - 1 \in Zooms /\ t \in TilesAt(z) /\ Deepest \in Nat
  BY TileTypes, SizeAssumption DEF Zooms
<1>2. 2^(z - 1 + 1) = 2 * half /\ half \in Nat \ {0}
  BY <1>1, Powers, TileTypes
<1>3. z - 1 + 1 = z
  BY <1>1
<1>4. 2^z = 2 * half
  BY <1>2, <1>3
<1>5. PICK x \in 0..(2^z - 1), y \in 0..(2^z - 1) : t = <<z, x, y>>
  BY <1>1 DEF TilesAt
<1>6. x \in Nat /\ y \in Nat /\ x < 2 * half /\ y < 2 * half /\ t[2] = x /\ t[3] = y
  BY <1>2, <1>4, <1>5
<1>7. Parent(t) = <<z - 1, x \div 2, y \div 2>>
  BY <1>6 DEF Parent
<1> HIDE DEF half
<1>8. Parent(t) \in TilesAt(z - 1) /\ Parent(t)[1] = z - 1
  BY <1>1, <1>2, <1>6, <1>7 DEF TilesAt, half
<1>9. t \in Children(Parent(t))
  <2>1. \A n \in Nat : n = 2 * (n \div 2) + (n % 2) /\ n % 2 \in {0, 1}
    OBVIOUS
  <2>2. z - 1 + 1 = z
    BY <1>1
  <2> DEFINE i == x % 2
             j == y % 2
  <2>3. i \in {0, 1} /\ j \in {0, 1} /\ x = 2 * (x \div 2) + i /\ y = 2 * (y \div 2) + j
    BY <2>1, <1>6
  <2>4. t = <<z - 1 + 1, 2 * (x \div 2) + i, 2 * (y \div 2) + j>>
    BY <2>2, <2>3, <1>5
  <2> HIDE DEF i, j
  <2> QED
    BY <1>7, <2>3, <2>4 DEF Children
<1>10. CellsIn(t) \subseteq CellsIn(Parent(t))
  <2> DEFINE m == 2^(Deepest - z)
  <2>1. Deepest - z \in Zooms /\ Deepest - z + 1 = Deepest - (z - 1)
    BY <1>1 DEF Zooms
  <2>2. 2^(Deepest - z + 1) = 2 * m /\ m \in Nat \ {0}
    BY <2>1, Powers, TileTypes
  <2>3. 2^(Deepest - (z - 1)) = 2 * m
    BY <2>1, <2>2
  <2> SUFFICES ASSUME NEW c \in CellsIn(t)
               PROVE  c \in CellsIn(Parent(t))
    OBVIOUS
  <2>4. c \in TilesAt(Deepest) /\ c[2] \div m = x /\ c[3] \div m = y
    BY <1>6 DEF CellsIn
  <2>5. c \in Place
    BY <2>4, TileTypes, <1>1 DEF Zooms
  <2>6. c[2] \in Nat /\ c[3] \in Nat
    BY <2>5 DEF Place
  <2> HIDE DEF m
  <2>7. c[2] \div (2 * m) = x \div 2 /\ c[3] \div (2 * m) = y \div 2
    BY <2>2, <2>4, <2>6, Halved
  <2> QED
    BY <2>3, <2>4, <2>7, <1>7 DEF CellsIn
<1>11. Ancestor(t, t[1] - 1) = Parent(t)
  <2>1. z - (z - 1) = 1 /\ 0 \in Zooms /\ 0 + 1 = 1
    BY <1>1 DEF Zooms
  <2>2. 2^(0 + 1) = 2
    BY <2>1, Powers
  <2>3. 2^(z - (z - 1)) = 2
    BY <2>1, <2>2
  <2> QED
    BY <2>3, <1>6, <1>7 DEF Ancestor
<1>12. ASSUME NEW w \in Nat, w < z - 1
       PROVE  Ancestor(Parent(t), w) = Ancestor(t, w)
  <2> DEFINE m == 2^(z - 1 - w)
  <2>1. z - 1 - w \in Zooms /\ z - 1 - w + 1 = z - w
    BY <1>1, <1>12 DEF Zooms
  <2>2. 2^(z - 1 - w + 1) = 2 * m /\ m \in Nat \ {0}
    BY <2>1, Powers, TileTypes
  <2>3. 2^(z - w) = 2 * m
    BY <2>1, <2>2
  <2>4. Ancestor(Parent(t), w) = <<w, (x \div 2) \div m, (y \div 2) \div m>>
    BY <1>7 DEF Ancestor
  <2>5. Ancestor(t, w) = <<w, x \div (2 * m), y \div (2 * m)>>
    BY <2>3, <1>6 DEF Ancestor
  <2> HIDE DEF m
  <2> QED
    BY <2>2, <2>4, <2>5, <1>6, Halved
<1> QED
  BY <1>1, <1>8, <1>9, <1>10, <1>11, <1>12, TileTypes

LEMMA ChildrenShown ==
    ASSUME NEW t \in Tiles
    PROVE  /\ Children(t) \subseteq TilesAt(t[1] + 1)
           /\ Children(t) # {}
           /\ \A c \in Children(t) : Parent(c) = t
<1> DEFINE z == t[1]
           n == 2^z
<1>1. z \in Zooms /\ z \in Nat /\ t \in TilesAt(z)
  BY TileTypes DEF Zooms
<1>2. 2^(z + 1) = 2 * n /\ n \in Nat \ {0}
  BY <1>1, Powers, TileTypes
<1>3. PICK x \in 0..(n - 1), y \in 0..(n - 1) : t = <<z, x, y>>
  BY <1>1 DEF TilesAt
<1> HIDE DEF n
<1>4. x \in Nat /\ y \in Nat /\ x < n /\ y < n /\ t[2] = x /\ t[3] = y
  BY <1>2, <1>3
<1>5. \A c \in Children(t) : \E i, j \in {0, 1} : c = <<z + 1, 2 * x + i, 2 * y + j>>
  BY <1>4 DEF Children
<1>6. Children(t) \subseteq TilesAt(z + 1)
  <2> SUFFICES ASSUME NEW c \in Children(t)
               PROVE  c \in TilesAt(z + 1)
    OBVIOUS
  <2>1. PICK i \in {0, 1}, j \in {0, 1} : c = <<z + 1, 2 * x + i, 2 * y + j>>
    BY <1>5
  <2>2. 2 * x + i \in 0..(2^(z + 1) - 1) /\ 2 * y + j \in 0..(2^(z + 1) - 1)
    BY <1>2, <1>4
  <2> QED
    BY <2>1, <2>2 DEF TilesAt
<1>7. <<z + 1, 2 * x + 0, 2 * y + 0>> \in Children(t)
  BY <1>4 DEF Children
<1>8. \A c \in Children(t) : Parent(c) = t
  <2> TAKE c \in Children(t)
  <2>1. PICK i \in {0, 1}, j \in {0, 1} : c = <<z + 1, 2 * x + i, 2 * y + j>>
    BY <1>5
  <2>2. (2 * x + i) \div 2 = x /\ (2 * y + j) \div 2 = y /\ z + 1 - 1 = z
    BY <1>1, <1>4
  <2>3. c[1] = z + 1 /\ c[2] = 2 * x + i /\ c[3] = 2 * y + j
    BY <2>1
  <2>4. Parent(c) = <<c[1] - 1, c[2] \div 2, c[3] \div 2>>
    BY DEF Parent
  <2>5. c[1] - 1 = z /\ c[2] \div 2 = x /\ c[3] \div 2 = y
    BY <1>1, <1>4, <2>2, <2>3
  <2> QED
    BY <2>4, <2>5, <1>3
<1> QED
  BY <1>6, <1>7, <1>8

-----------------------------------------------------------------------------
(* What a tileset has to offer. *)

LEMMA Offered ==
    ASSUME NEW q \in Requests, NEW s \in Sources
    PROVE  /\ Readable(q, s) \subseteq Tiles
           /\ LastZoom(q, s) \in -1..Deepest
           /\ \A t \in Readable(q, s) : t[1] <= LastZoom(q, s)
           /\ LastZoom(q, s) >= 0 => \E t \in Readable(q, s) : t[1] = LastZoom(q, s)
           /\ Readable(q, s) = {} => LastZoom(q, s) = -1
           /\ \A t : Offers(q, s, t) => t \in Tiles
<1> DEFINE V == {t[1] : t \in Readable(q, s)} \cup {-1}
<1>1. Readable(q, s) \subseteq Tiles
  BY CatalogueAssumption DEF Readable, Sources
<1>2. V \in SUBSET (-1..Deepest) /\ V # {} /\ Deepest \in Nat
  BY <1>1, TileTypes, SizeAssumption DEF Zooms
<1>3. Max(V) \in V /\ \A j \in V : j <= Max(V)
  <2> HIDE DEF V
  <2> QED
    BY <1>2, MaxShown
<1>4. LastZoom(q, s) = Max(V)
  BY DEF LastZoom
<1> QED
  <2>1. LastZoom(q, s) \in -1..Deepest
    BY <1>2, <1>3, <1>4
  <2>2. \A t \in Readable(q, s) : t[1] <= LastZoom(q, s)
    BY <1>3, <1>4
  <2>3. LastZoom(q, s) \in V
    BY <1>3, <1>4
  <2>4. \A t : Offers(q, s, t) => t \in Tiles
    BY <1>1 DEF Offers, Scales
  <2> QED
    BY <1>1, <2>1, <2>2, <2>3, <2>4

LEMMA Contents ==
    ASSUME NEW s \in Sources, NEW t
    PROVE  /\ Content(s, t) \in Data
           /\ Content(s, t) # <<>> =>
                /\ Content(s, t) = <<s, Catalogue[s].points \cap CellsIn(t)>>
                /\ Content(s, t)[1] = s
           /\ Content(s, t) = <<>> => Catalogue[s].points \cap CellsIn(t) = {}
           /\ Kept(s, t) \subseteq {<<s, c>> : c \in Catalogue[s].points \cap CellsIn(t)}
           /\ Content(s, t) = <<>> => Kept(s, t) = {}
           /\ Kept(s, t) \subseteq Feature
<1>1. Catalogue[s].points \subseteq TilesAt(Deepest) /\ Catalogue[s].kept \subseteq Catalogue[s].points
  BY CatalogueAssumption DEF Sources
<1>2. Catalogue[s].points \cap CellsIn(t) \in SUBSET TilesAt(Deepest)
  BY <1>1
<1>3. \A c : <<s, c>> # <<>> /\ <<s, c>>[1] = s
  OBVIOUS
<1> QED
  BY <1>1, <1>2, <1>3 DEF Content, Data, Kept, Feature

\* What is scaled up is scaled up from the zoom above, where there is something too.
LEMMA ScaledFromAbove ==
    ASSUME NEW q \in Requests, NEW s \in Sources, NEW t \in Tiles, Scales(q, s, t)
    PROVE  /\ t[1] > 0
           /\ t[1] = LastZoom(q, s) + 1 => Parent(t) \in Readable(q, s)
           /\ t[1] # LastZoom(q, s) + 1 => Scales(q, s, Parent(t))
           /\ Content(s, t) # <<>> => Content(s, Parent(t)) # <<>>
<1>1. t[1] \in Nat /\ LastZoom(q, s) \in Nat /\ t[1] > LastZoom(q, s)
  BY TileTypes, Offered DEF Scales, Zooms
<1>2. /\ Parent(t)[1] = t[1] - 1 /\ Parent(t) \in Tiles
      /\ CellsIn(t) \subseteq CellsIn(Parent(t))
      /\ Ancestor(t, t[1] - 1) = Parent(t)
      /\ \A z \in Nat : z < t[1] - 1 => Ancestor(Parent(t), z) = Ancestor(t, z)
  BY <1>1, ParentShown
<1>3. t[1] = LastZoom(q, s) + 1 => Parent(t) \in Readable(q, s)
  <2> SUFFICES ASSUME t[1] = LastZoom(q, s) + 1
               PROVE  Parent(t) \in Readable(q, s)
    OBVIOUS
  <2>1. t[1] - 1 = LastZoom(q, s)
    BY <1>1
  <2> QED
    BY <2>1, <1>2 DEF Scales
<1>4. t[1] # LastZoom(q, s) + 1 => Scales(q, s, Parent(t))
  <2> SUFFICES ASSUME t[1] # LastZoom(q, s) + 1
               PROVE  Scales(q, s, Parent(t))
    OBVIOUS
  <2>1. LastZoom(q, s) < t[1] - 1
    BY <1>1
  <2>2. Ancestor(Parent(t), LastZoom(q, s)) = Ancestor(t, LastZoom(q, s))
    BY <1>1, <1>2, <2>1
  <2> QED
    BY <1>1, <1>2, <2>1, <2>2 DEF Scales
<1>5. Content(s, t) # <<>> => Content(s, Parent(t)) # <<>>
  BY <1>2, Contents DEF Content
<1> QED
  BY <1>1, <1>3, <1>4, <1>5

\* If nothing is scaled up to a zoom, nothing is to a deeper one.
LEMMA NoneDeeper ==
    ASSUME NEW q \in Requests, NEW s \in Sources, NEW z \in Nat, z > LastZoom(q, s),
           \A t \in Tiles : Scales(q, s, t) /\ Content(s, t) # <<>> => t[1] # z
    PROVE  \A t \in Tiles : Scales(q, s, t) /\ Content(s, t) # <<>> => t[1] < z
<1> DEFINE Filled(t) == t \in Tiles /\ Scales(q, s, t) /\ Content(s, t) # <<>>
           V == {w \in Zooms : w > z /\ \E t \in Tiles : Filled(t) /\ t[1] = w}
<1> SUFFICES ASSUME V # {}
             PROVE  FALSE
  <2>1. \A t \in Tiles : t[1] \in Zooms /\ t[1] \in Nat
    BY TileTypes DEF Zooms
  <2> QED
    BY <2>1
<1>1. V \in SUBSET Nat
  BY DEF Zooms
<1>2. PICK w \in V : \A j \in V : w <= j
  <2> HIDE DEF V
  <2> QED
    BY <1>1, LeastShown
<1>3. PICK t \in Tiles : Filled(t) /\ t[1] = w
  BY <1>2
<1>4. w \in Nat /\ w > z /\ LastZoom(q, s) \in Int
  BY <1>1, <1>2, Offered
<1>5. w # LastZoom(q, s) + 1
  BY <1>4
<1>6. Filled(Parent(t)) /\ Parent(t)[1] = w - 1 /\ w - 1 \in Zooms
  BY <1>3, <1>4, <1>5, ScaledFromAbove, ParentShown, TileTypes
<1>7. w - 1 # z
  BY <1>6
<1>8. w - 1 \in V
  BY <1>4, <1>6, <1>7
<1> QED
  BY <1>2, <1>4, <1>8

-----------------------------------------------------------------------------
(* The steps of a reader. *)

LEMMA EndedTop ==
    ASSUME NEW q \in Requests, NEW r \in ReaderType, Ended(q, r)
    PROVE  /\ r.top = LastZoom(q, r.source)
           /\ r.attop = {t \in Readable(q, r.source) : t[1] = r.top}
           /\ Been(q, r) = Readable(q, r.source)
           /\ r.top \in -1..Deepest
           /\ r.top >= 0 => r.attop # {}
<1>1. r.source \in Sources /\ r.rest = {} /\ TopRead(q, r)
  BY DEF ReaderType, Ended
<1>2. Been(q, r) = Readable(q, r.source)
  BY <1>1 DEF Been
<1>3. /\ LastZoom(q, r.source) \in -1..Deepest
      /\ \A t \in Readable(q, r.source) : t[1] <= LastZoom(q, r.source)
      /\ LastZoom(q, r.source) >= 0 => \E t \in Readable(q, r.source) : t[1] = LastZoom(q, r.source)
      /\ Readable(q, r.source) = {} => LastZoom(q, r.source) = -1
      /\ Readable(q, r.source) \subseteq Tiles
  BY <1>1, Offered
<1>4. \A t \in Readable(q, r.source) : t[1] <= r.top /\ t[1] \in Nat
  BY <1>1, <1>2, <1>3, TileTypes DEF TopRead, Zooms
<1>5. r.attop = {t \in Readable(q, r.source) : t[1] = r.top}
  BY <1>1, <1>2 DEF TopRead
<1>6. CASE r.top = -1 /\ Been(q, r) = {}
  BY <1>2, <1>3, <1>5, <1>6
<1>7. CASE r.top \in Zooms /\ r.attop # {}
  <2>1. r.top \in Nat /\ r.top <= LastZoom(q, r.source)
    BY <1>3, <1>5, <1>7 DEF Zooms
  <2>2. LastZoom(q, r.source) <= r.top
    BY <1>3, <1>4, <2>1
  <2> QED
    BY <1>2, <1>3, <1>5, <1>7, <2>1, <2>2
<1> QED
  BY <1>1, <1>6, <1>7 DEF TopRead

LEMMA PulledShown ==
    ASSUME NEW z \in 0..(Deepest + 1), NEW S \in SUBSET TilesAt(z), S # {}
    PROVE  FirstPulled(S) \in S /\ \A u \in S \ {FirstPulled(S)} : TileBefore(FirstPulled(S), u)
<1>1. S \subseteq Place /\ IsFiniteSet(S) /\ \A t \in S : t[1] = z
  BY TileTypes, TilesFinite, FS_Subset
<1>2. \A t, u \in S : TileBefore(t, u) <=> PulledBefore(t, u)
  BY <1>1 DEF TileBefore, PulledBefore, Place
<1>3. \E t \in S : \A u \in S \ {t} : PulledBefore(t, u)
  BY <1>1, <1>2, FirstShown
<1>4. FirstPulled(S) \in S /\ \A u \in S \ {FirstPulled(S)} : PulledBefore(FirstPulled(S), u)
  BY <1>3 DEF FirstPulled
<1> QED
  BY <1>2, <1>4

\* About to go on to one of the tiles that are waiting.
Filled(q, s, t) == Scales(q, s, t) /\ Content(s, t) # <<>>
Choosing(q, r) ==
    /\ Ended(q, r) /\ Above(q, r)
    /\ \A t \in Tiles : Filled(q, r.source, t) =>
        /\ t[1] = r.tile[1] =>
            t \in r.waiting \/ (r.consumed /\ \A u \in r.waiting : TileBefore(t, u))
        /\ t[1] = r.tile[1] + 1 /\ Parent(t) \notin r.waiting => t \in r.nextover

\* At the zoom that comes next, of which nothing has been made up.
Zoomed(q, r) ==
    /\ Ended(q, r) /\ q.overzoom /\ ~r.consumed /\ r.nextover = {}
    /\ r.top < r.tile[1] /\ r.waiting \subseteq TilesAt(r.tile[1])
    /\ r.waiting # {} => r.top >= 0 /\ r.tile[1] <= Deepest + 1
    /\ \A t \in Tiles :
        Filled(q, r.source, t) /\ t[1] = r.tile[1] => t \in r.waiting

LEMMA ZoomedChooses ==
    ASSUME NEW q \in Requests, NEW r \in ReaderType, Zoomed(q, r), r.waiting # {}
    PROVE  Choosing(q, r)
<1>1. r.source \in Sources /\ Ended(q, r) /\ r.top = LastZoom(q, r.source)
  BY EndedTop DEF Zoomed, ReaderType
<1>2. Above(q, r)
  BY DEF Above, Zoomed
<1>3. ASSUME NEW t \in Tiles, Filled(q, r.source, t), t[1] = r.tile[1] + 1
      PROVE  Parent(t) \in r.waiting
  <2>1. r.tile[1] \in Nat /\ r.top \in Int /\ r.top < r.tile[1]
    BY DEF ReaderType, Place, Zoomed
  <2>2. Filled(q, r.source, Parent(t)) /\ t[1] > 0
    BY <1>1, <1>3, <2>1, ScaledFromAbove DEF Filled
  <2>3. Parent(t) \in Tiles /\ Parent(t)[1] = r.tile[1]
    BY <1>3, <2>1, <2>2, ParentShown
  <2> QED
    BY <2>2, <2>3 DEF Zoomed
<1> QED
  BY <1>1, <1>2, <1>3 DEF Choosing, Zoomed

LEMMA RetrieveShown ==
    ASSUME NEW q \in Requests, NEW r \in ReaderType, Choosing(q, r), r.waiting # {},
           NEW t, t = FirstPulled(r.waiting),
           NEW s, s = RetrieveOverzoom([r EXCEPT !.waiting = @ \ {t}], t)
    PROVE  /\ s \in ReaderType /\ Over(q, s)
           /\ s.source = r.source /\ s.tile \in r.waiting
           /\ \A u \in r.waiting : ~TileBefore(u, s.tile)
           /\ s.consumed = r.consumed
<1> DEFINE z == r.tile[1]
<1>1. /\ r.source \in Sources /\ Ended(q, r) /\ Above(q, r) /\ z \in 0..(Deepest + 1)
      /\ z \in Nat /\ r.waiting \subseteq TilesAt(z) /\ r.top \in Int /\ r.top < z /\ r.top >= 0
      /\ r.nextover \subseteq TilesAt(z + 1) /\ (z >= Deepest => r.nextover = {})
      /\ q.overzoom /\ Deepest \in Nat
  BY SizeAssumption DEF Choosing, ReaderType, Place, Above
<1>2. t \in r.waiting /\ \A u \in r.waiting \ {t} : TileBefore(t, u)
  BY <1>1, PulledShown
<1>3. t \in TilesAt(z) /\ t[1] = z /\ t \in Place /\ r.waiting \subseteq Place
  BY <1>1, <1>2, TileTypes
<1>4. /\ r.top = LastZoom(q, r.source) /\ r.attop = {u \in Readable(q, r.source) : u[1] = r.top}
  BY <1>1, EndedTop
<1> DEFINE content == IF Ancestor(t, r.top) \in r.attop /\ t[1] <= Deepest
                      THEN Content(r.source, t) ELSE <<>>
           more == {c \in Children(t) : content # <<>> /\ t[1] < Deepest /\ Content(r.source, c) # <<>>}
           left == r.waiting \ {t}
           next == r.nextover \cup more
<1>5. s = [r EXCEPT !.waiting = left, !.tile = t, !.data = content, !.over = TRUE,
                    !.nextover = next]
  BY DEF RetrieveOverzoom, ReaderType
<1>6. content \in Data /\ content = IF Scales(q, r.source, t) THEN Content(r.source, t) ELSE <<>>
  <2>1. t \in Tiles <=> t[1] <= Deepest
    BY <1>1, <1>3, TileTypes DEF Zooms
  <2>2. Ancestor(t, r.top)[1] = r.top
    BY DEF Ancestor
  <2>3. Scales(q, r.source, t) <=> Ancestor(t, r.top) \in r.attop /\ t[1] <= Deepest
    BY <1>1, <1>3, <1>4, <2>1, <2>2 DEF Scales
  <2> QED
    BY <1>1, <2>3, Contents DEF Data
<1>7. more \subseteq TilesAt(z + 1) /\ (z >= Deepest => more = {})
  <2> SUFFICES ASSUME z < Deepest
               PROVE  more \subseteq TilesAt(z + 1)
    BY <1>1, <1>3
  <2>1. t \in Tiles
    BY <1>1, <1>3, TileTypes DEF Zooms
  <2> QED
    BY <2>1, <1>3, ChildrenShown
<1>8. next \subseteq TilesAt(z + 1) /\ next \subseteq AnyTile /\ (z >= Deepest => next = {})
  <2>1. CASE z < Deepest
    BY <1>1, <1>7, <2>1 DEF AnyTile
  <2>2. CASE z >= Deepest
    BY <1>1, <1>7, <2>2
  <2> QED
    BY <1>1, <2>1, <2>2
<1> HIDE DEF content, left, next
<1>9. /\ s \in ReaderType
      /\ s.source = r.source /\ s.tile = t /\ s.data = content /\ s.over /\ s.done = r.done
      /\ s.rest = r.rest /\ s.top = r.top /\ s.attop = r.attop /\ s.waiting = left
      /\ s.nextover = next /\ s.consumed = r.consumed
  <2>1. left \in SUBSET AnyTile
    BY DEF left, ReaderType
  <2> QED
    BY <1>3, <1>5, <1>6, <1>8, <2>1 DEF ReaderType
<1>10. Ended(q, s) /\ Above(q, s)
  <2>1. Been(q, s) = Been(q, r)
    BY <1>9 DEF Been
  <2>2. TopRead(q, s)
    BY <1>1, <1>9, <2>1 DEF Ended, TopRead
  <2>3. left \subseteq TilesAt(z)
    BY <1>1 DEF left
  <2>4. Above(q, s)
    BY <1>1, <1>3, <1>8, <1>9, <2>3 DEF Above
  <2> QED
    BY <1>1, <1>9, <2>2, <2>4 DEF Ended
<1>11. \A u \in left : TileBefore(t, u)
  BY <1>2 DEF left
<1>12. ASSUME NEW u \in Tiles, Filled(q, r.source, u)
       PROVE  /\ u[1] = z /\ TileBefore(t, u) => u \in left
              /\ u[1] = z + 1 /\ ~TileBefore(t, Parent(u)) => u \in next
              /\ u[1] = z /\ TileBefore(u, t) => r.consumed
  <2>1. u \in Place
    BY TileTypes
  <2>2. /\ u[1] = z => u \in r.waiting \/ (r.consumed /\ \A v \in r.waiting : TileBefore(u, v))
        /\ u[1] = z + 1 /\ Parent(u) \notin r.waiting => u \in r.nextover
    BY <1>12 DEF Choosing
  <2>3. ASSUME u[1] = z, TileBefore(t, u)
        PROVE  u \in left
    BY <2>1, <2>2, <2>3, <1>2, <1>3, Order DEF left
  <2>4. ASSUME u[1] = z, TileBefore(u, t)
        PROVE  r.consumed
    BY <2>1, <2>2, <2>4, <1>2, <1>3, Order
  <2>5. ASSUME u[1] = z + 1, ~TileBefore(t, Parent(u))
        PROVE  u \in next
    <3>1. CASE Parent(u) \notin r.waiting
      BY <2>2, <2>5, <3>1 DEF next
    <3>2. CASE Parent(u) \in r.waiting
      <4>1. Parent(u) = t
        BY <1>2, <2>5, <3>2
      <4>2. z < Deepest /\ u[1] > 0
        BY <2>5, <1>1, TileTypes DEF Zooms
      <4>3. u \in Children(t)
        BY <4>1, <4>2, ParentShown
      <4>4. u[1] # LastZoom(q, r.source) + 1
        BY <1>1, <1>4, <2>5
      <4>5. Scales(q, r.source, t) /\ Content(r.source, t) # <<>>
        BY <1>1, <1>12, <4>1, <4>4, ScaledFromAbove DEF Filled
      <4>6. u \in more
        BY <1>3, <1>6, <1>12, <4>2, <4>3, <4>5 DEF Filled
      <4> QED
        BY <4>6 DEF next
    <3> QED
      BY <3>1, <3>2
  <2> QED
    BY <2>3, <2>4, <2>5
<1>13. MadeUp(q, s)
  <2> HIDE DEF more
  <2>1. s.data = IF Scales(q, s.source, s.tile) THEN Content(s.source, s.tile) ELSE <<>>
    BY <1>6, <1>9
  <2>2. \A u \in Tiles : Scales(q, s.source, u) /\ Content(s.source, u) # <<>> =>
            /\ u[1] = s.tile[1] /\ TileBefore(s.tile, u) => u \in s.waiting
            /\ u[1] = s.tile[1] + 1 /\ ~TileBefore(s.tile, Parent(u)) => u \in s.nextover
            /\ u[1] = s.tile[1] /\ TileBefore(u, s.tile) => s.consumed
    <3> TAKE u \in Tiles
    <3> HAVE Scales(q, s.source, u) /\ Content(s.source, u) # <<>>
    <3>1. Filled(q, r.source, u)
      BY <1>9 DEF Filled
    <3> QED
      BY <3>1, <1>3, <1>9, <1>12
  <2>3. s.tile \in TilesAt(s.tile[1]) /\ \A u \in s.waiting : TileBefore(s.tile, u)
    BY <1>3, <1>9, <1>11
  <2> QED
    BY <2>1, <2>2, <2>3 DEF MadeUp
<1>14. Over(q, s)
  BY <1>9, <1>10, <1>13 DEF Over
<1>15. \A u \in r.waiting : ~TileBefore(u, t)
  BY <1>2, <1>3, Order
<1> QED
  BY <1>2, <1>9, <1>14, <1>15

LEMMA NextOverzoomShown ==
    ASSUME NEW q \in Requests, NEW r \in ReaderType, NEW s, s = NextOverzoom(r),
           Ended(q, r), q.overzoom, r.waiting = {},
           \/ r.nextover = {} /\ r.tile[1] = IF r.top = -1 THEN 0 ELSE r.top
           \/ Over(q, r)
           \/ Zoomed(q, r)
    PROVE  /\ s \in ReaderType /\ Zoomed(q, s)
           /\ s.source = r.source /\ s.tile[1] = r.tile[1] + 1
<1> DEFINE z == r.tile[1]
           first == z + 1 = r.top + 1
           tiles == IF first THEN UNION {Children(t) : t \in r.attop} ELSE r.nextover
           next == IF first THEN r.nextover ELSE {}
           tile == AtZoom(r.tile, z + 1)
<1>1. /\ r.source \in Sources /\ r.tile \in Place /\ z \in Nat /\ Deepest \in Nat
      /\ r.top = LastZoom(q, r.source) /\ r.top \in -1..Deepest /\ r.top \in Int
      /\ r.attop = {t \in Readable(q, r.source) : t[1] = r.top}
      /\ Readable(q, r.source) \subseteq Tiles
  BY EndedTop, Offered, SizeAssumption DEF ReaderType, Place
<1>2. tile \in Place /\ tile[1] = z + 1
  BY <1>1 DEF AtZoom, Place
<1>3. next = {} /\ (r.top <= z \/ (r.top = -1 /\ z = 0))
  BY <1>1 DEF Over, Above, Zoomed
<1>4. next = {} /\ r.top < z + 1
  BY <1>1, <1>3
<1>5. tiles \subseteq TilesAt(z + 1) /\ (tiles # {} => r.top >= 0 /\ z + 1 <= Deepest + 1)
  <2>1. CASE first
    <3>1. \A t \in r.attop : Children(t) \subseteq TilesAt(z + 1) /\ t[1] \in Zooms
      BY <1>1, <2>1, ChildrenShown, TileTypes
    <3>2. r.top >= 0 /\ z + 1 <= Deepest + 1
      BY <1>1, <2>1
    <3> QED
      BY <2>1, <3>1, <3>2
  <2>2. CASE ~first
    <3>1. tiles = r.nextover
      BY <2>2
    <3>2. CASE Over(q, r)
      BY <1>1, <3>1, <3>2 DEF Over, Above
    <3>3. CASE r.nextover = {}
      BY <3>1, <3>3
    <3> QED
      BY <3>2, <3>3 DEF Zoomed
  <2> QED
    BY <2>1, <2>2
<1>6. ASSUME NEW t \in Tiles, Filled(q, r.source, t), t[1] = z + 1
      PROVE  t \in tiles
  <2>1. t[1] > 0 /\ Parent(t) \in Tiles /\ t \in Children(Parent(t)) /\ Parent(t)[1] = z
    BY <1>1, <1>6, ParentShown
  <2>2. CASE first
    <3>1. Parent(t) \in r.attop
      BY <1>1, <1>6, <2>1, <2>2, ScaledFromAbove DEF Filled
    <3> QED
      BY <2>1, <2>2, <3>1
  <2>3. CASE ~first
    <3>1. t[1] # LastZoom(q, r.source) + 1
      BY <1>1, <1>6, <2>3
    <3>2. Filled(q, r.source, Parent(t))
      BY <1>1, <1>6, <3>1, ScaledFromAbove DEF Filled
    <3>3. CASE Over(q, r)
      <4>1. /\ Parent(t)[1] = r.tile[1] /\ TileBefore(r.tile, Parent(t)) => Parent(t) \in r.waiting
            /\ t[1] = r.tile[1] + 1 /\ ~TileBefore(r.tile, Parent(t)) => t \in r.nextover
        BY <2>1, <3>2, <3>3, <1>6 DEF Over, MadeUp, Filled
      <4> QED
        BY <4>1, <2>1, <2>3, <1>6
    <3>4. CASE Zoomed(q, r)
      BY <2>1, <3>2, <3>4 DEF Zoomed
    <3>5. CASE r.nextover = {} /\ r.tile[1] = IF r.top = -1 THEN 0 ELSE r.top
      <4>1. r.top = -1 /\ LastZoom(q, r.source) = -1
        BY <1>1, <2>3, <3>5
      <4> QED
        BY <4>1, <1>6 DEF Filled, Scales
    <3> QED
      BY <3>3, <3>4, <3>5
  <2> QED
    BY <2>2, <2>3
<1>7. tiles \in SUBSET AnyTile
  BY <1>1, <1>5 DEF AnyTile
<1>8. s = [r EXCEPT !.tile = tile, !.waiting = tiles, !.nextover = next, !.consumed = FALSE]
  BY DEF NextOverzoom, ReaderType
<1> HIDE DEF tile, tiles, next
<1>9. /\ s \in ReaderType
      /\ s.source = r.source /\ s.tile = tile /\ s.done = r.done
      /\ s.rest = r.rest /\ s.top = r.top /\ s.attop = r.attop /\ s.waiting = tiles
      /\ s.nextover = next /\ ~s.consumed
  BY <1>2, <1>4, <1>7, <1>8 DEF ReaderType
<1>10. Ended(q, s)
  <2>1. Been(q, s) = Been(q, r)
    BY <1>9 DEF Been
  <2> QED
    BY <1>9, <2>1 DEF Ended, TopRead
<1>11. \A t \in Tiles :
            Filled(q, s.source, t) /\ t[1] = s.tile[1] => t \in s.waiting
  BY <1>2, <1>6, <1>9
<1>12. /\ s.nextover = {} /\ s.top < s.tile[1] /\ s.waiting \subseteq TilesAt(s.tile[1])
       /\ s.waiting # {} => s.top >= 0 /\ s.tile[1] <= Deepest + 1
  BY <1>2, <1>4, <1>5, <1>9
<1> QED
  BY <1>2, <1>9, <1>10, <1>11, <1>12 DEF Zoomed

\* A reader that has nothing left to make up is out.
LEMMA OutShown ==
    ASSUME NEW q \in Requests, NEW r \in ReaderType, Zoomed(q, r), r.waiting = {},
           NEW s, s = [r EXCEPT !.over = FALSE, !.tile = AtZoom(@, NoTile)]
    PROVE  /\ s \in ReaderType /\ Out(q, s) /\ s.source = r.source
           /\ \A t \in Tiles : Filled(q, r.source, t) => t[1] < r.tile[1]
<1>1. /\ r.source \in Sources /\ r.tile \in Place /\ r.tile[1] \in Nat
      /\ Ended(q, r) /\ r.top = LastZoom(q, r.source) /\ r.top < r.tile[1]
  BY EndedTop DEF Zoomed, ReaderType, Place
<1> DEFINE tile == AtZoom(r.tile, NoTile)
<1>2. tile \in Place /\ tile[1] = NoTile
  BY <1>1 DEF AtZoom, Place, NoTile
<1>3. s = [r EXCEPT !.over = FALSE, !.tile = tile]
  BY DEF ReaderType
<1> HIDE DEF tile
<1>4. /\ s \in ReaderType
      /\ s.source = r.source /\ s.tile = tile /\ s.done = r.done /\ ~s.over
      /\ s.rest = r.rest /\ s.top = r.top /\ s.attop = r.attop /\ s.waiting = r.waiting
      /\ s.nextover = r.nextover /\ s.consumed = r.consumed
  BY <1>2, <1>3 DEF ReaderType
<1>5. Ended(q, s)
  <2>1. Been(q, s) = Been(q, r)
    BY <1>4 DEF Been
  <2> QED
    BY <1>1, <1>4, <2>1 DEF Ended, TopRead
<1>6. Out(q, s)
  BY <1>2, <1>4, <1>5 DEF Out, Zoomed
<1>7. \A t \in Tiles : Scales(q, r.source, t) /\ Content(r.source, t) # <<>> => t[1] # r.tile[1]
  BY DEF Zoomed, Filled
<1>8. \A t \in Tiles : Scales(q, r.source, t) /\ Content(r.source, t) # <<>> => t[1] < r.tile[1]
  BY <1>1, <1>7, NoneDeeper
<1> QED
  BY <1>4, <1>6, <1>8 DEF Filled

\* From a zoom of which nothing has been made up yet.
LEMMA ZoomedGoesOn ==
    ASSUME NEW q \in Requests, NEW r \in ReaderType, Zoomed(q, r), NEW s, s = Overzoomed(r)
    PROVE  /\ s \in ReaderType /\ (Over(q, s) \/ Out(q, s)) /\ s.source = r.source
           /\ s.tile[1] >= r.tile[1] \/ s.tile[1] = NoTile
           /\ \A t \in Tiles : Filled(q, r.source, t) /\ TileBefore(t, s.tile) => t[1] < r.tile[1]
<1>1. r.source \in Sources /\ r.tile \in Place /\ r.tile[1] \in Nat /\ Ended(q, r) /\ q.overzoom
  BY DEF Zoomed, ReaderType, Place
<1>2. CASE r.waiting # {}
  <2> DEFINE u == FirstPulled(r.waiting)
  <2>1. s = RetrieveOverzoom([r EXCEPT !.waiting = @ \ {u}], u)
    BY <1>2 DEF Overzoomed
  <2> HIDE DEF u
  <2>2. Choosing(q, r)
    BY <1>2, ZoomedChooses
  <2>3. /\ s \in ReaderType /\ Over(q, s) /\ s.source = r.source /\ s.tile \in r.waiting
        /\ \A v \in r.waiting : ~TileBefore(v, s.tile)
    BY <1>2, <2>1, <2>2, RetrieveShown DEF u
  <2>4. r.tile[1] \in 0..(Deepest + 1) /\ r.waiting \subseteq TilesAt(r.tile[1])
    BY <1>1, <1>2, SizeAssumption DEF Zoomed
  <2>5. s.tile[1] = r.tile[1] /\ s.tile \in Place
    BY <2>3, <2>4, TileTypes
  <2>6. ASSUME NEW t \in Tiles, Filled(q, r.source, t), TileBefore(t, s.tile)
        PROVE  t[1] < r.tile[1]
    <3>1. t \in Place /\ t[1] \in Nat /\ t[1] <= s.tile[1]
      BY <2>5, <2>6, TileTypes, Order DEF Zooms
    <3>2. t[1] # r.tile[1]
      BY <2>3, <2>6 DEF Zoomed
    <3> QED
      BY <1>1, <2>5, <3>1, <3>2
  <2> QED
    BY <1>1, <2>3, <2>5, <2>6
<1>3. CASE r.waiting = {}
  <2> DEFINE n == NextOverzoom(r)
  <2>1. n \in ReaderType /\ Zoomed(q, n) /\ n.source = r.source
    BY <1>1, <1>3, NextOverzoomShown
  <2>2. n.waiting = {}
    BY <1>1, <1>3, EndedTop DEF NextOverzoom, Zoomed, ReaderType
  <2>3. s = [n EXCEPT !.over = FALSE, !.tile = AtZoom(@, NoTile)]
    BY <1>3, <2>2 DEF Overzoomed
  <2> HIDE DEF n
  <2>4. s \in ReaderType /\ Out(q, s) /\ s.source = r.source
    BY <2>1, <2>2, <2>3, OutShown
  <2>5. \A t \in Tiles : Filled(q, r.source, t) => t[1] < r.tile[1]
    BY <1>3, OutShown
  <2> QED
    BY <2>4, <2>5 DEF Out
<1> QED
  BY <1>2, <1>3

\* From a tile that was made up.
LEMMA OverGoesOn ==
    ASSUME NEW q \in Requests, NEW r \in ReaderType, Over(q, r), r.consumed,
           NEW s, s = Overzoomed(r)
    PROVE  /\ s \in ReaderType /\ (Over(q, s) \/ Out(q, s)) /\ s.source = r.source
           /\ TileBefore(r.tile, s.tile)
           /\ \A t \in Tiles : Bears(q, r.source, t) /\ TileBefore(t, s.tile) =>
                t = r.tile \/ TileBefore(t, r.tile)
<1>1. /\ r.source \in Sources /\ r.tile \in Place /\ r.tile[1] \in Nat /\ Ended(q, r) /\ q.overzoom
      /\ r.tile[1] \in 0..(Deepest + 1) /\ r.top = LastZoom(q, r.source) /\ r.top < r.tile[1]
      /\ r.waiting \subseteq TilesAt(r.tile[1]) /\ Above(q, r) /\ MadeUp(q, r)
  BY EndedTop, SizeAssumption DEF Over, Above, ReaderType, Place
<1>2. ASSUME NEW t \in Tiles, Bears(q, r.source, t), t[1] < r.tile[1]
      PROVE  TileBefore(t, r.tile)
  BY <1>1, <1>2, TileTypes, Order
<1>3. ASSUME NEW t \in Tiles, Bears(q, r.source, t), t[1] >= r.tile[1]
      PROVE  Filled(q, r.source, t)
  <2>1. t \notin Readable(q, r.source)
    <3>1. t \in Readable(q, r.source) => t[1] <= r.top
      BY <1>1, Offered
    <3>2. t[1] \in Nat /\ r.top \in Int
      BY TileTypes DEF Zooms, ReaderType
    <3> QED
      BY <1>1, <1>3, <3>1, <3>2
  <2> QED
    BY <1>3, <2>1 DEF Filled, Bears, Offers
<1>4. CASE r.waiting # {}
  <2> DEFINE u == FirstPulled(r.waiting)
  <2>1. s = RetrieveOverzoom([r EXCEPT !.waiting = @ \ {u}], u)
    BY <1>4 DEF Overzoomed
  <2> HIDE DEF u
  <2>2. Choosing(q, r)
    <3>1. ASSUME NEW t \in Tiles, Filled(q, r.source, t), t[1] = r.tile[1], t \notin r.waiting
          PROVE  \A v \in r.waiting : TileBefore(t, v)
      <4> TAKE v \in r.waiting
      <4>1. ~TileBefore(r.tile, t) /\ TileBefore(r.tile, v)
        BY <1>1, <3>1 DEF MadeUp, Filled
      <4>2. v \in Place /\ t \in Place
        BY <1>1, TileTypes
      <4> QED
        BY <4>1, <4>2, <1>1, Order
    <3>2. ASSUME NEW t \in Tiles, Filled(q, r.source, t), t[1] = r.tile[1] + 1,
                 Parent(t) \notin r.waiting
          PROVE  t \in r.nextover
      <4>1. t[1] # LastZoom(q, r.source) + 1 /\ t[1] > 0
        BY <1>1, <3>2, Offered
      <4>2. Filled(q, r.source, Parent(t)) /\ Parent(t) \in Tiles /\ Parent(t)[1] = r.tile[1]
        BY <1>1, <3>2, <4>1, ScaledFromAbove, ParentShown DEF Filled
      <4>3. ~TileBefore(r.tile, Parent(t))
        BY <1>1, <3>2, <4>2 DEF MadeUp, Filled
      <4> QED
        BY <1>1, <3>2, <4>3 DEF MadeUp, Filled
    <3> QED
      BY <1>1, <3>1, <3>2 DEF Choosing
  <2>3. /\ s \in ReaderType /\ Over(q, s) /\ s.source = r.source /\ s.tile \in r.waiting
        /\ \A v \in r.waiting : ~TileBefore(v, s.tile)
    BY <1>4, <2>1, <2>2, RetrieveShown DEF u
  <2>4. s.tile[1] = r.tile[1] /\ s.tile \in Place /\ TileBefore(r.tile, s.tile)
    BY <1>1, <2>3, TileTypes DEF MadeUp
  <2>5. ASSUME NEW t \in Tiles, Bears(q, r.source, t), TileBefore(t, s.tile)
        PROVE  t = r.tile \/ TileBefore(t, r.tile)
    <3>1. t \in Place /\ t[1] \in Nat /\ t[1] <= s.tile[1]
      BY <2>4, <2>5, TileTypes, Order DEF Zooms
    <3>2. CASE t[1] < r.tile[1]
      BY <1>2, <2>5, <3>2
    <3>3. CASE t[1] = r.tile[1]
      <4>1. t \notin r.waiting /\ Filled(q, r.source, t)
        BY <1>1, <1>3, <2>3, <2>5, <3>3
      <4>2. ~TileBefore(r.tile, t)
        BY <1>1, <3>3, <4>1 DEF MadeUp, Filled
      <4> QED
        BY <4>2, <3>1, <1>1, Order
    <3> QED
      BY <1>1, <2>4, <3>1, <3>2, <3>3
  <2> QED
    BY <2>3, <2>4, <2>5
<1>5. CASE r.waiting = {}
  <2> DEFINE n == NextOverzoom(r)
  <2>1. n \in ReaderType /\ Zoomed(q, n) /\ n.source = r.source /\ n.tile[1] = r.tile[1] + 1
    BY <1>1, <1>5, NextOverzoomShown
  <2>2. ASSUME NEW t \in Tiles, Bears(q, r.source, t), t[1] < n.tile[1]
        PROVE  t = r.tile \/ TileBefore(t, r.tile)
    <3>1. t \in Place /\ t[1] \in Nat /\ t[1] <= r.tile[1]
      BY <1>1, <2>1, <2>2, TileTypes DEF Zooms
    <3>2. CASE t[1] < r.tile[1]
      BY <1>2, <2>2, <3>2
    <3>3. CASE t[1] = r.tile[1]
      <4>1. t \notin r.waiting /\ Filled(q, r.source, t)
        BY <1>1, <1>3, <1>5, <2>2, <3>3
      <4>2. ~TileBefore(r.tile, t)
        BY <1>1, <3>3, <4>1 DEF MadeUp, Filled
      <4> QED
        BY <4>2, <3>1, <1>1, Order
    <3> QED
      BY <1>1, <3>1, <3>2, <3>3
  <2>3. ASSUME NEW t \in Tiles, Bears(q, r.source, t), ~(t[1] < n.tile[1])
        PROVE  Filled(q, r.source, t)
    <3>1. t[1] \in Nat
      BY TileTypes DEF Zooms
    <3> QED
      BY <1>1, <1>3, <2>1, <2>3, <3>1
  <2>4. s = IF n.waiting = {} THEN [n EXCEPT !.over = FALSE, !.tile = AtZoom(@, NoTile)]
            ELSE RetrieveOverzoom([n EXCEPT !.waiting = @ \ {FirstPulled(n.waiting)}],
                                  FirstPulled(n.waiting))
    BY <1>5 DEF Overzoomed
  <2> HIDE DEF n
  <2>5. CASE n.waiting = {}
    <3>1. /\ s \in ReaderType /\ Out(q, s) /\ s.source = r.source
          /\ \A t \in Tiles : Filled(q, r.source, t) => t[1] < n.tile[1]
      BY <2>1, <2>4, <2>5, OutShown
    <3>2. s.tile[1] = NoTile /\ s.tile \in Place
      BY <3>1 DEF Out, ReaderType
    <3>3. TileBefore(r.tile, s.tile)
      BY <1>1, <3>2, Order, SizeAssumption DEF NoTile
    <3> QED
      BY <2>2, <2>3, <3>1, <3>3
  <2>6. CASE n.waiting # {}
    <3>1. Choosing(q, n)
      BY <2>1, <2>6, ZoomedChooses
    <3>2. /\ s \in ReaderType /\ Over(q, s) /\ s.source = r.source /\ s.tile \in n.waiting
          /\ \A v \in n.waiting : ~TileBefore(v, s.tile)
      BY <2>1, <2>4, <2>6, <3>1, RetrieveShown
    <3>3. n.tile[1] \in 0..(Deepest + 1) /\ n.waiting \subseteq TilesAt(n.tile[1])
      BY <1>1, <2>1, <2>6, SizeAssumption DEF Zoomed
    <3>4. s.tile[1] = n.tile[1] /\ s.tile \in Place
      BY <3>2, <3>3, TileTypes
    <3>5. TileBefore(r.tile, s.tile)
      BY <1>1, <2>1, <3>4, Order
    <3>6. ASSUME NEW t \in Tiles, Bears(q, r.source, t), TileBefore(t, s.tile)
          PROVE  t[1] < n.tile[1]
      <4>1. t \in Place /\ t[1] \in Nat /\ t[1] <= s.tile[1] /\ n.tile[1] \in Nat
        BY <3>3, <3>4, <3>6, TileTypes, Order DEF Zooms
      <4>2. CASE t[1] = n.tile[1]
        <5>1. Filled(q, n.source, t)
          BY <2>1, <2>3, <3>6, <4>1, <4>2
        <5>2. t \in n.waiting
          BY <2>1, <4>2, <5>1 DEF Zoomed
        <5> QED
          BY <3>2, <3>6, <5>2
      <4> QED
        BY <3>4, <4>1, <4>2
    <3> QED
      BY <2>2, <3>2, <3>5, <3>6
  <2> QED
    BY <2>5, <2>6
<1> QED
  BY <1>4, <1>5

\* From the end of the tileset.
LEMMA EndGoesOn ==
    ASSUME NEW q \in Requests, q = request, NEW r \in ReaderType, Early(q, r), r.rest = {},
           r.tile[1] = IF r.top = -1 THEN 0 ELSE r.top,
           NEW s, s = AtEnd(r)
    PROVE  /\ s \in ReaderType /\ (Over(q, s) \/ Out(q, s)) /\ s.source = r.source
           /\ s.tile[1] > r.tile[1]
           /\ \A t \in Tiles : Bears(q, r.source, t) /\ TileBefore(t, s.tile) => t \in Been(q, r)
<1> DEFINE e == [r EXCEPT !.done = TRUE, !.over = FALSE]
<1>1. /\ e \in ReaderType
      /\ e.source = r.source /\ e.tile = r.tile /\ e.done /\ ~e.over
      /\ e.rest = r.rest /\ e.top = r.top /\ e.attop = r.attop /\ e.waiting = r.waiting
      /\ e.nextover = r.nextover /\ e.consumed = r.consumed
  BY DEF ReaderType
<1>2. s = IF request.overzoom THEN Overzoomed(NextOverzoom(e))
          ELSE [e EXCEPT !.tile = AtZoom(@, NoTile)]
  BY DEF AtEnd
<1> HIDE DEF e
<1>3. Been(q, e) = Been(q, r)
  BY <1>1 DEF Been
<1>4. Ended(q, e) /\ e.waiting = {} /\ e.nextover = {} /\ ~e.consumed
  BY <1>1, <1>3 DEF Ended, TopRead, Early
<1>5. /\ r.source \in Sources /\ Been(q, r) = Readable(q, r.source)
      /\ r.top = LastZoom(q, r.source) /\ r.top \in -1..Deepest /\ r.tile \in Place
      /\ r.tile[1] \in 0..Deepest /\ Deepest \in Nat
  BY <1>1, <1>3, <1>4, EndedTop, SizeAssumption DEF ReaderType
<1>6. CASE q.overzoom
  <2> DEFINE n == NextOverzoom(e)
  <2>1. n \in ReaderType /\ Zoomed(q, n) /\ n.source = r.source /\ n.tile[1] = r.tile[1] + 1
    BY <1>1, <1>4, <1>6, NextOverzoomShown
  <2>2. s = Overzoomed(n)
    BY <1>2, <1>6
  <2> HIDE DEF n
  <2>3. /\ s \in ReaderType /\ (Over(q, s) \/ Out(q, s)) /\ s.source = n.source
        /\ s.tile[1] >= n.tile[1] \/ s.tile[1] = NoTile
        /\ \A t \in Tiles : Filled(q, n.source, t) /\ TileBefore(t, s.tile) => t[1] < n.tile[1]
    BY <2>1, <2>2, ZoomedGoesOn
  <2>4. s.tile[1] > r.tile[1]
    <3>1. s.tile[1] \in Nat
      BY <2>3 DEF ReaderType, Place
    <3> QED
      BY <1>5, <2>1, <2>3, <3>1, SizeAssumption DEF NoTile
  <2>5. ASSUME NEW t \in Tiles, Bears(q, r.source, t), TileBefore(t, s.tile)
        PROVE  t \in Been(q, r)
    <3>1. SUFFICES ASSUME t \notin Readable(q, r.source)
                   PROVE  FALSE
      BY <1>5
    <3>2. Filled(q, r.source, t) /\ t[1] > r.top /\ r.top >= 0
      BY <1>5, <2>5, <3>1 DEF Bears, Offers, Filled, Scales
    <3>3. t[1] < n.tile[1] /\ t[1] \in Nat
      BY <2>1, <2>3, <2>5, <3>2, TileTypes DEF Zooms
    <3> QED
      BY <1>5, <2>1, <3>2, <3>3
  <2> QED
    BY <2>1, <2>3, <2>4, <2>5
<1>7. CASE ~q.overzoom
  <2> DEFINE tile == AtZoom(e.tile, NoTile)
  <2>1. tile \in Place /\ tile[1] = NoTile
    BY <1>1, <1>5 DEF AtZoom, Place, NoTile
  <2>2. s = [e EXCEPT !.tile = tile]
    BY <1>2, <1>7, <1>1 DEF ReaderType
  <2> HIDE DEF tile
  <2>3. /\ s \in ReaderType
        /\ s.source = e.source /\ s.tile = tile /\ s.done /\ ~s.over
        /\ s.rest = e.rest /\ s.top = e.top /\ s.attop = e.attop /\ s.waiting = e.waiting
        /\ s.nextover = e.nextover /\ s.consumed = e.consumed
    BY <1>1, <2>1, <2>2 DEF ReaderType
  <2>4. Been(q, s) = Been(q, e)
    BY <2>3 DEF Been
  <2>5. Out(q, s)
    BY <1>4, <2>1, <2>3, <2>4 DEF Out, Ended, TopRead
  <2>6. s.tile[1] > r.tile[1]
    BY <1>5, <2>1, <2>3, SizeAssumption DEF NoTile
  <2>7. \A t \in Tiles : Bears(q, r.source, t) => t \in Been(q, r)
    BY <1>5, <1>7 DEF Bears, Offers, Scales
  <2> QED
    BY <1>1, <2>3, <2>5, <2>6, <2>7
<1> QED
  BY <1>6, <1>7

\* To the next tile of the tileset.
LEMMA NextTileShown ==
    ASSUME NEW q \in Requests, NEW r \in ReaderType, Early(q, r), r.rest # {},
           NEW s, s = NextTile(r)
    PROVE  /\ s \in ReaderType /\ Reading(q, s) /\ s.source = r.source
           /\ \A t \in Been(q, r) : TileBefore(t, s.tile)
           /\ \A t \in Tiles : Bears(q, r.source, t) /\ TileBefore(t, s.tile) => t \in Been(q, r)
<1> DEFINE t == FirstTile(r.rest)
           been == Been(q, r)
           top == IF t[1] > r.top THEN t[1] ELSE r.top
           attop == IF t[1] > r.top THEN {t} ELSE r.attop \cup {t}
           content == Content(r.source, t)
           left == r.rest \ {t}
<1>1. /\ r.source \in Sources /\ r.rest \subseteq Readable(q, r.source)
      /\ Readable(q, r.source) \subseteq Tiles /\ r.top \in Int /\ Tiles \subseteq Place
      /\ been = Readable(q, r.source) \ r.rest /\ TopRead(q, r) /\ r.attop \subseteq Tiles
      /\ \A u \in Tiles : u[1] \in Zooms /\ u[1] \in Nat
  BY Offered, TileTypes DEF Early, ReaderType, Been, Zooms
<1>2. t \in r.rest /\ \A u \in r.rest \ {t} : TileBefore(t, u)
  <2>1. IsFiniteSet(r.rest) /\ r.rest \subseteq Place
    BY <1>1, TileTypes, TilesFinite, FS_Subset
  <2> QED
    BY <2>1, FirstShown
<1>3. t \in Tiles /\ t \in Place /\ t[1] \in Zooms /\ t[1] \in Nat
  BY <1>1, <1>2
<1> HIDE DEF t
<1>4. \A u \in been : TileBefore(u, t) /\ u \in Tiles /\ u \in Place
  BY <1>1, <1>2 DEF Early, Been
<1> DEFINE seen == been \cup {t}
<1>5. Readable(q, r.source) \ left = seen
  BY <1>1, <1>2
<1>6. top = t[1] /\ attop = {u \in seen : u[1] = top} /\ \A u \in seen : u[1] <= top
  <2>1. \A u \in been : u[1] <= t[1] /\ u[1] <= r.top
    BY <1>1, <1>3, <1>4, Order DEF TopRead
  <2>2. r.attop = {u \in been : u[1] = r.top}
    BY <1>1 DEF TopRead
  <2>3. CASE t[1] > r.top
    <3>1. top = t[1] /\ attop = {t}
      BY <2>3
    <3>2. \A u \in been : u[1] # t[1] /\ u[1] <= t[1]
      BY <1>1, <1>3, <1>4, <2>1, <2>3
    <3> QED
      BY <3>1, <3>2, <1>3
  <2>4. CASE ~(t[1] > r.top)
    <3>1. top = r.top /\ attop = r.attop \cup {t}
      BY <2>4
    <3>2. r.top = t[1]
      <4>1. r.top \in Zooms /\ r.attop # {}
        BY <1>1, <1>3, <2>4 DEF TopRead
      <4>2. PICK u \in been : u[1] = r.top
        BY <2>2, <4>1
      <4>3. r.top <= t[1]
        BY <2>1, <4>2
      <4> QED
        BY <1>1, <1>3, <2>4, <4>3
    <3>3. attop = {u \in seen : u[1] = t[1]}
      BY <2>2, <3>1, <3>2
    <3> QED
      BY <2>1, <3>1, <3>2, <3>3, <1>3
  <2> QED
    BY <2>3, <2>4
<1>7. s = [r EXCEPT !.over = FALSE, !.tile = t, !.rest = left, !.data = content,
                    !.top = top, !.attop = attop]
  BY DEF NextTile, ReaderType, t
<1>8. top \in Int /\ top \in Zooms /\ attop \subseteq Tiles /\ content \in Data
      /\ left \subseteq Tiles
  BY <1>1, <1>3, <1>6, Contents
<1> HIDE DEF top, attop, content, left
<1>9. /\ s \in ReaderType
      /\ s.source = r.source /\ s.tile = t /\ s.done = r.done /\ ~s.over
      /\ s.rest = left /\ s.top = top /\ s.attop = attop /\ s.waiting = r.waiting
      /\ s.nextover = r.nextover /\ s.consumed = r.consumed /\ s.data = content
  <2>1. t \in Place /\ top \in Int /\ attop \in SUBSET Tiles /\ left \in SUBSET Tiles
    BY <1>3, <1>8
  <2> QED
    BY <1>7, <1>8, <2>1 DEF ReaderType
<1>10. Been(q, s) = seen
  BY <1>5, <1>9 DEF Been
<1>11. TopRead(q, s)
  <2>1. t \in attop
    BY <1>6
  <2> QED
    BY <1>6, <1>8, <1>9, <1>10, <2>1 DEF TopRead
<1>12. \A u \in seen, v \in left : TileBefore(u, v)
  BY <1>2, <1>1 DEF Early, Been, left
<1>13. Early(q, s)
  <2>1. s.rest \subseteq Readable(q, s.source)
    BY <1>1, <1>9 DEF left
  <2> QED
    BY <1>9, <1>10, <1>11, <1>12, <2>1 DEF Early
<1>14. AtTile(q, s)
  BY <1>4, <1>6, <1>9, <1>10 DEF AtTile, content
<1>15. ASSUME NEW u \in Tiles, Bears(q, r.source, u), TileBefore(u, t)
       PROVE  u \in been
  <2>1. u[1] <= t[1] /\ u \in Place /\ ~TileBefore(t, u) /\ u # t
    BY <1>3, <1>15, TileTypes, Order
  <2>2. t[1] <= LastZoom(q, r.source) /\ LastZoom(q, r.source) \in Int
    BY <1>1, <1>2, Offered
  <2>3. u \in Readable(q, r.source)
    BY <1>1, <1>3, <1>15, <2>1, <2>2 DEF Bears, Offers, Scales
  <2> QED
    BY <1>1, <1>2, <2>1, <2>3
<1> QED
  BY <1>4, <1>9, <1>13, <1>14, <1>15 DEF Reading

\* A reader that is not out goes forward, and passes nothing but the tile it is at.
LEMMA AdvanceShown ==
    ASSUME NEW q \in Requests, q = request, NEW p \in ReaderType, ReaderOK(q, p), ~Out(q, p),
           NEW r, r = [p EXCEPT !.consumed = @ \/ p.over], NEW s, s = Advance(r)
    PROVE  /\ s \in ReaderType /\ ReaderOK(q, s) /\ s.source = p.source
           /\ TileBefore(p.tile, s.tile)
           /\ \A t \in Tiles : Bears(q, p.source, t) /\ TileBefore(t, s.tile) =>
                t = p.tile \/ TileBefore(t, p.tile)
<1> DEFINE used == p.consumed \/ p.over
<1>1. used \in BOOLEAN /\ r = [p EXCEPT !.consumed = used]
  BY DEF ReaderType
<1> HIDE DEF used
<1>2. /\ r \in ReaderType
      /\ r.source = p.source /\ r.tile = p.tile /\ r.done = p.done /\ r.over = p.over
      /\ r.rest = p.rest /\ r.top = p.top /\ r.attop = p.attop /\ r.waiting = p.waiting
      /\ r.nextover = p.nextover /\ r.consumed = used /\ r.data = p.data
  BY <1>1 DEF ReaderType
<1>3. Been(q, r) = Been(q, p) /\ p.tile \in Place
  BY <1>2 DEF Been, ReaderType
<1>4. CASE Reading(q, p)
  <2>1. Early(q, r) /\ AtTile(q, r)
    BY <1>2, <1>3, <1>4 DEF Early, AtTile, Reading, TopRead, used
  <2>2. r.source \in Sources /\ Been(q, r) \subseteq Place /\ r.tile \in Been(q, r)
        /\ \A t \in Been(q, r) : t = r.tile \/ TileBefore(t, r.tile)
    BY <1>2, <2>1, Offered, TileTypes DEF Been, AtTile, ReaderType
  <2>3. CASE r.rest # {}
    <3>1. s = NextTile(r)
      BY <2>1, <2>3 DEF Advance, Early
    <3>2. /\ s \in ReaderType /\ Reading(q, s) /\ s.source = r.source
          /\ \A t \in Been(q, r) : TileBefore(t, s.tile)
          /\ \A t \in Tiles : Bears(q, r.source, t) /\ TileBefore(t, s.tile) => t \in Been(q, r)
      BY <1>2, <2>1, <2>3, <3>1, NextTileShown
    <3>3. TileBefore(p.tile, s.tile)
      BY <1>2, <2>2, <3>2
    <3>4. \A t \in Tiles : Bears(q, p.source, t) /\ TileBefore(t, s.tile) =>
            t = p.tile \/ TileBefore(t, p.tile)
      BY <1>2, <2>2, <3>2
    <3> QED
      BY <1>2, <3>2, <3>3, <3>4 DEF ReaderOK
  <2>4. CASE r.rest = {}
    <3>1. s = AtEnd(r)
      BY <2>1, <2>4 DEF Advance, Early
    <3>2. r.tile[1] = IF r.top = -1 THEN 0 ELSE r.top
      <4>1. r.tile[1] \in Nat
        BY <1>2 DEF ReaderType, Place
      <4> QED
        BY <2>1, <4>1 DEF AtTile
    <3>3. /\ s \in ReaderType /\ (Over(q, s) \/ Out(q, s)) /\ s.source = r.source
          /\ s.tile[1] > r.tile[1]
          /\ \A t \in Tiles : Bears(q, r.source, t) /\ TileBefore(t, s.tile) => t \in Been(q, r)
      BY <1>2, <2>1, <2>4, <3>1, <3>2, EndGoesOn
    <3>4. TileBefore(p.tile, s.tile)
      <4>1. s.tile \in Place
        BY <3>3 DEF ReaderType
      <4>2. p.tile[1] < s.tile[1]
        BY <1>2, <1>3, <4>1, <3>3 DEF Place
      <4> QED
        BY <1>3, <4>1, <4>2, Order
    <3> QED
      BY <1>2, <2>2, <3>3, <3>4 DEF ReaderOK
  <2> QED
    BY <2>3, <2>4
<1>5. CASE Over(q, p)
  <2>1. r.consumed /\ r.done
    BY <1>2, <1>5 DEF Over, Ended, used
  <2>2. Ended(q, r) /\ Above(q, r)
    BY <1>2, <1>3, <1>5 DEF Over, Ended, Above, TopRead
  <2>3. MadeUp(q, r)
    BY <1>2, <1>5, <2>1 DEF Over, MadeUp
  <2>4. Over(q, r) /\ s = Overzoomed(r)
    BY <1>2, <1>5, <2>1, <2>2, <2>3 DEF Over, Advance
  <2> QED
    BY <1>2, <2>1, <2>4, OverGoesOn DEF ReaderOK
<1> QED
  BY <1>4, <1>5 DEF ReaderOK

\* A tileset is opened at the first of what it has to offer.
LEMMA OpenShown ==
    ASSUME NEW q \in Requests, q = request, NEW a \in Sources, NEW s, s = Advance(NewReader(a))
    PROVE  /\ s \in ReaderType /\ ReaderOK(q, s) /\ s.source = a
           /\ \A t \in Tiles : Bears(q, a, t) => ~TileBefore(t, s.tile)
<1> DEFINE r == NewReader(a)
<1>1. r \in ReaderType
  <2>1. Readable(q, a) \in SUBSET Tiles /\ <<0, 0, 0>> \in Place /\ <<>> \in Data
    BY Offered DEF Place, Data
  <2> QED
    BY <2>1 DEF NewReader, ReaderType
<1>2. /\ r.source = a /\ r.tile = <<0, 0, 0>> /\ ~r.over /\ ~r.done /\ ~r.consumed
      /\ r.rest = Readable(q, a) /\ r.top = -1 /\ r.attop = {} /\ r.waiting = {} /\ r.nextover = {}
  BY DEF NewReader
<1> HIDE DEF r
<1>3. Been(q, r) = {}
  BY <1>2 DEF Been
<1>4. Early(q, r)
  BY <1>2, <1>3 DEF Early, TopRead
<1>5. CASE r.rest # {}
  <2>1. s = NextTile(r)
    BY <1>2, <1>5 DEF Advance, r
  <2> QED
    BY <1>1, <1>2, <1>3, <1>4, <1>5, <2>1, NextTileShown DEF ReaderOK
<1>6. CASE r.rest = {}
  <2>1. s = AtEnd(r) /\ r.tile[1] = IF r.top = -1 THEN 0 ELSE r.top
    BY <1>2, <1>6 DEF Advance, r
  <2> QED
    BY <1>1, <1>2, <1>3, <1>4, <1>6, <2>1, EndGoesOn DEF ReaderOK
<1> QED
  BY <1>5, <1>6

-----------------------------------------------------------------------------
(* The queue. *)

LEMMA InsertShown ==
    ASSUME NEW S, NEW q \in Seq(S), NEW e \in S, NEW p \in 1..(Len(q) + 1),
           NEW n, n = InsertAt(q, p, e)
    PROVE  /\ n \in Seq(S) /\ Len(n) = Len(q) + 1 /\ n[p] = e
           /\ \A k \in 1..Len(n) : k < p => n[k] = q[k]
           /\ \A k \in 1..Len(n) : k > p => n[k] = q[k - 1]
<1> DEFINE a == SubSeq(q, 1, p - 1)
           b == SubSeq(q, p, Len(q))
           one == <<e>>
           c == a \o one
<1>1. Len(q) \in Nat /\ p \in Nat /\ \A i \in 1..Len(q) : q[i] \in S
  BY LenProperties
<1>2. a \in Seq(S) /\ Len(a) = p - 1 /\ \A i \in 1..(p - 1) : a[i] = q[i]
  <2>1. \A i \in 1..(p - 1) : q[i] \in S
    BY <1>1
  <2>2. /\ a \in Seq(S)
        /\ Len(a) = IF 1 <= p - 1 THEN p - 1 - 1 + 1 ELSE 0
        /\ \A i \in 1..(p - 1 - 1 + 1) : a[i] = q[1 + i - 1]
    BY <1>1, <2>1, SubSeqProperties
  <2> HIDE DEF a
  <2>3. \A i \in 1..(p - 1) : i \in 1..(p - 1 - 1 + 1) /\ 1 + i - 1 = i
    BY <1>1
  <2> QED
    BY <1>1, <2>2, <2>3
<1>3. b \in Seq(S) /\ Len(b) = Len(q) - p + 1 /\ \A i \in 1..Len(b) : b[i] = q[p + i - 1]
  <2>1. \A i \in p..Len(q) : q[i] \in S
    BY <1>1
  <2>2. /\ b \in Seq(S)
        /\ Len(b) = IF p <= Len(q) THEN Len(q) - p + 1 ELSE 0
        /\ \A i \in 1..(Len(q) - p + 1) : b[i] = q[p + i - 1]
    BY <1>1, <2>1, SubSeqProperties
  <2> HIDE DEF b
  <2> QED
    BY <1>1, <2>2
<1>4. one \in Seq(S) /\ Len(one) = 1 /\ one[1] = e
  OBVIOUS
<1>5. n = c \o b
  BY DEF InsertAt
<1> HIDE DEF a, b, one
<1>6. /\ c \in Seq(S) /\ Len(c) = p
      /\ \A i \in 1..p : c[i] = IF i <= p - 1 THEN a[i] ELSE one[i - (p - 1)]
  <2>1. /\ c \in Seq(S) /\ Len(c) = Len(a) + Len(one)
        /\ \A i \in 1..(Len(a) + Len(one)) : c[i] = IF i <= Len(a) THEN a[i] ELSE one[i - Len(a)]
    BY <1>2, <1>4, ConcatProperties
  <2>2. Len(a) + Len(one) = p
    BY <1>1, <1>2, <1>4
  <2> HIDE DEF c
  <2> QED
    BY <1>2, <2>1, <2>2
<1> HIDE DEF c
<1>7. /\ n \in Seq(S) /\ Len(n) = p + Len(b)
      /\ \A i \in 1..(p + Len(b)) : n[i] = IF i <= p THEN c[i] ELSE b[i - p]
  BY <1>1, <1>3, <1>5, <1>6, ConcatProperties
<1>8. Len(n) = Len(q) + 1
  BY <1>1, <1>3, <1>7
<1>9. n[p] = e
  BY <1>1, <1>3, <1>4, <1>6, <1>7
<1>10. ASSUME NEW k \in 1..Len(n), k < p
       PROVE  n[k] = q[k]
  <2>1. k \in 1..p /\ k \in 1..(p + Len(b)) /\ k <= p - 1 /\ k \in 1..(p - 1)
    BY <1>1, <1>3, <1>7, <1>10
  <2> QED
    BY <2>1, <1>2, <1>6, <1>7, <1>10
<1>11. ASSUME NEW k \in 1..Len(n), k > p
       PROVE  n[k] = q[k - 1]
  <2>1. k \in 1..(p + Len(b)) /\ ~(k <= p) /\ k - p \in 1..Len(b) /\ p + (k - p) - 1 = k - 1
    BY <1>1, <1>3, <1>7, <1>11
  <2> QED
    BY <2>1, <1>3, <1>7
<1> QED
  BY <1>7, <1>8, <1>9, <1>10, <1>11

\* The queue stays in order.
LEMMA EnqueueShown ==
    ASSUME NEW queue \in Seq(ReaderType), Sorted(queue), NEW r \in ReaderType,
           NEW n, n = Enqueue(queue, r)
    PROVE  /\ n \in Seq(ReaderType) /\ Len(n) = Len(queue) + 1
           /\ Sorted(n) /\ ToSet(n) = ToSet(queue) \cup {r}
<1> DEFINE later == {i \in DOMAIN queue : ReaderBefore(r, queue[i])}
           p == IF later = {} THEN Len(queue) + 1
                ELSE CHOOSE i \in later : \A j \in later : i <= j
           len == Len(queue)
<1>1. /\ len \in Nat /\ DOMAIN queue = 1..len
      /\ \A i \in 1..len : queue[i] \in ReaderType /\ queue[i].tile \in Place
      /\ r.tile \in Place
  <2>1. \A u \in ReaderType : u.tile \in Place
    BY DEF ReaderType
  <2>2. len \in Nat /\ DOMAIN queue = 1..len /\ \A i \in 1..len : queue[i] \in ReaderType
    BY LenProperties
  <2> QED
    BY <2>1, <2>2
<1>2. /\ p \in 1..(len + 1)
      /\ p # len + 1 => p \in later
      /\ \A i \in later : p <= i
  <2>1. CASE later = {}
    BY <1>1, <2>1
  <2>2. CASE later # {}
    <3>1. later \in SUBSET Nat /\ later \subseteq 1..len
      BY <1>1
    <3> HIDE DEF later
    <3>2. \E i \in later : \A j \in later : i <= j
      BY <2>2, <3>1, LeastShown
    <3>3. p = CHOOSE i \in later : \A j \in later : i <= j
      BY <2>2
    <3> HIDE DEF p
    <3>4. p \in later /\ \A j \in later : p <= j
      BY <3>2, <3>3
    <3> QED
      BY <1>1, <3>1, <3>4
  <2> QED
    BY <2>1, <2>2
<1>3. n = InsertAt(queue, p, r)
  BY DEF Enqueue
<1>4. \A i \in 1..len : i < p => ~ReaderBefore(r, queue[i])
  BY <1>1, <1>2
<1>5. p <= len => ReaderBefore(r, queue[p])
  BY <1>1, <1>2
<1> HIDE DEF p, later
<1>6. /\ n \in Seq(ReaderType) /\ Len(n) = len + 1 /\ n[p] = r
      /\ \A k \in 1..Len(n) : k < p => n[k] = queue[k]
      /\ \A k \in 1..Len(n) : k > p => n[k] = queue[k - 1]
  BY <1>2, <1>3, InsertShown
<1>7. DOMAIN n = 1..(len + 1)
  BY <1>6, LenProperties
<1>8. \A i \in 1..len : i < p => ~TileBefore(r.tile, queue[i].tile)
  BY <1>4 DEF ReaderBefore
<1>9. \A i \in 1..len : i >= p => ~TileBefore(queue[i].tile, r.tile)
  <2> TAKE i \in 1..len
  <2> HAVE i >= p
  <2>1. p \in 1..len /\ ReaderBefore(r, queue[p])
    BY <1>1, <1>2, <1>5
  <2>2. ~TileBefore(queue[p].tile, r.tile)
    BY <1>1, <2>1, Order DEF ReaderBefore
  <2>3. i = p \/ ~TileBefore(queue[i].tile, queue[p].tile)
    BY <1>1, <2>1 DEF Sorted
  <2> QED
    BY <1>1, <2>1, <2>2, <2>3, Order
<1>10. ASSUME NEW j \in DOMAIN n, NEW k \in DOMAIN n, j < k
       PROVE  ~TileBefore(n[k].tile, n[j].tile)
  <2>1. j \in 1..(len + 1) /\ k \in 1..(len + 1) /\ p \in 1..(len + 1)
    BY <1>2, <1>7
  <2>2. CASE k < p
    <3>1. n[j] = queue[j] /\ n[k] = queue[k] /\ j \in 1..len /\ k \in 1..len
      BY <1>1, <1>6, <1>10, <2>1, <2>2
    <3> QED
      BY <1>1, <1>10, <3>1 DEF Sorted
  <2>3. CASE k = p
    <3>1. n[j] = queue[j] /\ n[k] = r /\ j \in 1..len /\ j < p
      BY <1>1, <1>6, <1>10, <2>1, <2>3
    <3> QED
      BY <1>8, <3>1
  <2>4. CASE k > p
    <3>1. n[k] = queue[k - 1] /\ k - 1 \in 1..len /\ k - 1 >= p
      BY <1>1, <1>6, <2>1, <2>4
    <3>2. CASE j < p
      <4>1. n[j] = queue[j] /\ j \in 1..len /\ j < k - 1
        BY <1>1, <1>6, <2>1, <3>1, <3>2
      <4> QED
        BY <1>1, <3>1, <4>1 DEF Sorted
    <3>3. CASE j = p
      BY <1>6, <1>9, <3>1, <3>3
    <3>4. CASE j > p
      <4>1. n[j] = queue[j - 1] /\ j - 1 \in 1..len /\ j - 1 < k - 1
        BY <1>1, <1>6, <1>10, <2>1, <3>4
      <4> QED
        BY <1>1, <3>1, <4>1 DEF Sorted
    <3> QED
      BY <2>1, <3>2, <3>3, <3>4
  <2> QED
    BY <2>1, <2>2, <2>3, <2>4
<1>11. ToSet(n) = ToSet(queue) \cup {r}
  <2>1. \A k \in 1..(len + 1) : n[k] = r \/ \E i \in 1..len : n[k] = queue[i]
    <3> TAKE k \in 1..(len + 1)
    <3>1. CASE k < p
      <4>1. n[k] = queue[k] /\ k \in 1..len
        BY <1>1, <1>2, <1>6, <3>1
      <4> QED
        BY <4>1
    <3>2. CASE k > p
      <4>1. n[k] = queue[k - 1] /\ k - 1 \in 1..len
        BY <1>1, <1>2, <1>6, <3>2
      <4> QED
        BY <4>1
    <3> QED
      BY <1>2, <1>6, <3>1, <3>2
  <2>2. \A i \in 1..len : \E k \in 1..(len + 1) : n[k] = queue[i]
    <3> TAKE i \in 1..len
    <3>1. CASE i < p
      BY <1>1, <1>6, <3>1
    <3>2. CASE i >= p
      <4>1. i + 1 \in 1..(len + 1) /\ i + 1 > p /\ i + 1 - 1 = i
        BY <1>1, <1>2, <3>2
      <4> QED
        BY <1>6, <4>1
    <3> QED
      BY <1>1, <1>2, <3>1, <3>2
  <2>3. r = n[p] /\ p \in 1..(len + 1)
    BY <1>2, <1>6
  <2> QED
    BY <1>1, <1>7, <2>1, <2>2, <2>3 DEF ToSet
<1> QED
  BY <1>6, <1>10, <1>11 DEF Sorted

\* The reader at the head is at the first tile.
LEMMA HeadShown ==
    ASSUME NEW queue \in Seq(ReaderType), Sorted(queue), queue # <<>>
    PROVE  /\ Head(queue) \in ReaderType
           /\ Tail(queue) \in Seq(ReaderType) /\ Len(Tail(queue)) = Len(queue) - 1
           /\ ToSet(queue) = {Head(queue)} \cup ToSet(Tail(queue))
           /\ Sorted(Tail(queue))
           /\ \A r \in ToSet(queue) : r \in ReaderType /\ ~TileBefore(r.tile, Head(queue).tile)
           /\ \A r \in ToSet(Tail(queue)) :
                Tail(queue) # <<>> /\ ~TileBefore(r.tile, Tail(queue)[1].tile)
<1> DEFINE len == Len(queue)
           tail == Tail(queue)
<1>1. /\ len \in Nat /\ DOMAIN queue = 1..len /\ len # 0
      /\ \A i \in 1..len : queue[i] \in ReaderType /\ queue[i].tile \in Place
  <2>1. \A u \in ReaderType : u.tile \in Place
    BY DEF ReaderType
  <2>2. len \in Nat /\ DOMAIN queue = 1..len /\ \A i \in 1..len : queue[i] \in ReaderType
    BY LenProperties
  <2>3. len # 0
    BY EmptySeq
  <2> QED
    BY <2>1, <2>2, <2>3
<1>2. /\ Head(queue) = queue[1] /\ tail \in Seq(ReaderType) /\ Len(tail) = len - 1
      /\ \A i \in 1..(len - 1) : tail[i] = queue[i + 1]
  BY HeadTailProperties
<1>3. DOMAIN tail = 1..(len - 1)
  BY <1>2, LenProperties
<1> HIDE DEF tail
<1>4. ToSet(queue) = {queue[1]} \cup ToSet(tail)
  <2>1. \A i \in 1..len : i = 1 \/ (i - 1 \in 1..(len - 1) /\ queue[i] = tail[i - 1])
    BY <1>1, <1>2
  <2>2. \A i \in 1..(len - 1) : i + 1 \in 1..len /\ tail[i] = queue[i + 1]
    BY <1>1, <1>2
  <2>3. 1 \in 1..len
    BY <1>1
  <2>4. ToSet(queue) = {queue[i] : i \in 1..len} /\ ToSet(tail) = {tail[i] : i \in 1..(len - 1)}
    BY <1>1, <1>3 DEF ToSet
  <2>5. \A x \in ToSet(queue) : x = queue[1] \/ x \in ToSet(tail)
    BY <2>1, <2>4
  <2>6. \A x \in ToSet(tail) : x \in ToSet(queue)
    BY <2>2, <2>4
  <2>7. queue[1] \in ToSet(queue)
    BY <2>3, <2>4
  <2> QED
    BY <2>5, <2>6, <2>7
<1>5. \A j, k \in 1..len : j <= k => ~TileBefore(queue[k].tile, queue[j].tile)
  BY <1>1, Order DEF Sorted
<1>6. Sorted(tail) /\ \A j \in 1..(len - 1) : ~TileBefore(tail[j].tile, tail[1].tile)
  <2>1. \A j, k \in 1..(len - 1) : j <= k => ~TileBefore(tail[k].tile, tail[j].tile)
    <3> TAKE j, k \in 1..(len - 1)
    <3> HAVE j <= k
    <3>1. j + 1 \in 1..len /\ k + 1 \in 1..len /\ j + 1 <= k + 1
      BY <1>1
    <3> QED
      BY <1>2, <1>5, <3>1
  <2> QED
    BY <1>1, <1>3, <2>1 DEF Sorted
<1>7. \A r \in ToSet(queue) : r \in ReaderType /\ ~TileBefore(r.tile, queue[1].tile)
  BY <1>1, <1>5 DEF ToSet
<1>8. \A r \in ToSet(tail) : tail # <<>> /\ ~TileBefore(r.tile, tail[1].tile)
  BY <1>3, <1>6 DEF ToSet
<1> QED
  BY <1>1, <1>2, <1>4, <1>6, <1>7, <1>8 DEF tail

-----------------------------------------------------------------------------
(* Batches and what is made of them. *)

LEMMA Empties ==
    /\ IsBatch(<<>>) /\ IsMade(<<>>) /\ DOMAIN <<>> = {}
    /\ \A b : (IsBatch(b) \/ IsMade(b)) /\ DOMAIN b = {} => b = <<>>
<1>1. DOMAIN <<>> = {}
  OBVIOUS
<1>2. IsBatch(<<>>) /\ IsMade(<<>>)
  BY <1>1 DEF IsBatch, IsMade
<1>3. ASSUME NEW b, IsBatch(b) \/ IsMade(b), DOMAIN b = {}
      PROVE  b = <<>>
  <2>1. b = [t \in DOMAIN b |-> b[t]]
    BY <1>3 DEF IsBatch, IsMade
  <2>2. b = [t \in {} |-> b[t]]
    BY <2>1, <1>3
  <2> QED
    BY <2>2
<1> QED
  BY <1>1, <1>2, <1>3

\* What a reader has at its tile.
LEMMA ReaderShown ==
    ASSUME NEW q \in Requests, NEW r \in ReaderType, ReaderOK(q, r)
    PROVE  /\ r.tile \in Place /\ r.data \in Data /\ r.source \in Sources
           /\ r.tile[1] \in q.minzoom..q.maxzoom => r.tile \in Tiles
           /\ ~Out(q, r) /\ r.data # <<>> => Offers(q, r.source, r.tile) /\ r.data = Content(r.source, r.tile)
           /\ ~Out(q, r) /\ Bears(q, r.source, r.tile) => r.data = Content(r.source, r.tile)
           /\ r.tile[1] \in Zooms \cup {Deepest + 1, NoTile}
           /\ r.done => \A t \in Readable(q, r.source) : TileBefore(t, r.tile)
           /\ r.done /\ ~r.consumed => \A t \in Tiles :
                Filled(q, r.source, t) /\ TileBefore(t, r.tile) => t[1] < r.tile[1]
<1>1. /\ r.tile \in Place /\ r.data \in Data /\ r.source \in Sources /\ Deepest \in Nat
      /\ r.tile[1] \in Nat /\ q.minzoom \in Nat /\ q.maxzoom \in Zooms /\ Deepest < NoTile /\ NoTile \in Nat
  BY SizeAssumption, RequestAssumption DEF ReaderType, Place, NoTile
<1>2. \A t \in Tiles : t \in Place /\ t[1] \in Zooms /\ t[1] \in Nat
  BY TileTypes DEF Zooms
<1>3. ASSUME NEW t \in Readable(q, r.source), Ended(q, r), r.top < r.tile[1] \/ r.tile[1] = NoTile
      PROVE  TileBefore(t, r.tile)
  <2>1. t \in Tiles /\ t[1] <= r.top /\ r.top \in -1..Deepest
    BY <1>1, <1>3, EndedTop, Offered
  <2>2. t[1] < r.tile[1]
    BY <1>1, <1>2, <1>3, <2>1
  <2> QED
    BY <1>1, <1>2, <2>1, <2>2, Order
<1>4. CASE Reading(q, r)
  <2>1. r.tile \in Readable(q, r.source) /\ r.data = Content(r.source, r.tile) /\ ~r.done
    BY <1>4 DEF Reading, AtTile, Been, Early
  <2>2. r.tile \in Tiles
    BY <1>1, <2>1, Offered
  <2> QED
    BY <1>1, <1>2, <2>1, <2>2 DEF Offers
<1>5. CASE Over(q, r)
  <2>1. /\ Ended(q, r) /\ MadeUp(q, r) /\ r.top < r.tile[1] /\ r.tile[1] <= Deepest + 1
        /\ r.tile \in TilesAt(r.tile[1])
    BY <1>5 DEF Over, Above, MadeUp
  <2>2. r.tile \notin Readable(q, r.source)
    BY <1>1, <1>3, <2>1, Order
  <2>3. r.tile[1] \in q.minzoom..q.maxzoom => r.tile \in Tiles
    BY <1>1, <2>1, TileTypes DEF Zooms
  <2>4. r.data = IF Scales(q, r.source, r.tile) THEN Content(r.source, r.tile) ELSE <<>>
    BY <2>1 DEF MadeUp
  <2>5. ~r.consumed => \A t \in Tiles :
            Filled(q, r.source, t) /\ TileBefore(t, r.tile) => t[1] < r.tile[1]
    <3>1. \A t \in Tiles : Filled(q, r.source, t) /\ t[1] = r.tile[1] /\ TileBefore(t, r.tile) => r.consumed
      BY <2>1 DEF MadeUp, Filled
    <3>2. \A t \in Tiles : TileBefore(t, r.tile) => t[1] <= r.tile[1]
      BY <1>1, <1>2, Order
    <3> QED
      BY <1>1, <1>2, <3>1, <3>2
  <2>6. r.tile[1] \in Zooms \cup {Deepest + 1, NoTile}
    BY <1>1, <2>1 DEF Zooms
  <2>7. Offers(q, r.source, r.tile) => Scales(q, r.source, r.tile)
    BY <2>2 DEF Offers
  <2>8. Scales(q, r.source, r.tile) => Offers(q, r.source, r.tile)
    BY DEF Offers
  <2>9. \A t \in Readable(q, r.source) : TileBefore(t, r.tile)
    BY <1>3, <2>1
  <2> QED
    BY <1>1, <2>3, <2>4, <2>5, <2>6, <2>7, <2>8, <2>9 DEF Bears
<1>6. CASE Out(q, r)
  <2>1. r.tile[1] = NoTile /\ Ended(q, r)
    BY <1>6 DEF Out
  <2>2. ~(r.tile[1] \in q.minzoom..q.maxzoom)
    BY <1>1, <2>1 DEF Zooms
  <2>3. \A t \in Tiles : t[1] < r.tile[1]
    BY <1>1, <1>2, <2>1 DEF Zooms
  <2> QED
    BY <1>1, <1>3, <1>6, <2>1, <2>2, <2>3
<1> QED
  BY <1>4, <1>5, <1>6 DEF ReaderOK

LEMMA AddedShown ==
    ASSUME NEW b, IsBatch(b), NEW t, InRange(t) => t \in Tiles, NEW d \in Data,
           NEW n, n = Added(b, t, d)
    PROVE  /\ IsBatch(n)
           /\ DOMAIN b \subseteq DOMAIN n
           /\ \A u \in DOMAIN n : u \in DOMAIN b \/ (u = t /\ InRange(t))
           /\ \A u \in DOMAIN b : ToSet(b[u]) \subseteq ToSet(n[u])
           /\ \A u \in DOMAIN n : \A e \in ToSet(n[u]) :
                (u \in DOMAIN b /\ e \in ToSet(b[u])) \/ (u = t /\ e = d)
           /\ InRange(t) => t \in DOMAIN n /\ d \in ToSet(n[t])
<1>1. CASE ~InRange(t)
  <2>1. n = b
    BY <1>1 DEF Added, InRange
  <2> QED
    BY <1>1, <2>1
<1>2. CASE InRange(t)
  <2> DEFINE before(u) == IF u \in DOMAIN b THEN b[u] ELSE <<>>
             here(u) == IF u = t THEN <<d>> ELSE <<>>
             D == DOMAIN b \cup {t}
  <2>1. n = [u \in D |-> before(u) \o here(u)]
    BY <1>2 DEF Added, InRange
  <2>2. \A u \in D : before(u) \in Seq(Data) /\ here(u) \in Seq(Data)
    BY DEF IsBatch
  <2>3. D \subseteq Tiles
    BY <1>2 DEF IsBatch
  <2>4. ASSUME NEW x \in Seq(Data), NEW y \in Seq(Data)
        PROVE  x \o y \in Seq(Data) /\ ToSet(x \o y) = ToSet(x) \cup ToSet(y)
    <3> DEFINE z == x \o y
    <3>1. /\ z \in Seq(Data) /\ Len(z) = Len(x) + Len(y) /\ Len(x) \in Nat /\ Len(y) \in Nat
          /\ \A i \in 1..(Len(x) + Len(y)) : z[i] = IF i <= Len(x) THEN x[i] ELSE y[i - Len(x)]
      BY ConcatProperties, LenProperties
    <3> HIDE DEF z
    <3>2. DOMAIN z = 1..(Len(x) + Len(y)) /\ DOMAIN x = 1..Len(x) /\ DOMAIN y = 1..Len(y)
      BY <3>1, LenProperties
    <3>3. \A e \in ToSet(z) : e \in ToSet(x) \cup ToSet(y)
      <4> TAKE e \in ToSet(z)
      <4>1. PICK i \in 1..(Len(x) + Len(y)) : e = z[i]
        BY <3>2 DEF ToSet
      <4>2. CASE i <= Len(x)
        BY <3>1, <3>2, <4>1, <4>2 DEF ToSet
      <4>3. CASE i > Len(x)
        <5>1. i - Len(x) \in 1..Len(y) /\ e = y[i - Len(x)]
          BY <3>1, <4>1, <4>3
        <5> QED
          BY <3>2, <5>1 DEF ToSet
      <4> QED
        BY <3>1, <4>2, <4>3
    <3>4. \A e \in ToSet(x) : e \in ToSet(z)
      <4> TAKE e \in ToSet(x)
      <4>1. PICK i \in 1..Len(x) : e = x[i]
        BY <3>2 DEF ToSet
      <4>2. i \in 1..(Len(x) + Len(y)) /\ z[i] = e
        BY <3>1, <4>1
      <4> QED
        BY <3>2, <4>2 DEF ToSet
    <3>5. \A e \in ToSet(y) : e \in ToSet(z)
      <4> TAKE e \in ToSet(y)
      <4>1. PICK i \in 1..Len(y) : e = y[i]
        BY <3>2 DEF ToSet
      <4> DEFINE k == i + Len(x)
      <4>2. k \in 1..(Len(x) + Len(y)) /\ ~(k <= Len(x)) /\ k - Len(x) = i
        BY <3>1
      <4> HIDE DEF k
      <4>3. z[k] = e
        BY <3>1, <4>1, <4>2
      <4> QED
        BY <3>2, <4>2, <4>3 DEF ToSet
    <3> QED
      BY <3>1, <3>3, <3>4, <3>5 DEF z
  <2>5. ToSet(<<>>) = {} /\ ToSet(<<d>>) = {d}
    BY DEF ToSet
  <2> HIDE DEF D
  <2>6. DOMAIN n = D /\ \A u \in D : n[u] = before(u) \o here(u)
    BY <2>1
  <2>7. \A u \in D : n[u] \in Seq(Data) /\ ToSet(n[u]) = ToSet(before(u)) \cup ToSet(here(u))
    <3> HIDE DEF before, here
    <3> QED
      BY <2>2, <2>4, <2>6
  <2>8. IsBatch(n)
    BY <2>1, <2>3, <2>6, <2>7 DEF IsBatch
  <2>9. \A u \in DOMAIN b : ToSet(b[u]) \subseteq ToSet(n[u])
    BY <2>5, <2>7 DEF D
  <2>10. \A u \in DOMAIN n : \A e \in ToSet(n[u]) :
            (u \in DOMAIN b /\ e \in ToSet(b[u])) \/ (u = t /\ e = d)
    <3> TAKE u \in DOMAIN n
    <3> TAKE e \in ToSet(n[u])
    <3>1. e \in ToSet(before(u)) \/ e \in ToSet(here(u))
      BY <2>6, <2>7
    <3>2. e \in ToSet(before(u)) => u \in DOMAIN b /\ e \in ToSet(b[u])
      BY <2>5
    <3>3. e \in ToSet(here(u)) => u = t /\ e = d
      BY <2>5
    <3> QED
      BY <3>1, <3>2, <3>3
  <2>11. t \in DOMAIN n /\ d \in ToSet(n[t])
    BY <2>5, <2>6, <2>7 DEF D
  <2>12. DOMAIN b \subseteq DOMAIN n /\ \A u \in DOMAIN n : u \in DOMAIN b \/ u = t
    BY <2>6 DEF D
  <2> QED
    BY <1>2, <2>8, <2>9, <2>10, <2>11, <2>12
<1> QED
  BY <1>1, <1>2

\* What is made of the contents of a tile.
LEMMA SurvivingShown ==
    ASSUME request \in Requests, NEW t \in Tiles, NEW contents \in Seq(Data), NEW rs,
           FoundIn(rs, contents, t), NEW features, features = Surviving(contents)
    PROVE  /\ MadeOf(rs, features, t) /\ features \subseteq Feature
           /\ \A s \in Sources : Content(s, t) \in ToSet(contents) => Kept(s, t) \subseteq features
<1>1. Args(request) \subseteq Sources
  BY RequestAssumption DEF Args, ToSet, Sources
<1>2. features = {f \in UNION {{<<d[1], c>> : c \in d[2]} : d \in ToSet(contents) \ {<<>>}} :
                    f[2] \in Catalogue[f[1]].kept}
  BY DEF Surviving, Joined
<1>3. ASSUME NEW f \in features
      PROVE  f \in Kept(f[1], t) /\ FromReader(rs, f[1], t) /\ f \in Feature
  <2>1. PICK d \in ToSet(contents) \ {<<>>} : \E c \in d[2] : f = <<d[1], c>>
    BY <1>2
  <2>2. PICK c \in d[2] : f = <<d[1], c>>
    BY <2>1
  <2>3. d = Content(d[1], t) /\ FromReader(rs, d[1], t) /\ d # <<>>
    BY <2>1 DEF FoundIn
  <2>4. d[1] \in Sources /\ f[1] = d[1] /\ f[2] = c
    BY <1>1, <2>2, <2>3 DEF FromReader
  <2>5. d = <<d[1], Catalogue[d[1]].points \cap CellsIn(t)>>
    BY <2>3, <2>4, Contents
  <2>6. c \in CellsIn(t)
    BY <2>2, <2>5
  <2>7. c \in Catalogue[d[1]].kept
    BY <1>2, <2>4
  <2>8. f \in Kept(d[1], t)
    BY <2>2, <2>6, <2>7 DEF Kept
  <2> QED
    BY <2>3, <2>4, <2>8, Contents
<1>4. ASSUME NEW s \in Sources, Content(s, t) \in ToSet(contents), NEW f \in Kept(s, t)
      PROVE  f \in features
  <2>1. PICK c \in Catalogue[s].kept \cap CellsIn(t) : f = <<s, c>>
    BY DEF Kept
  <2>2. c \in Catalogue[s].points \cap CellsIn(t)
    BY <2>1, CatalogueAssumption DEF Sources
  <2> DEFINE d == Content(s, t)
  <2>3. d = <<s, Catalogue[s].points \cap CellsIn(t)>> /\ d # <<>>
    BY <2>2, Contents
  <2> HIDE DEF d
  <2>4. d \in ToSet(contents) \ {<<>>} /\ d[1] = s /\ c \in d[2]
    BY <1>4, <2>2, <2>3 DEF d
  <2>5. f \in UNION {{<<e[1], b>> : b \in e[2]} : e \in ToSet(contents) \ {<<>>}}
    BY <2>1, <2>4
  <2> QED
    BY <1>2, <2>1, <2>5
<1> QED
  BY <1>3, <1>4 DEF MadeOf

LEMMA MayShown ==
    ASSUME request \in Requests, NEW t \in Tiles, NEW rs, NEW features, MadeOf(rs, features, t)
    PROVE  /\ features \subseteq May(request, t)
           /\ TooLarge(request, features) => TooBig(t)
<1>1. Args(request) \subseteq Sources
  BY RequestAssumption DEF Args, ToSet, Sources
<1>2. features \subseteq May(request, t)
  <2> SUFFICES ASSUME NEW f \in features
               PROVE  f \in May(request, t)
    OBVIOUS
  <2> DEFINE s == f[1]
  <2>1. f \in Kept(s, t) /\ s \in Args(request) /\ Offers(request, s, t)
    BY DEF MadeOf, FromReader
  <2>2. CASE t \in Readable(request, s)
    <3>1. f \in Must(request, t)
      BY <2>1, <2>2 DEF Must, Kept
    <3> QED
      BY <3>1 DEF May
  <2>3. CASE Scales(request, s, t)
    <3>1. f \in ScaledUp(request, s, t) /\ request.overzoom
      BY <2>1, <2>3 DEF Scales, ScaledUp, Kept
    <3> QED
      BY <2>1, <3>1 DEF May
  <2> QED
    BY <2>1, <2>2, <2>3 DEF Offers
<1>3. IsFiniteSet(May(request, t))
  <2>1. \A s \in Args(request) : Kept(s, t) \subseteq Args(request) \X TilesAt(Deepest)
    <3> TAKE s \in Args(request)
    <3>1. Catalogue[s].kept \subseteq TilesAt(Deepest)
      BY <1>1, CatalogueAssumption DEF Sources
    <3> QED
      BY <3>1 DEF Kept
  <2>2. May(request, t) \subseteq Args(request) \X TilesAt(Deepest)
    <3>1. Must(request, t) \subseteq UNION {Kept(s, t) : s \in Args(request)}
      BY DEF Must, Kept
    <3>2. UNION {ScaledUp(request, s, t) : s \in Args(request)} \subseteq UNION {Kept(s, t) : s \in Args(request)}
      BY DEF ScaledUp, Kept
    <3> QED
      BY <2>1, <3>1, <3>2 DEF May
  <2>3. IsFiniteSet(Args(request))
    <3>1. request.args \in Seq(Sources)
      BY RequestAssumption DEF Sources
    <3>2. DOMAIN request.args = 1..Len(request.args) /\ Len(request.args) \in Nat
      BY <3>1, LenProperties
    <3>3. request.args \in Surjection(1..Len(request.args), Args(request))
      <4>1. request.args \in [1..Len(request.args) -> Args(request)]
        BY <3>1, <3>2 DEF Args, ToSet
      <4> QED
        BY <3>2, <4>1 DEF Surjection, Args, ToSet
    <3>4. IsFiniteSet(1..Len(request.args))
      BY <3>2, FS_Interval
    <3> QED
      BY <3>3, <3>4, FS_Surjection
  <2>4. IsFiniteSet(TilesAt(Deepest))
    BY TilesFinite, SizeAssumption
  <2>5. IsFiniteSet(Args(request) \X TilesAt(Deepest))
    BY <2>3, <2>4, FS_Product
  <2> QED
    BY <2>2, <2>5, FS_Subset
<1>4. IsFiniteSet(features) /\ Cardinality(features) <= Cardinality(May(request, t))
  BY <1>2, <1>3, FS_Subset
<1>5. Cardinality(features) \in Nat /\ Cardinality(May(request, t)) \in Nat
  BY <1>3, <1>4, FS_CardinalityType
<1> QED
  BY <1>2, <1>4, <1>5, SizeAssumption DEF TooLarge, TooBig

-----------------------------------------------------------------------------
(* Reading. *)

\* What holds of a batch when the readers are rs, and nothing is with the threads.
ReadSoFar(rs, ended, batch) ==
    /\ IsBatch(batch)
    /\ \A t \in DOMAIN batch : t \notin DOMAIN out /\ InRange(t) /\ FoundIn(rs, batch[t], t)
    /\ \A t \in DOMAIN out : Past(rs, ended, t) /\ MadeOf(rs, out[t], t)
    /\ \A r \in rs, t \in Tiles :
        InRange(t) /\ Bears(request, r.source, t) /\ TileBefore(t, r.tile) =>
            /\ t \in DOMAIN batch => Content(r.source, t) \in ToSet(batch[t])
            /\ t \in DOMAIN out => Kept(r.source, t) \subseteq out[t]
            /\ \/ t \in DOMAIN batch
               \/ Past(rs, ended, t)
                    /\ (t \in DOMAIN out \/ TooBig(t) \/ Kept(r.source, t) = {})

\* The readers keep their sources and only go forward.
FromTo(rs, us) ==
    \A r \in rs : \E u \in us :
        u.source = r.source /\ (u.tile = r.tile \/ TileBefore(r.tile, u.tile))

LEMMA Facts ==
    ASSUME IInv
    PROVE  /\ request \in Requests /\ \A t : InRange(t) <=> t[1] \in request.minzoom..request.maxzoom
           /\ \A r \in Readers : r \in ReaderType /\ r.tile \in Place /\ r.source \in Sources
           /\ Tiles \subseteq Place /\ DOMAIN out \subseteq Tiles /\ DOMAIN tasks \subseteq Tiles
           /\ \A i \in Threads : DOMAIN inputs[i] \subseteq Tiles /\ DOMAIN outputs[i] \subseteq Tiles
           /\ \A t : Given(t) => t \in Tiles
           /\ phase # "joining" => \A t : Given(t) <=> t \in DOMAIN out
           /\ readers \in Seq(ReaderType) /\ CPUs \in Nat \ {0} /\ collected \in Nat
<1>1. /\ request \in Requests /\ readers \in Seq(ReaderType) /\ CPUs \in Nat \ {0} /\ collected \in Nat
      /\ IsBatch(tasks) /\ IsMade(out)
      /\ \A i \in Threads : IsBatch(inputs[i]) /\ IsMade(outputs[i])
  BY SizeAssumption DEF IInv, Types
<1>2. \A r \in Readers : r \in ReaderType
  BY <1>1, LenProperties DEF Readers, ToSet
<1>3. \A r \in ReaderType : r.tile \in Place /\ r.source \in Sources
  BY DEF ReaderType
<1>4. \A i \in Threads : DOMAIN inputs[i] \subseteq Tiles /\ DOMAIN outputs[i] \subseteq Tiles
  BY <1>1 DEF IsBatch, IsMade
<1>5. DOMAIN out \subseteq Tiles /\ DOMAIN tasks \subseteq Tiles
  BY <1>1 DEF IsBatch, IsMade
<1>6. \A t : Given(t) => t \in Tiles
  BY <1>4, <1>5 DEF Given, InInput, InOutput
<1>7. phase # "joining" => \A t : Given(t) <=> t \in DOMAIN out
  BY Empties DEF IInv, Phases, Given, InInput, InOutput
<1> QED
  BY <1>1, <1>2, <1>3, <1>4, <1>5, <1>6, <1>7, TileTypes DEF InRange

LEMMA StillPassed ==
    ASSUME NEW rs, NEW us, FromTo(rs, us), \A r \in rs \cup us : r.tile \in Place
    PROVE  /\ \A s, t : t \in Place /\ Passed(rs, s, t) => Passed(us, s, t)
           /\ \A s, t : t \in Place /\ FromReader(rs, s, t) => FromReader(us, s, t)
           /\ \A x, t : t \in Place /\ FoundIn(rs, x, t) => FoundIn(us, x, t)
           /\ \A x, t : t \in Place /\ MadeOf(rs, x, t) => MadeOf(us, x, t)
<1>1. ASSUME NEW s, NEW t, t \in Place, Passed(rs, s, t)
      PROVE  Passed(us, s, t)
  <2>1. PICK r \in rs : r.source = s /\ TileBefore(t, r.tile)
    BY <1>1 DEF Passed
  <2>2. PICK u \in us : u.source = r.source /\ (u.tile = r.tile \/ TileBefore(r.tile, u.tile))
    BY DEF FromTo
  <2>3. TileBefore(t, u.tile)
    BY <1>1, <2>1, <2>2, Order
  <2> QED
    BY <2>1, <2>2, <2>3 DEF Passed
<1>2. \A s, t : t \in Place /\ FromReader(rs, s, t) => FromReader(us, s, t)
  BY <1>1 DEF FromReader
<1>3. \A x, t : t \in Place /\ FoundIn(rs, x, t) => FoundIn(us, x, t)
  BY <1>2 DEF FoundIn
<1>4. \A x, t : t \in Place /\ MadeOf(rs, x, t) => MadeOf(us, x, t)
  BY <1>2 DEF MadeOf
<1> QED
  BY <1>1, <1>2, <1>3, <1>4

\* What main takes from the readers, and what is true of the readers and batch it is left with.
ReadFrom(r, others, batch, ahead, queue, rs) ==
    /\ phase = "reading" /\ ~AllDone(readers)
    /\ r = Head(readers) /\ others = Tail(readers)
    /\ batch = Added(tasks, r.tile, r.data)
    /\ ahead = Advance([r EXCEPT !.consumed = @ \/ r.over])
    /\ queue = Enqueue(others, ahead) /\ rs = ToSet(queue)

GoneOn(r, others, batch, queue, rs) ==
    /\ queue \in Seq(ReaderType) /\ Len(queue) = Len(readers) /\ Sorted(queue)
    /\ \A u \in rs : ReaderOK(request, u) /\ u.source \in Args(request)
    /\ FromTo(Readers, rs)
    /\ ReadSoFar(rs, FALSE, batch)
    /\ \A t \in DOMAIN batch, u \in rs : ~TileBefore(u.tile, t)
    /\ Complete(r.tile, others) => \A t \in DOMAIN batch : Past(rs, FALSE, t)

LEMMA ReadGoesOn ==
    ASSUME IInv, NEW r, NEW others, NEW batch, NEW ahead, NEW queue, NEW rs,
           ReadFrom(r, others, batch, ahead, queue, rs)
    PROVE  GoneOn(r, others, batch, queue, rs)
<1> SUFFICES ASSUME phase = "reading", ~AllDone(readers), r = Head(readers), others = Tail(readers),
                    batch = Added(tasks, r.tile, r.data),
                    ahead = Advance([r EXCEPT !.consumed = @ \/ r.over]),
                    queue = Enqueue(others, ahead), rs = ToSet(queue)
             PROVE  GoneOn(r, others, batch, queue, rs)
  BY DEF ReadFrom
<1>1. /\ request \in Requests /\ readers \in Seq(ReaderType) /\ ~last /\ Tiles \subseteq Place
      /\ Sorted(readers) /\ readers # <<>> /\ IsBatch(tasks) /\ IsMade(out)
      /\ \A u \in Readers : u \in ReaderType /\ u.tile \in Place /\ ReaderOK(request, u)
            /\ u.source \in Args(request)
      /\ \A t : Given(t) <=> t \in DOMAIN out
      /\ DOMAIN out \subseteq Tiles /\ DOMAIN tasks \subseteq Tiles
  BY Facts DEF IInv, Types, Phases, Queue, AllDone
<1>2. /\ r \in ReaderType /\ others \in Seq(ReaderType) /\ Len(others) = Len(readers) - 1
      /\ Readers = {r} \cup ToSet(others) /\ Sorted(others)
      /\ \A u \in Readers : ~TileBefore(u.tile, r.tile)
      /\ \A u \in ToSet(others) : others # <<>> /\ ~TileBefore(u.tile, others[1].tile)
  BY <1>1, HeadShown DEF Readers
<1>3. r \in Readers /\ r.tile \in Place
  BY <1>1, <1>2
<1>4. ~Out(request, r)
  <2> SUFFICES ASSUME Out(request, r)
               PROVE  AllDone(readers)
    OBVIOUS
  <2>1. ASSUME NEW u \in Readers
        PROVE  u.done /\ ~u.consumed
    <3>1. r.tile[1] = NoTile /\ r.tile[1] \in Nat /\ u.tile[1] \in Nat /\ Deepest + 1 < NoTile
          /\ Deepest \in Nat
      BY <1>1, <1>3, SizeAssumption DEF Out, Place
    <3>2. u.tile[1] >= NoTile
      BY <1>1, <1>2, <1>3, <3>1, Order
    <3>3. ~Reading(request, u)
      <4>1. Reading(request, u) => u.tile \in Readable(request, u.source)
        BY DEF Reading, AtTile, Been
      <4>2. u.source \in Sources
        BY <1>1 DEF ReaderType
      <4>3. Reading(request, u) => u.tile[1] \in Zooms
        BY <1>1, <4>1, <4>2, Offered, TileTypes
      <4> QED
        BY <3>1, <3>2, <4>3 DEF Zooms
    <3>4. ~Over(request, u)
      BY <3>1, <3>2 DEF Over, Above
    <3> QED
      BY <1>1, <3>3, <3>4 DEF ReaderOK, Out, Ended
  <2> QED
    BY <1>1, <2>1 DEF AllDone, Readers, ToSet
<1>5. /\ ahead \in ReaderType /\ ReaderOK(request, ahead) /\ ahead.source = r.source
      /\ TileBefore(r.tile, ahead.tile)
      /\ \A t \in Tiles : Bears(request, r.source, t) /\ TileBefore(t, ahead.tile) =>
            t = r.tile \/ TileBefore(t, r.tile)
  BY <1>1, <1>2, <1>3, <1>4, AdvanceShown
<1>6. ahead.tile \in Place
  BY <1>5 DEF ReaderType
<1>7. /\ queue \in Seq(ReaderType) /\ Len(queue) = Len(others) + 1 /\ Sorted(queue)
      /\ rs = ToSet(others) \cup {ahead}
  BY <1>2, <1>5, EnqueueShown
<1>8. Len(queue) = Len(readers)
  BY <1>1, <1>2, <1>7, LenProperties
<1>9. \A u \in rs : ReaderOK(request, u) /\ u.source \in Args(request) /\ u.tile \in Place
  BY <1>1, <1>2, <1>3, <1>5, <1>6, <1>7
<1>10. FromTo(Readers, rs)
  BY <1>2, <1>5, <1>7 DEF FromTo
<1>11. \A t \in Place : Past(Readers, last, t) => Past(rs, FALSE, t)
  <2> TAKE t \in Place
  <2> HAVE Past(Readers, last, t)
  <2>1. \A u \in Readers : TileBefore(t, u.tile)
    BY <1>1 DEF Past
  <2>2. TileBefore(t, ahead.tile)
    BY <1>3, <1>5, <1>6, <2>1, Order
  <2> QED
    BY <1>2, <1>7, <2>1, <2>2 DEF Past
<1>12. \A t \in DOMAIN out : Past(Readers, last, t) /\ MadeOf(Readers, out[t], t)
  BY <1>1 DEF IInv, InOrder, NoneForeign
<1>13. /\ r.data \in Data /\ r.source \in Sources
       /\ InRange(r.tile) => r.tile \in Tiles
       /\ r.data # <<>> => Offers(request, r.source, r.tile) /\ r.data = Content(r.source, r.tile)
       /\ Bears(request, r.source, r.tile) => r.data = Content(r.source, r.tile)
  BY <1>1, <1>2, <1>3, <1>4, ReaderShown DEF InRange
<1>14. /\ IsBatch(batch)
       /\ DOMAIN tasks \subseteq DOMAIN batch
       /\ \A t \in DOMAIN batch : t \in DOMAIN tasks \/ (t = r.tile /\ InRange(r.tile))
       /\ \A t \in DOMAIN tasks : ToSet(tasks[t]) \subseteq ToSet(batch[t])
       /\ \A t \in DOMAIN batch : \A d \in ToSet(batch[t]) :
            (t \in DOMAIN tasks /\ d \in ToSet(tasks[t])) \/ (t = r.tile /\ d = r.data)
       /\ InRange(r.tile) => r.tile \in DOMAIN batch /\ r.data \in ToSet(batch[r.tile])
  BY <1>1, <1>13, AddedShown
<1>16. r.tile \notin DOMAIN out
  <2>1. \A t \in DOMAIN out : TileBefore(t, r.tile)
    BY <1>1, <1>3, <1>12 DEF Past
  <2> QED
    BY <1>3, <2>1, Order
<1>17. \A t \in DOMAIN batch : t \in Tiles /\ t \in Place /\ t \notin DOMAIN out /\ InRange(t)
  BY <1>1, <1>13, <1>14, <1>16 DEF IInv, OnePlace
<1>18. /\ \A s, t : t \in Place /\ Passed(Readers, s, t) => Passed(rs, s, t)
       /\ \A s, t : t \in Place /\ FromReader(Readers, s, t) => FromReader(rs, s, t)
       /\ \A x, t : t \in Place /\ MadeOf(Readers, x, t) => MadeOf(rs, x, t)
  BY <1>1, <1>9, <1>10, StillPassed
<1>19. ASSUME NEW t \in DOMAIN batch
       PROVE  FoundIn(rs, batch[t], t)
  <2> SUFFICES ASSUME NEW d \in ToSet(batch[t]) \ {<<>>}
               PROVE  d = Content(d[1], t) /\ FromReader(rs, d[1], t)
    BY DEF FoundIn
  <2>1. CASE t \in DOMAIN tasks /\ d \in ToSet(tasks[t])
    <3>1. FoundIn(Readers, tasks[t], t)
      BY <2>1 DEF IInv, NoneForeign
    <3> QED
      BY <1>17, <1>18, <2>1, <3>1 DEF FoundIn
  <2>2. CASE t = r.tile /\ d = r.data
    <3>1. d = Content(r.source, t) /\ d[1] = r.source /\ Offers(request, r.source, t)
      BY <1>13, <2>2, Contents
    <3>2. Passed(rs, r.source, t)
      BY <1>5, <1>7, <2>2 DEF Passed
    <3> QED
      BY <1>1, <1>3, <3>1, <3>2 DEF FromReader
  <2> QED
    BY <1>14, <2>1, <2>2
<1>20. ASSUME NEW u \in Readers, NEW t \in Tiles, InRange(t), Bears(request, u.source, t),
              TileBefore(t, u.tile)
       PROVE  /\ t \in DOMAIN batch => Content(u.source, t) \in ToSet(batch[t])
              /\ t \in DOMAIN out => Kept(u.source, t) \subseteq out[t]
              /\ \/ t \in DOMAIN batch
                 \/ Past(rs, FALSE, t)
                      /\ (t \in DOMAIN out \/ TooBig(t) \/ Kept(u.source, t) = {})
  <2>1. EachHas(u.source, t) /\ Settled(u.source, t)
    BY <1>20 DEF IInv, NoneLost
  <2>2. t = r.tile => t \in DOMAIN tasks
    <3>1. Past(Readers, last, t) => TileBefore(t, r.tile)
      BY <1>1, <1>3 DEF Past
    <3> QED
      BY <1>3, <2>1, <3>1, Order DEF Settled
  <2>3. t \in DOMAIN batch => Content(u.source, t) \in ToSet(batch[t])
    BY <1>14, <2>1, <2>2 DEF EachHas
  <2> QED
    BY <1>1, <1>11, <1>14, <2>1, <2>3 DEF EachHas, Settled
<1>21. ASSUME NEW u \in rs, NEW t \in Tiles, InRange(t), Bears(request, u.source, t),
              TileBefore(t, u.tile)
       PROVE  /\ t \in DOMAIN batch => Content(u.source, t) \in ToSet(batch[t])
              /\ t \in DOMAIN out => Kept(u.source, t) \subseteq out[t]
              /\ \/ t \in DOMAIN batch
                 \/ Past(rs, FALSE, t)
                      /\ (t \in DOMAIN out \/ TooBig(t) \/ Kept(u.source, t) = {})
  <2>1. CASE u \in ToSet(others)
    <3>1. u \in Readers
      BY <1>2, <2>1
    <3> QED
      BY <1>20, <1>21, <3>1
  <2>2. CASE u = ahead
    <3>1. Bears(request, r.source, t) /\ (t = r.tile \/ TileBefore(t, r.tile))
      BY <1>5, <1>21, <2>2
    <3>2. CASE t = r.tile
      <4>1. r.data = Content(u.source, t) /\ InRange(r.tile)
        BY <1>5, <1>13, <1>21, <2>2, <3>1, <3>2
      <4>2. t \in DOMAIN batch /\ Content(u.source, t) \in ToSet(batch[t]) /\ t \notin DOMAIN out
        BY <1>14, <1>16, <3>2, <4>1
      <4> QED
        BY <4>2
    <3>3. CASE TileBefore(t, r.tile)
      BY <1>3, <1>5, <1>20, <1>21, <2>2, <3>1, <3>3
    <3> QED
      BY <3>1, <3>2, <3>3
  <2> QED
    BY <1>7, <2>1, <2>2
<1>22. ReadSoFar(rs, FALSE, batch)
  <2>1. \A t \in DOMAIN out : Past(rs, FALSE, t) /\ MadeOf(rs, out[t], t)
    BY <1>1, <1>11, <1>12, <1>18
  <2> QED
    BY <1>14, <1>17, <1>19, <1>21, <2>1 DEF ReadSoFar
<1>23. \A t \in DOMAIN batch : ~TileBefore(r.tile, t)
  BY <1>3, <1>14, Order DEF IInv, InOrder
<1>24. ASSUME NEW t \in DOMAIN batch, NEW u \in rs
       PROVE  ~TileBefore(u.tile, t)
  <2>1. CASE u = ahead
    BY <1>3, <1>5, <1>6, <1>17, <1>23, <2>1, Order
  <2>2. CASE u \in ToSet(others)
    <3>1. u \in Readers
      BY <1>2, <2>2
    <3>2. CASE t \in DOMAIN tasks
      BY <3>1, <3>2 DEF IInv, InOrder
    <3>3. CASE t = r.tile
      BY <1>2, <3>1, <3>3
    <3> QED
      BY <1>14, <3>2, <3>3
  <2> QED
    BY <1>7, <2>1, <2>2
<1>25. ASSUME Complete(r.tile, others), NEW t \in DOMAIN batch
       PROVE  Past(rs, FALSE, t)
  <2>1. TileBefore(t, ahead.tile)
    BY <1>3, <1>5, <1>6, <1>17, <1>23, Order
  <2>2. ASSUME NEW u \in ToSet(others)
        PROVE  TileBefore(t, u.tile)
    <3> DEFINE next == others[1]
    <3>1. others # <<>> /\ ~TileBefore(u.tile, next.tile) /\ u \in Readers
      BY <1>2
    <3>2. next \in ToSet(others)
      <4>1. 1 \in DOMAIN others
        BY <1>2, <3>1, LenProperties, EmptySeq
      <4> QED
        BY <4>1 DEF ToSet
    <3>3. next \in Readers /\ next.tile # r.tile
      BY <1>2, <1>25, <3>1, <3>2 DEF Complete
    <3>4. next.tile \in Place /\ u.tile \in Place /\ ~TileBefore(next.tile, r.tile)
      BY <1>1, <1>2, <3>1, <3>3
    <3> HIDE DEF next
    <3>5. TileBefore(r.tile, u.tile)
      BY <1>3, <3>1, <3>3, <3>4, Order
    <3> QED
      BY <1>3, <1>17, <1>23, <3>4, <3>5, Order
  <2> QED
    BY <1>7, <2>1, <2>2 DEF Past
<1> QED
  BY <1>7, <1>8, <1>9, <1>10, <1>22, <1>24, <1>25 DEF GoneOn

\* Each tile of the batch goes to one thread.
LEMMA DispatchShown ==
    ASSUME NEW batch, IsBatch(batch), Dispatch(batch)
    PROVE  /\ DOMAIN inputs' = Threads /\ DOMAIN outputs' = Threads
           /\ \A i \in Threads : IsBatch(inputs'[i]) /\ outputs'[i] = <<>>
           /\ \A i \in Threads : \A t \in DOMAIN inputs'[i] :
                t \in DOMAIN batch /\ inputs'[i][t] = batch[t]
           /\ \A t \in DOMAIN batch : \E i \in Threads : t \in DOMAIN inputs'[i]
           /\ \A i, j \in Threads, t \in Tiles :
                t \in DOMAIN inputs'[i] /\ t \in DOMAIN inputs'[j] => i = j
           /\ collected' = 0 /\ phase' = "joining" /\ tasks' = <<>>
<1> DEFINE rank(t) == Cardinality({u \in DOMAIN batch : TileBefore(u, t)})
           share(i) == {t \in DOMAIN batch : rank(t) % CPUs = i - 1}
<1>1. /\ inputs' = [i \in Threads |-> [t \in share(i) |-> batch[t]]]
      /\ outputs' = [i \in Threads |-> <<>>]
      /\ collected' = 0 /\ phase' = "joining" /\ tasks' = <<>>
  BY DEF Dispatch
<1>2. \A t : rank(t) \in Nat
  <2>1. IsFiniteSet(DOMAIN batch)
    BY TilesFinite, TileTypes, FS_Subset DEF IsBatch
  <2>2. \A t : {u \in DOMAIN batch : TileBefore(u, t)} \subseteq DOMAIN batch
    OBVIOUS
  <2> QED
    BY <2>1, <2>2, FS_Subset, FS_CardinalityType
<1>3. CPUs \in Nat \ {0} /\ Threads = 1..CPUs
  BY SizeAssumption DEF Threads
<1> HIDE DEF rank
<1>4. \A t \in DOMAIN batch : \E i \in Threads : t \in share(i)
  <2> TAKE t \in DOMAIN batch
  <2>1. PICK m \in 0..(CPUs - 1) : rank(t) % CPUs = m
    BY <1>2, <1>3
  <2>2. PICK i \in Threads : i - 1 = m
    <3>1. m + 1 \in Threads /\ m + 1 - 1 = m
      BY <1>3
    <3> QED
      BY <3>1
  <2>3. t \in share(i)
    BY <2>1, <2>2
  <2> HIDE DEF share
  <2> QED
    BY <2>3
<1>5. \A i, j \in Threads, t \in Tiles : t \in share(i) /\ t \in share(j) => i = j
  BY <1>3
<1>6. \A i \in Threads : share(i) \subseteq DOMAIN batch
  OBVIOUS
<1> HIDE DEF share
<1>7. \A i \in Threads : DOMAIN inputs'[i] = share(i) /\ \A t \in share(i) : inputs'[i][t] = batch[t]
  BY <1>1
<1>8. \A i \in Threads : IsBatch(inputs'[i])
  <2> TAKE i \in Threads
  <2>1. inputs'[i] = [t \in share(i) |-> batch[t]]
    BY <1>1
  <2>2. \A t \in DOMAIN batch : batch[t] \in Seq(Data) /\ t \in Tiles
    BY DEF IsBatch
  <2> QED
    BY <1>6, <2>1, <2>2 DEF IsBatch
<1>9. /\ DOMAIN inputs' = Threads /\ DOMAIN outputs' = Threads
      /\ \A i \in Threads : outputs'[i] = <<>>
  BY <1>1
<1> QED
  BY <1>1, <1>4, <1>5, <1>6, <1>7, <1>8, <1>9

LEMMA DispatchKeeps ==
    ASSUME IInv, phase = "reading", NEW batch, Dispatch(batch),
           request' = request, out' = out, layermaps' = layermaps, opened' = opened,
           readers' \in Seq(ReaderType), Len(readers') = Len(readers), Queue',
           last' \in BOOLEAN, last' => AllDone(readers'),
           NEW rs, rs = Readers', ReadSoFar(rs, last', batch),
           \A t \in DOMAIN batch : Past(rs, last', t)
    PROVE  IInv'
<1>1. /\ DOMAIN inputs' = Threads /\ DOMAIN outputs' = Threads
      /\ \A i \in Threads : IsBatch(inputs'[i]) /\ outputs'[i] = <<>>
      /\ \A i \in Threads : \A t \in DOMAIN inputs'[i] :
            t \in DOMAIN batch /\ inputs'[i][t] = batch[t]
      /\ \A t \in DOMAIN batch : \E i \in Threads : t \in DOMAIN inputs'[i]
      /\ \A i, j \in Threads, t \in Tiles :
            t \in DOMAIN inputs'[i] /\ t \in DOMAIN inputs'[j] => i = j
      /\ collected' = 0 /\ phase' = "joining" /\ tasks' = <<>>
  BY DispatchShown DEF ReadSoFar
<1>2. /\ Types /\ Phases /\ opened = Len(request.args)
      /\ CPUs \in Nat \ {0} /\ DOMAIN batch \subseteq Tiles /\ DOMAIN <<>> = {}
      /\ Threads \subseteq Nat \ {0}
  BY SizeAssumption, Empties DEF IInv, Phases, ReadSoFar, IsBatch, Threads
<1>3. Types'
  BY <1>1, <1>2, Empties DEF Types
<1>4. Phases'
  BY <1>1, <1>2 DEF Phases
<1>5. /\ \A i \in Threads : \A t : InInput(i, t)' => t \in DOMAIN batch /\ inputs'[i][t] = batch[t]
      /\ \A i \in Threads : \A t : ~InOutput(i, t)'
      /\ \A t : Given(t)' <=> t \in DOMAIN out \/ t \in DOMAIN batch
      /\ \A t : InRange(t)' <=> InRange(t)
      /\ \A t : t \notin DOMAIN tasks'
  <2>1. \A i \in Threads : \A t : InInput(i, t)' <=> t \in DOMAIN inputs'[i]
    BY DEF InInput
  <2>2. \A i \in Threads : \A t : ~InOutput(i, t)'
    BY <1>1, <1>2 DEF InOutput
  <2>3. \A t : Given(t)' <=> t \in DOMAIN out \/ t \in DOMAIN batch
    BY <1>1, <2>1, <2>2 DEF Given
  <2>4. \A t : InRange(t)' <=> InRange(t)
    BY DEF InRange
  <2> QED
    BY <1>1, <1>2, <2>1, <2>2, <2>3, <2>4
<1>6. OnePlace'
  <2>1. \A t \in DOMAIN out : InRange(t)
    BY Facts DEF IInv, OnePlace, Given
  <2>2. \A t \in DOMAIN batch : InRange(t) /\ t \notin DOMAIN out
    BY DEF ReadSoFar
  <2>3. \A i \in Threads, t \in Tiles : \A j \in Threads :
            i # j => ~(InInput(i, t)' /\ InInput(j, t)')
    BY <1>1 DEF InInput
  <2> QED
    BY <1>5, <2>1, <2>2, <2>3 DEF OnePlace
<1>7. InOrder'
  <2>1. \A t \in Tiles : t \in DOMAIN out \/ t \in DOMAIN batch => Past(rs, last', t)
    BY DEF ReadSoFar
  <2> QED
    BY <1>5, <2>1 DEF InOrder, Past
<1>8. ASSUME NEW r \in rs, NEW t \in Tiles, InRange(t), Bears(request, r.source, t), TileBefore(t, r.tile)
      PROVE  EachHas(r.source, t)' /\ Settled(r.source, t)'
  <2>1. /\ t \in DOMAIN batch => Content(r.source, t) \in ToSet(batch[t])
        /\ t \in DOMAIN out => Kept(r.source, t) \subseteq out[t]
        /\ \/ t \in DOMAIN batch
           \/ Past(rs, last', t)
                /\ (t \in DOMAIN out \/ TooBig(t) \/ Kept(r.source, t) = {})
    BY <1>8 DEF ReadSoFar
  <2>2. EachHas(r.source, t)'
    BY <1>5, <2>1 DEF EachHas
  <2>3. TooBig(t)' <=> TooBig(t)
    BY DEF TooBig
  <2>4. Past(rs, last', t) /\ (Given(t)' \/ TooBig(t)' \/ Kept(r.source, t) = {})
    BY <1>5, <2>1, <2>3
  <2>5. Settled(r.source, t)'
    BY <2>4 DEF Settled, Past
  <2> QED
    BY <2>2, <2>5
<1>9. NoneLost'
  BY <1>5, <1>8 DEF NoneLost
<1>10. NoneForeign'
  <2>1. \A t \in DOMAIN batch : FoundIn(rs, batch[t], t)
    BY DEF ReadSoFar
  <2>2. \A t \in DOMAIN out : MadeOf(rs, out[t], t)
    BY DEF ReadSoFar
  <2>3. \A s, t : FromReader(rs, s, t) <=> FromReader(Readers, s, t)'
    BY DEF FromReader
  <2>4. \A x, t : /\ FoundIn(rs, x, t) <=> FoundIn(Readers, x, t)'
                  /\ MadeOf(rs, x, t) <=> MadeOf(Readers, x, t)'
    BY <2>3 DEF FoundIn, MadeOf
  <2> QED
    BY <1>5, <2>1, <2>2, <2>4 DEF NoneForeign
<1>11. Sized'
  BY <1>5 DEF Sized
<1>12. ZoomsSeen'
  <2>1. \A i \in Threads : \A t : ~InOutput(i, t)
    BY <1>2 DEF Phases, InOutput
  <2> QED
    BY <1>1, <1>2, <2>1 DEF IInv, ZoomsSeen
<1>13. Claims'
  BY <1>1 DEF Claims
<1> QED
  BY <1>3, <1>4, <1>6, <1>7, <1>9, <1>10, <1>11, <1>12, <1>13 DEF IInv

-----------------------------------------------------------------------------
(* The steps. *)

LEMMA Begins == ASSUME Init PROVE IInv
<1>1. /\ request \in Requests /\ phase = "opening" /\ opened = 0 /\ readers = <<>> /\ last = FALSE
      /\ tasks = <<>> /\ out = <<>> /\ collected = 0 /\ DOMAIN <<>> = {}
      /\ DOMAIN inputs = Threads /\ DOMAIN outputs = Threads
      /\ \A i \in Threads : inputs[i] = <<>> /\ outputs[i] = <<>> /\ layermaps[i] = {}
      /\ layermaps \in [Threads -> SUBSET Zooms]
      /\ CPUs \in Nat \ {0} /\ Threads \subseteq Nat \ {0} /\ Readers = {}
  BY SizeAssumption, Empties DEF Init, Threads, Readers, ToSet
<1>2. 0 < Len(request.args) /\ Len(request.args) \in Nat
  BY <1>1, RequestAssumption
<1>3. Types
  <2>1. opened \in 0..Len(request.args) /\ collected \in 0..CPUs
    BY <1>1, <1>2
  <2>2. readers \in Seq(ReaderType) /\ Len(readers) = opened
    BY <1>1
  <2>3. IsBatch(tasks) /\ IsMade(out)
    BY <1>1, Empties
  <2>4. \A i \in Threads : IsBatch(inputs[i]) /\ IsMade(outputs[i])
    BY <1>1, Empties
  <2> QED
    BY <1>1, <2>1, <2>2, <2>3, <2>4 DEF Types
<1>4. Phases
  BY <1>1, <1>2 DEF Phases
<1>5. Queue
  BY <1>1 DEF Queue, Sorted
<1>6. \A t : ~Given(t) /\ t \notin DOMAIN tasks /\ t \notin DOMAIN out
  BY <1>1 DEF Given, InInput, InOutput
<1>7. \A i \in Threads : \A t : ~InInput(i, t) /\ ~InOutput(i, t)
  BY <1>6 DEF Given
<1>8. OnePlace /\ InOrder /\ NoneLost /\ NoneForeign /\ Sized
  BY <1>1, <1>6, <1>7 DEF OnePlace, InOrder, NoneLost, NoneForeign, Sized
<1>9. ZoomsSeen /\ Claims
  BY <1>1 DEF ZoomsSeen, Claims
<1> QED
  BY <1>3, <1>4, <1>5, <1>8, <1>9 DEF IInv

\* The queue with the reader of one more argument.
LEMMA OpenKeeps == ASSUME IInv, Open PROVE IInv'
<1>1. PICK ahead : /\ ahead = Advance(NewReader(request.args[opened + 1]))
                   /\ readers' = Enqueue(readers, ahead)
  BY DEF Open
<1>2. /\ phase = "opening" /\ opened' = opened + 1
      /\ phase' = IF opened' = Len(request.args) THEN "reading" ELSE "opening"
      /\ request' = request /\ last' = last /\ tasks' = tasks /\ inputs' = inputs
      /\ outputs' = outputs /\ layermaps' = layermaps /\ collected' = collected
      /\ out' = out /\ claimed' = claimed
  BY DEF Open
<1>3. Types /\ Phases /\ Queue
  BY DEF IInv
<1>4. /\ request \in Requests /\ opened \in Nat /\ Len(request.args) \in Nat
      /\ opened < Len(request.args) /\ collected = 0 /\ tasks = <<>> /\ out = <<>> /\ ~last
      /\ readers \in Seq(ReaderType) /\ Len(readers) = opened /\ Sorted(readers)
      /\ request.args \in Seq(Sources) /\ DOMAIN <<>> = {} /\ Threads \subseteq Nat
      /\ CPUs \in Nat
  BY <1>2, <1>3, RequestAssumption, Empties, SizeAssumption
  DEF Types, Phases, Queue, Sources, Threads
<1>5. \A i \in Threads : inputs[i] = <<>> /\ outputs[i] = <<>>
  BY <1>2, <1>3 DEF Phases
<1> DEFINE a == request.args[opened + 1]
<1>6. a \in Sources /\ a \in Args(request)
  BY <1>4 DEF Args, ToSet
<1>7. /\ ahead \in ReaderType /\ ReaderOK(request, ahead) /\ ahead.source = a
      /\ \A t \in Tiles : Bears(request, a, t) => ~TileBefore(t, ahead.tile)
  BY <1>1, <1>4, <1>6, OpenShown
<1>8. /\ readers' \in Seq(ReaderType) /\ Len(readers') = opened + 1
      /\ Sorted(readers') /\ Readers' = Readers \cup {ahead}
  <2> DEFINE n == Enqueue(readers, ahead)
  <2>1. /\ n \in Seq(ReaderType) /\ Len(n) = Len(readers) + 1
        /\ Sorted(n) /\ ToSet(n) = ToSet(readers) \cup {ahead}
    BY <1>4, <1>7, EnqueueShown
  <2> HIDE DEF n
  <2>2. readers' = n
    BY <1>1 DEF n
  <2> QED
    BY <2>1, <2>2, <1>4 DEF Readers
<1>9. Types'
  BY <1>2, <1>3, <1>4, <1>8 DEF Types
<1>10. Phases'
  <2>1. opened' \in Nat /\ (opened' # Len(request.args) => opened' < Len(request.args))
    BY <1>2, <1>4
  <2> QED
    BY <2>1, <1>2, <1>4, <1>5 DEF Phases
<1>11. \A r \in Readers', t \in Tiles : Bears(request, r.source, t) => ~TileBefore(t, r.tile)
  <2>1. \A r \in Readers, t \in Tiles : Bears(request, r.source, t) => ~TileBefore(t, r.tile)
    BY <1>2, <1>3 DEF Queue
  <2> QED
    BY <2>1, <1>7, <1>8
<1>12. Queue'
  <2>1. \A r \in Readers' : ReaderOK(request, r) /\ r.source \in Args(request)
    BY <1>3, <1>6, <1>7, <1>8 DEF Queue
  <2>2. \A n \in 1..(opened + 1) : \E r \in Readers' : r.source = request.args[n]
    <3> TAKE n \in 1..(opened + 1)
    <3>1. n \in 1..opened \/ n = opened + 1
      BY <1>4
    <3> QED
      BY <3>1, <1>3, <1>7, <1>8 DEF Queue
  <2>3. \A r \in Readers' : ReaderOK(request', r) /\ r.source \in Args(request')
    BY <2>1, <1>2
  <2>4. \A n \in 1..opened' : \E r \in Readers' : r.source = request.args[n]'
    BY <2>2, <1>2
  <2>5. \A r \in Readers', t \in Tiles : Bears(request', r.source, t) => ~TileBefore(t, r.tile)
    BY <1>2, <1>11
  <2> QED
    BY <2>3, <2>4, <2>5, <1>8 DEF Queue
<1>13. \A t : ~Given(t)' /\ t \notin DOMAIN tasks' /\ t \notin DOMAIN out'
  BY <1>2, <1>4, <1>5 DEF Given, InInput, InOutput
<1>14. \A i \in Threads : \A t : ~InInput(i, t)' /\ ~InOutput(i, t)'
  BY <1>13 DEF Given
<1>15. OnePlace' /\ InOrder' /\ NoneForeign' /\ Sized'
  BY <1>13, <1>14 DEF OnePlace, InOrder, NoneForeign, Sized
<1>16. NoneLost'
  <2>1. \A r \in Readers', t \in Tiles : ~(Bears(request', r.source, t) /\ TileBefore(t, r.tile))
    BY <1>2, <1>11
  <2> QED
    BY <2>1 DEF NoneLost
<1>17. ZoomsSeen'
  <2>1. \A i \in Threads : \A t : ~InOutput(i, t) /\ ~InOutput(i, t)'
    BY <1>2, <1>4, <1>5 DEF InOutput
  <2> QED
    BY <1>2, <2>1 DEF IInv, ZoomsSeen
<1>18. Claims'
  BY <1>2 DEF Claims
<1> QED
  BY <1>9, <1>10, <1>12, <1>15, <1>16, <1>17, <1>18 DEF IInv

LEMMA ReadKeeps == ASSUME IInv, Read PROVE IInv'
<1>1. PICK r, others, batch, ahead :
        /\ r = Head(readers) /\ others = Tail(readers)
        /\ batch = Added(tasks, r.tile, r.data)
        /\ ahead = Advance([r EXCEPT !.consumed = @ \/ r.over])
        /\ readers' = Enqueue(others, ahead)
        /\ IF Complete(r.tile, others) /\ Cardinality(DOMAIN batch) > BatchLimit
           THEN Dispatch(batch)
           ELSE tasks' = batch /\ UNCHANGED <<inputs, outputs, collected, phase>>
  BY DEF Read
<1>2. /\ phase = "reading" /\ ~AllDone(readers)
      /\ request' = request /\ opened' = opened /\ last' = last /\ layermaps' = layermaps
      /\ out' = out /\ claimed' = claimed
  BY DEF Read
<1>2a. PICK queue, rs : queue = Enqueue(others, ahead) /\ rs = ToSet(queue)
  OBVIOUS
<1>3. GoneOn(r, others, batch, queue, rs)
  <2>1. ReadFrom(r, others, batch, ahead, queue, rs)
    BY ONLY <1>1, <1>2, <1>2a DEF ReadFrom
  <2> QED
    BY ONLY IInv, <2>1, ReadGoesOn
<1>3a. /\ queue \in Seq(ReaderType) /\ Len(queue) = Len(readers) /\ Sorted(queue)
       /\ \A u \in rs : ReaderOK(request, u) /\ u.source \in Args(request)
       /\ FromTo(Readers, rs)
       /\ ReadSoFar(rs, FALSE, batch)
       /\ \A t \in DOMAIN batch, u \in rs : ~TileBefore(u.tile, t)
       /\ Complete(r.tile, others) => \A t \in DOMAIN batch : Past(rs, FALSE, t)
  BY <1>3 DEF GoneOn
<1>4. readers' = queue /\ Readers' = rs
  BY <1>1, <1>2a DEF Readers
<1>5. Types /\ Phases /\ Queue /\ ~last /\ last \in BOOLEAN /\ opened = Len(request.args)
  BY <1>2 DEF IInv, Phases, Types
<1>6. ASSUME phase' # "opening"
      PROVE  Queue'
  <2>1. \A n \in 1..opened : \E u \in rs : u.source = request.args[n]
    <3> TAKE n \in 1..opened
    <3>1. PICK v \in Readers : v.source = request.args[n]
      BY <1>5 DEF Queue
    <3> QED
      BY <3>1, <1>3a DEF FromTo
  <2>2. \A n \in 1..opened' : \E u \in Readers' : u.source = request.args[n]'
    BY <2>1, <1>2, <1>4
  <2>3. \A u \in Readers' : ReaderOK(request', u) /\ u.source \in Args(request')
    BY <1>2, <1>3a, <1>4
  <2> QED
    BY <2>2, <2>3, <1>3a, <1>4, <1>6 DEF Queue
<1>7. CASE Complete(r.tile, others) /\ Cardinality(DOMAIN batch) > BatchLimit
  <2>1. Dispatch(batch) /\ phase' = "joining"
    BY <1>1, <1>7 DEF Dispatch
  <2>2. Queue' /\ last' = FALSE
    BY <1>2, <1>5, <1>6, <2>1
  <2>3. /\ readers' \in Seq(ReaderType) /\ Len(readers') = Len(readers)
        /\ ReadSoFar(rs, last', batch)
        /\ \A t \in DOMAIN batch : Past(rs, last', t)
    BY <1>3a, <1>4, <1>7, <2>2
  <2> QED
    BY <1>2, <1>4, <2>1, <2>2, <2>3, DispatchKeeps
<1>8. CASE ~(Complete(r.tile, others) /\ Cardinality(DOMAIN batch) > BatchLimit)
  <2>1. /\ tasks' = batch /\ inputs' = inputs /\ outputs' = outputs
        /\ collected' = collected /\ phase' = "reading" /\ last' = FALSE
    BY <1>1, <1>2, <1>5, <1>8
  <2>2. /\ \A i \in Threads : inputs[i] = <<>> /\ (i > collected => outputs[i] = <<>>)
        /\ DOMAIN <<>> = {}
    BY <1>2, <1>5, Empties DEF Phases
  <2>3. /\ \A i \in Threads : \A t : ~InInput(i, t)' /\ ~InOutput(i, t)'
        /\ \A i \in Threads : \A t : ~InInput(i, t) /\ ~InOutput(i, t)
        /\ \A t : InRange(t)' <=> InRange(t)
    BY <2>1, <2>2, <1>2 DEF InInput, InOutput, InRange
  <2>4. \A t : Given(t)' <=> t \in DOMAIN out
    BY <1>2, <2>3 DEF Given
  <2>5. \A t \in DOMAIN out : Given(t)
    BY DEF Given
  <2>6. Types'
    BY <1>2, <1>3a, <1>4, <1>5, <2>1 DEF Types, ReadSoFar
  <2>7. Phases'
    BY <1>2, <1>5, <2>1 DEF Phases
  <2>8. Queue'
    BY <1>6, <2>1
  <2>9. OnePlace'
    <3>1. \A t \in DOMAIN out : t \in Tiles /\ InRange(t)
      BY <2>5, Facts DEF IInv, OnePlace
    <3>2. \A t \in DOMAIN batch : t \notin DOMAIN out /\ InRange(t)
      BY <1>3a DEF ReadSoFar
    <3> QED
      BY <2>1, <2>3, <2>4, <3>1, <3>2 DEF OnePlace
  <2>10. InOrder'
    <3>1. \A t \in DOMAIN out : Past(rs, FALSE, t)
      BY <1>3a DEF ReadSoFar
    <3>2. \A t : Past(Readers, last, t)' <=> Past(rs, FALSE, t)
      BY <1>4, <2>1 DEF Past
    <3> QED
      BY <1>3a, <1>4, <2>1, <2>4, <3>1, <3>2 DEF InOrder
  <2>11. NoneLost'
    <3> SUFFICES ASSUME NEW u \in rs, NEW t \in Tiles, InRange(t),
                        Bears(request, u.source, t), TileBefore(t, u.tile)
                 PROVE  EachHas(u.source, t)' /\ Settled(u.source, t)'
      BY <1>2, <1>4, <2>3 DEF NoneLost
    <3>1. /\ t \in DOMAIN batch => Content(u.source, t) \in ToSet(batch[t])
          /\ t \in DOMAIN out => Kept(u.source, t) \subseteq out[t]
          /\ \/ t \in DOMAIN batch
             \/ Past(rs, FALSE, t)
                  /\ (t \in DOMAIN out \/ TooBig(t) \/ Kept(u.source, t) = {})
      BY <1>3a DEF ReadSoFar
    <3>2. EachHas(u.source, t)'
      BY <1>2, <2>1, <2>3, <3>1 DEF EachHas
    <3>3. /\ TooBig(t)' <=> TooBig(t)
          /\ Past(Readers, last, t)' <=> Past(rs, FALSE, t)
      BY <1>2, <1>4, <2>1 DEF TooBig, Past
    <3>4. Settled(u.source, t)'
      BY <2>1, <2>4, <3>1, <3>3 DEF Settled
    <3> QED
      BY <3>2, <3>4
  <2>12. NoneForeign'
    <3>1. \A t \in DOMAIN batch : FoundIn(rs, batch[t], t)
      BY <1>3a DEF ReadSoFar
    <3>2. \A t \in DOMAIN out : MadeOf(rs, out[t], t)
      BY <1>3a DEF ReadSoFar
    <3>3. \A s, t : FromReader(rs, s, t) <=> FromReader(Readers, s, t)'
      BY <1>2, <1>4 DEF FromReader
    <3>4. \A x, t : /\ FoundIn(rs, x, t) <=> FoundIn(Readers, x, t)'
                    /\ MadeOf(rs, x, t) <=> MadeOf(Readers, x, t)'
      BY <3>3 DEF FoundIn, MadeOf
    <3> QED
      BY <1>2, <2>1, <2>3, <3>1, <3>2, <3>4 DEF NoneForeign
  <2>13. Sized'
    BY <2>3 DEF Sized
  <2>14. ZoomsSeen'
    BY <1>2, <2>1, <2>3 DEF IInv, ZoomsSeen
  <2>15. Claims'
    BY <2>1 DEF Claims
  <2> QED
    BY <2>6, <2>7, <2>8, <2>9, <2>10, <2>11, <2>12, <2>13, <2>14, <2>15 DEF IInv
<1> QED
  BY <1>7, <1>8

LEMMA ReadLastKeeps == ASSUME IInv, ReadLast PROVE IInv'
<1>1. /\ phase = "reading" /\ AllDone(readers) /\ Dispatch(tasks) /\ last' = TRUE
      /\ request' = request /\ opened' = opened /\ readers' = readers
      /\ layermaps' = layermaps /\ out' = out /\ claimed' = claimed
  BY DEF ReadLast
<1>2. /\ Types /\ Phases /\ Queue /\ OnePlace /\ InOrder /\ NoneLost /\ NoneForeign
      /\ DOMAIN <<>> = {} /\ readers \in Seq(ReaderType) /\ Readers' = Readers
      /\ IsBatch(tasks) /\ ~last
  BY <1>1, Empties DEF IInv, Readers, Types, Phases
<1>3. \A i \in Threads : \A t : ~InInput(i, t) /\ ~InOutput(i, t)
  BY <1>1, <1>2 DEF Phases, InInput, InOutput
<1>4. \A t : Given(t) <=> t \in DOMAIN out
  BY <1>3 DEF Given
<1>5. phase' = "joining"
  BY <1>1 DEF Dispatch
<1>6. Queue'
  <2>1. \A u \in Readers' : ReaderOK(request', u) /\ u.source \in Args(request')
    BY <1>1, <1>2 DEF Queue
  <2>2. \A n \in 1..opened' : \E u \in Readers' : u.source = request.args[n]'
    BY <1>1, <1>2 DEF Queue
  <2> QED
    BY <2>1, <2>2, <1>1, <1>2, <1>5 DEF Queue
<1> DEFINE rs == Readers
<1>7. \A t : Past(rs, TRUE, t)
  BY DEF Past
<1>8. ReadSoFar(rs, TRUE, tasks)
  <2>1. \A t \in DOMAIN tasks : t \notin DOMAIN out /\ InRange(t) /\ FoundIn(rs, tasks[t], t)
    <3>1. DOMAIN tasks \subseteq Tiles
      BY <1>2 DEF IsBatch
    <3> QED
      BY <3>1, <1>2, <1>4 DEF OnePlace, NoneForeign
  <2>2. \A t \in DOMAIN out : MadeOf(rs, out[t], t)
    BY <1>2 DEF NoneForeign
  <2>3. ASSUME NEW r \in rs, NEW t \in Tiles,
               InRange(t), Bears(request, r.source, t), TileBefore(t, r.tile)
        PROVE  /\ t \in DOMAIN tasks => Content(r.source, t) \in ToSet(tasks[t])
               /\ t \in DOMAIN out => Kept(r.source, t) \subseteq out[t]
               /\ \/ t \in DOMAIN tasks
                  \/ t \in DOMAIN out \/ TooBig(t) \/ Kept(r.source, t) = {}
    <3>1. EachHas(r.source, t) /\ Settled(r.source, t)
      BY <1>2, <2>3 DEF NoneLost
    <3> QED
      BY <3>1, <1>4 DEF EachHas, Settled
  <2> HIDE DEF rs
  <2> QED
    BY <2>1, <2>2, <2>3, <1>2, <1>7 DEF ReadSoFar
<1>9. rs = Readers'
  BY <1>2
<1> HIDE DEF rs
<1>10. ReadSoFar(rs, last', tasks) /\ \A t \in DOMAIN tasks : Past(rs, last', t)
  BY <1>1, <1>7, <1>8
<1>11. last' \in BOOLEAN /\ (last' => AllDone(readers'))
  BY <1>1
<1>12. readers' \in Seq(ReaderType) /\ Len(readers') = Len(readers)
  BY <1>1, <1>2
<1> QED
  BY <1>1, <1>6, <1>9, <1>10, <1>11, <1>12, DispatchKeeps

\* A thread takes its first tile and makes it, unless nothing is left of it or it is too
\* large.
JoinsTile(i, t, features) ==
    /\ InInput(i, t) /\ i > collected
    /\ MadeOf(Readers, features, t) /\ features \subseteq Feature
    /\ \A s \in Sources : Content(s, t) \in ToSet(inputs[i][t]) => Kept(s, t) \subseteq features
    /\ TooLarge(request, features) => TooBig(t)
    /\ DOMAIN inputs' = Threads /\ DOMAIN outputs' = Threads
    /\ layermaps' \in [Threads -> SUBSET Zooms]
    /\ \A j \in Threads : IsBatch(inputs'[j]) /\ IsMade(outputs'[j])
    /\ \A j \in Threads : \A u :
         /\ u \in DOMAIN inputs'[j] <=> u \in DOMAIN inputs[j] /\ ~(j = i /\ u = t)
         /\ u \in DOMAIN inputs'[j] => inputs'[j][u] = inputs[j][u]
    /\ \A j \in Threads : \A u :
         /\ u \in DOMAIN outputs'[j] <=>
               \/ u \in DOMAIN outputs[j]
               \/ j = i /\ u = t /\ features # {} /\ ~TooLarge(request, features)
         /\ u \in DOMAIN outputs[j] => outputs'[j][u] = outputs[j][u]
    /\ t \in DOMAIN outputs'[i] => outputs'[i][t] = features
    /\ \A j \in Threads : \A z :
         z \in layermaps'[j] <=>
           z \in layermaps[j] \/ (j = i /\ z = t[1] /\ features # {})

LEMMA JoinShown ==
    ASSUME IInv, NEW i \in Threads, Join(i)
    PROVE  \E t \in Tiles : \E features : JoinsTile(i, t, features)
<1>0. PICK t, features : t = FirstTile(DOMAIN inputs[i]) /\ features = Surviving(inputs[i][t])
  OBVIOUS
<1>1. /\ Types /\ Phases /\ OnePlace /\ NoneForeign /\ Tiles \subseteq Place
      /\ IsBatch(inputs[i]) /\ IsMade(outputs[i]) /\ collected \in Nat /\ i \in Nat
      /\ DOMAIN inputs = Threads /\ DOMAIN outputs = Threads
      /\ layermaps \in [Threads -> SUBSET Zooms] /\ request \in Requests
      /\ phase = "joining" /\ inputs[i] # <<>>
  <2>1. Threads \subseteq Nat
    BY SizeAssumption DEF Threads
  <2> QED
    BY <2>1, Facts DEF IInv, Types, Join
<1>2. DOMAIN inputs[i] \subseteq Tiles /\ DOMAIN inputs[i] # {} /\ IsFiniteSet(DOMAIN inputs[i])
  <2>1. DOMAIN inputs[i] \subseteq Tiles /\ DOMAIN inputs[i] # {}
    BY <1>1, Empties DEF IsBatch
  <2> QED
    BY <2>1, TilesFinite, TileTypes, FS_Subset
<1> DEFINE kept == ~(features = {} \/ TooLarge(request, features))
<1>3. t \in DOMAIN inputs[i] /\ t \in Tiles
  BY <1>0, <1>1, <1>2, FirstShown
<1>4. /\ layermaps' = [layermaps EXCEPT ![i] = IF features = {} THEN @ ELSE @ \cup {t[1]}]
      /\ outputs' = [outputs EXCEPT ![i] = IF ~kept THEN @ ELSE Beside(@, [u \in {t} |-> features])]
      /\ inputs' = [inputs EXCEPT ![i] = RestrictDomain(@, LAMBDA u : u # t)]
  BY <1>0 DEF Join
<1>5. InInput(i, t) /\ inputs[i][t] \in Seq(Data) /\ FoundIn(Readers, inputs[i][t], t)
  BY <1>1, <1>3 DEF InInput, IsBatch, NoneForeign
<1>6. /\ MadeOf(Readers, features, t) /\ features \subseteq Feature
      /\ \A s \in Sources : Content(s, t) \in ToSet(inputs[i][t]) => Kept(s, t) \subseteq features
  BY <1>0, <1>1, <1>3, <1>5, SurvivingShown
<1>7. TooLarge(request, features) => TooBig(t)
  BY <1>1, <1>3, <1>6, MayShown
<1>8. i > collected
  BY <1>1 DEF Phases
<1>9. t \notin DOMAIN outputs[i]
  BY <1>1, <1>3, <1>5, <1>8 DEF OnePlace, InOutput
<1> DEFINE left == RestrictDomain(inputs[i], LAMBDA u : u # t)
           more == IF ~kept THEN outputs[i] ELSE Beside(outputs[i], [u \in {t} |-> features])
<1>10. /\ inputs' = [inputs EXCEPT ![i] = left] /\ outputs' = [outputs EXCEPT ![i] = more]
  BY <1>4
<1>11. /\ DOMAIN left = DOMAIN inputs[i] \ {t}
       /\ \A u \in DOMAIN left : left[u] = inputs[i][u]
       /\ left = [u \in DOMAIN inputs[i] \ {t} |-> inputs[i][u]]
  BY DEF RestrictDomain, Restrict
<1>12. IsBatch(left)
  <2>1. \A u \in DOMAIN inputs[i] \ {t} : u \in Tiles /\ inputs[i][u] \in Seq(Data)
    BY <1>1 DEF IsBatch
  <2> HIDE DEF left
  <2> QED
    BY <1>11, <2>1 DEF IsBatch
<1>13. /\ DOMAIN more = DOMAIN outputs[i] \cup (IF kept THEN {t} ELSE {})
       /\ \A u \in DOMAIN outputs[i] : more[u] = outputs[i][u]
       /\ kept => more[t] = features
       /\ more = [u \in DOMAIN more |-> more[u]]
  <2>1. CASE kept
    <3>1. more = [u \in DOMAIN outputs[i] \cup {t} |->
                    IF u \in DOMAIN outputs[i] THEN outputs[i][u] ELSE features]
      BY <2>1 DEF Beside
    <3> HIDE DEF more, kept
    <3> QED
      BY <2>1, <3>1, <1>9
  <2>2. CASE ~kept
    <3>1. more = outputs[i]
      BY <2>2
    <3> HIDE DEF more, kept
    <3> QED
      BY <2>2, <3>1, <1>1 DEF IsMade
  <2> QED
    BY <2>1, <2>2
<1> HIDE DEF more, left
<1>14. IsMade(more)
  <2>1. \A u \in DOMAIN outputs[i] : u \in Tiles /\ outputs[i][u] \in SUBSET Feature
    BY <1>1 DEF IsMade
  <2>2. \A u \in DOMAIN more : u \in Tiles /\ more[u] \in SUBSET Feature
    BY <2>1, <1>3, <1>6, <1>13
  <2> QED
    BY <2>2, <1>13 DEF IsMade
<1>15. /\ DOMAIN inputs' = Threads /\ DOMAIN outputs' = Threads
       /\ inputs'[i] = left /\ outputs'[i] = more
       /\ \A j \in Threads : j # i => inputs'[j] = inputs[j] /\ outputs'[j] = outputs[j]
  BY <1>1, <1>10
<1>16. \A j \in Threads : IsBatch(inputs'[j]) /\ IsMade(outputs'[j])
  BY <1>1, <1>12, <1>14, <1>15 DEF Types
<1>17. \A j \in Threads : \A u :
          /\ u \in DOMAIN inputs'[j] <=> u \in DOMAIN inputs[j] /\ ~(j = i /\ u = t)
          /\ u \in DOMAIN inputs'[j] => inputs'[j][u] = inputs[j][u]
  BY <1>11, <1>15
<1>18. \A j \in Threads : \A u :
          /\ u \in DOMAIN outputs'[j] <=>
                \/ u \in DOMAIN outputs[j]
                \/ j = i /\ u = t /\ features # {} /\ ~TooLarge(request, features)
          /\ u \in DOMAIN outputs[j] => outputs'[j][u] = outputs[j][u]
  BY <1>13, <1>15
<1>19. t \in DOMAIN outputs'[i] => outputs'[i][t] = features
  BY <1>9, <1>13, <1>15
<1> DEFINE seen == IF features = {} THEN layermaps[i] ELSE layermaps[i] \cup {t[1]}
<1>20. layermaps' = [layermaps EXCEPT ![i] = seen]
  BY <1>4
<1>21. seen \in SUBSET Zooms /\ \A z : z \in seen <=> z \in layermaps[i] \/ (z = t[1] /\ features # {})
  BY <1>1, <1>3, TileTypes
<1> HIDE DEF seen
<1>22. /\ layermaps' \in [Threads -> SUBSET Zooms]
       /\ \A j \in Threads : \A z :
            z \in layermaps'[j] <=> z \in layermaps[j] \/ (j = i /\ z = t[1] /\ features # {})
  BY <1>1, <1>20, <1>21
<1>23. JoinsTile(i, t, features)
  BY <1>5, <1>6, <1>7, <1>8, <1>15, <1>16, <1>17, <1>18, <1>19, <1>22 DEF JoinsTile
<1> QED
  BY <1>3, <1>23

LEMMA JoinKeeps == ASSUME IInv, NEW i \in Threads, Join(i) PROVE IInv'
<1>1. PICK t \in Tiles : \E features : JoinsTile(i, t, features)
  BY JoinShown
<1>2. PICK features : JoinsTile(i, t, features)
  BY <1>1
<1> DEFINE kept == features # {} /\ ~TooLarge(request, features)
<1>3. /\ InInput(i, t) /\ i > collected
      /\ MadeOf(Readers, features, t) /\ features \subseteq Feature
      /\ \A s \in Sources : Content(s, t) \in ToSet(inputs[i][t]) => Kept(s, t) \subseteq features
      /\ TooLarge(request, features) => TooBig(t)
      /\ DOMAIN inputs' = Threads /\ DOMAIN outputs' = Threads
      /\ layermaps' \in [Threads -> SUBSET Zooms]
      /\ \A j \in Threads : IsBatch(inputs'[j]) /\ IsMade(outputs'[j])
      /\ \A j \in Threads : \A u :
           /\ u \in DOMAIN inputs'[j] <=> u \in DOMAIN inputs[j] /\ ~(j = i /\ u = t)
           /\ u \in DOMAIN inputs'[j] => inputs'[j][u] = inputs[j][u]
      /\ \A j \in Threads : \A u :
           /\ u \in DOMAIN outputs'[j] <=>
                 \/ u \in DOMAIN outputs[j]
                 \/ j = i /\ u = t /\ features # {} /\ ~TooLarge(request, features)
           /\ u \in DOMAIN outputs[j] => outputs'[j][u] = outputs[j][u]
      /\ t \in DOMAIN outputs'[i] => outputs'[i][t] = features
      /\ \A j \in Threads : \A z :
           z \in layermaps'[j] <=>
             z \in layermaps[j] \/ (j = i /\ z = t[1] /\ features # {})
  BY <1>2 DEF JoinsTile
<1>4. /\ request' = request /\ phase' = phase /\ opened' = opened /\ readers' = readers
      /\ last' = last /\ tasks' = tasks /\ collected' = collected /\ out' = out
      /\ phase = "joining" /\ Readers' = Readers
  BY DEF Join, Readers
<1>5. /\ Types /\ Phases /\ Queue /\ OnePlace /\ InOrder /\ NoneLost /\ NoneForeign
      /\ Sized /\ ZoomsSeen /\ DOMAIN <<>> = {}
  BY Empties DEF IInv
<1> HIDE DEF kept
<1>6. Types'
  BY <1>3, <1>4, <1>5 DEF Types
<1>7. Phases'
  <2>1. \A j \in Threads : j <= collected => inputs'[j] = <<>>
    <3> SUFFICES ASSUME NEW j \in Threads, j <= collected
                 PROVE  inputs'[j] = <<>>
      OBVIOUS
    <3>1. DOMAIN inputs'[j] = {} /\ IsBatch(inputs'[j])
      BY <1>3, <1>4, <1>5 DEF Phases
    <3> QED
      BY <3>1, Empties
  <2> QED
    BY <2>1, <1>4, <1>5 DEF Phases
<1>8. Queue'
  <2>1. \A u \in Readers' : ReaderOK(request', u) /\ u.source \in Args(request')
    BY <1>4, <1>5 DEF Queue
  <2>2. \A n \in 1..opened' : \E u \in Readers' : u.source = request.args[n]'
    BY <1>4, <1>5 DEF Queue
  <2> QED
    BY <2>1, <2>2, <1>4, <1>5 DEF Queue
\* The tile has gone from the input of i to its output, or is dropped.
<1>9. \A j \in Threads : \A u :
        /\ InInput(j, u)' <=> InInput(j, u) /\ ~(j = i /\ u = t)
        /\ InInput(j, u)' => inputs'[j][u] = inputs[j][u]
  BY <1>3 DEF InInput
<1>10. \A j \in Threads : \A u :
        /\ InOutput(j, u)' <=> InOutput(j, u) \/ (j = i /\ u = t /\ kept)
        /\ InOutput(j, u) => outputs'[j][u] = outputs[j][u]
  BY <1>3, <1>4 DEF InOutput, kept
<1>11. InOutput(i, t)' => outputs'[i][t] = features
  BY <1>3 DEF InOutput
<1>12. /\ \A j \in Threads : ~InOutput(j, t) /\ (j # i => ~InInput(j, t))
       /\ t \notin DOMAIN out /\ t \notin DOMAIN tasks /\ Given(t) /\ InRange(t)
  BY <1>3, <1>5 DEF OnePlace, Given
<1>13. /\ \A u : u # t => (Given(u)' <=> Given(u))
       /\ Given(t)' <=> kept
       /\ \A u : Given(u)' => Given(u)
  BY <1>4, <1>9, <1>10, <1>12 DEF Given
<1>14. /\ \A u : InRange(u)' <=> InRange(u)
       /\ \A u : TooBig(u)' <=> TooBig(u)
       /\ \A u : Past(Readers, last, u)' <=> Past(Readers, last, u)
  BY <1>4 DEF InRange, TooBig, Past
<1>15. OnePlace'
  <2>1. \A u \in DOMAIN tasks' : ~Given(u)'
    BY <1>4, <1>5, <1>13 DEF OnePlace
  <2>2. \A u \in Tiles : u \in DOMAIN tasks' \/ Given(u)' => InRange(u)'
    BY <1>4, <1>5, <1>13, <1>14 DEF OnePlace
  <2>3. ASSUME NEW j \in Threads, NEW u \in Tiles
        PROVE  /\ InInput(j, u)' \/ InOutput(j, u)' => u \notin DOMAIN out'
               /\ \A k \in Threads : InInput(j, u)' => ~InOutput(k, u)'
               /\ \A k \in Threads : j # k => ~(InInput(j, u)' /\ InInput(k, u)')
               /\ \A k \in Threads : j # k => ~(InOutput(j, u)' /\ InOutput(k, u)')
    BY <1>4, <1>5, <1>9, <1>10, <1>12 DEF OnePlace
  <2> QED
    BY <2>1, <2>2, <2>3 DEF OnePlace
<1>16. InOrder'
  BY <1>4, <1>5, <1>13, <1>14 DEF InOrder
<1>17. NoneLost'
  <2> SUFFICES ASSUME NEW r \in Readers, NEW u \in Tiles, InRange(u),
                      Bears(request, r.source, u), TileBefore(u, r.tile)
               PROVE  EachHas(r.source, u)' /\ Settled(r.source, u)'
    BY <1>4, <1>14 DEF NoneLost
  <2>1. EachHas(r.source, u) /\ Settled(r.source, u) /\ r.source \in Sources
    BY <1>5, Facts DEF NoneLost
  <2>2. u = t => Content(r.source, t) \in ToSet(inputs[i][t]) /\ Kept(r.source, t) \subseteq features
    BY <1>3, <2>1 DEF EachHas
  <2>3. EachHas(r.source, u)'
    <3>1. \A j \in Threads : InInput(j, u)' => Content(r.source, u) \in ToSet(inputs[j][u])'
      BY <1>9, <2>1 DEF EachHas
    <3>2. ASSUME NEW j \in Threads, InOutput(j, u)'
          PROVE  Kept(r.source, u) \subseteq outputs'[j][u]
      <4>1. CASE InOutput(j, u)
        BY <1>10, <2>1, <4>1 DEF EachHas
      <4>2. CASE ~InOutput(j, u)
        <5>1. j = i /\ u = t
          BY <1>10, <3>2, <4>2
        <5> QED
          BY <5>1, <3>2, <1>11, <2>2
      <4> QED
        BY <4>1, <4>2
    <3> QED
      BY <3>1, <3>2, <1>4, <2>1 DEF EachHas
  <2>4. Settled(r.source, u)'
    <3>1. CASE u = t
      <4>1. Past(Readers, last, t)
        BY <1>5, <1>3, <1>12 DEF InOrder
      <4>2. kept \/ TooBig(t) \/ Kept(r.source, t) = {}
        BY <1>3, <2>2, <3>1 DEF kept
      <4> QED
        BY <4>1, <4>2, <3>1, <1>13, <1>14 DEF Settled
    <3>2. CASE u # t
      BY <3>2, <2>1, <1>4, <1>13, <1>14 DEF Settled
    <3> QED
      BY <3>1, <3>2
  <2> QED
    BY <2>3, <2>4
<1>18. NoneForeign'
  <2>1. \A s, u : FromReader(Readers, s, u)' <=> FromReader(Readers, s, u)
    BY <1>4 DEF FromReader, Passed
  <2>2. PICK rs : rs = Readers
    OBVIOUS
  <2>3. \A x, u : /\ FoundIn(Readers, x, u)' <=> FoundIn(rs, x, u)
                  /\ FoundIn(Readers, x, u) <=> FoundIn(rs, x, u)
                  /\ MadeOf(Readers, x, u)' <=> MadeOf(rs, x, u)
                  /\ MadeOf(Readers, x, u) <=> MadeOf(rs, x, u)
    BY <2>2, <1>4 DEF FoundIn, MadeOf, FromReader
  <2>4. ASSUME NEW j \in Threads, NEW u \in Tiles, InOutput(j, u)'
        PROVE  MadeOf(rs, outputs'[j][u], u)
    <3>1. CASE InOutput(j, u)
      BY <1>5, <1>10, <2>3, <3>1 DEF NoneForeign
    <3>2. CASE ~InOutput(j, u)
      <4>1. j = i /\ u = t
        BY <1>10, <2>4, <3>2
      <4> QED
        BY <4>1, <2>4, <1>3, <1>11, <2>3
    <3> QED
      BY <3>1, <3>2
  <2>5. \A j \in Threads, u \in Tiles : InInput(j, u)' => FoundIn(rs, inputs'[j][u], u)
    BY <1>5, <1>9, <2>3 DEF NoneForeign
  <2>6. /\ \A u \in DOMAIN tasks' : FoundIn(rs, tasks'[u], u)
        /\ \A u \in DOMAIN out' : MadeOf(rs, out'[u], u)
    BY <1>4, <1>5, <2>3 DEF NoneForeign
  <2> QED
    BY <2>3, <2>4, <2>5, <2>6 DEF NoneForeign
<1>19. Sized'
  <2> SUFFICES ASSUME NEW j \in Threads, NEW u \in Tiles, InOutput(j, u)'
               PROVE  outputs'[j][u] # {} /\ ~TooLarge(request, outputs'[j][u])
    BY <1>4 DEF Sized
  <2>1. CASE InOutput(j, u)
    BY <1>5, <1>10, <2>1 DEF Sized
  <2>2. CASE ~InOutput(j, u)
    BY <2>2, <1>10, <1>11 DEF kept
  <2> QED
    BY <2>1, <2>2
<1>20. ZoomsSeen'
  <2>1. ASSUME NEW j \in Threads, NEW u \in DOMAIN outputs'[j]
        PROVE  u[1] \in layermaps'[j]
    BY <1>3, <1>5 DEF ZoomsSeen, kept
  <2>2. \A u \in DOMAIN out' : \E j \in Threads : u[1] \in layermaps'[j]
    BY <1>3, <1>4, <1>5 DEF ZoomsSeen
  <2>3. ASSUME ~request.limited, NEW j \in Threads, NEW z \in layermaps'[j]
        PROVE  \E u \in Tiles : u[1] = z /\ (u \in DOMAIN out' \/ \E k \in Threads : InOutput(k, u)')
    <3>1. CASE z \in layermaps[j]
      <4>1. PICK u \in Tiles : u[1] = z /\ (u \in DOMAIN out \/ \E k \in Threads : InOutput(k, u))
        BY <1>5, <2>3, <3>1 DEF ZoomsSeen
      <4> QED
        BY <4>1, <1>4, <1>10
    <3>2. CASE z \notin layermaps[j]
      <4>1. j = i /\ z = t[1] /\ features # {}
        BY <1>3, <2>3, <3>2
      <4>2. kept
        BY <4>1, <2>3 DEF kept, TooLarge
      <4> QED
        BY <4>1, <4>2, <1>3, <1>10
    <3> QED
      BY <3>1, <3>2
  <2> QED
    BY <2>1, <2>2, <2>3, <1>4 DEF ZoomsSeen
<1>21. Claims'
  BY <1>4 DEF Claims
<1> QED
  BY <1>6, <1>7, <1>8, <1>15, <1>16, <1>17, <1>18, <1>19, <1>20, <1>21 DEF IInv

\* What a thread has made is new, so that it can be written.
LEMMA CollectShown ==
    ASSUME IInv, Collect
    PROVE  /\ collected \in Nat /\ CPUs \in Nat /\ collected < CPUs
           /\ collected + 1 \in Threads /\ collected' = collected + 1
           /\ inputs[collected + 1] = <<>>
           /\ DOMAIN out' = DOMAIN out \cup DOMAIN outputs[collected + 1] /\ IsMade(out')
           /\ \A t \in DOMAIN out : t \notin DOMAIN outputs[collected + 1] /\ out'[t] = out[t]
           /\ \A t \in DOMAIN outputs[collected + 1] : out'[t] = outputs[collected + 1][t]
           /\ phase' = IF collected + 1 < CPUs THEN "joining" ELSE IF last THEN "joined" ELSE "reading"
<1> DEFINE n == collected + 1
           made == outputs[n]
<1>1. /\ phase = "joining" /\ collected' = n /\ inputs[n] = <<>>
      /\ out' = IF DOMAIN made \cap DOMAIN out # {} THEN out ELSE Beside(out, made)
      /\ phase' = IF DOMAIN made \cap DOMAIN out # {} THEN "failed"
                  ELSE IF n < CPUs THEN "joining" ELSE IF last THEN "joined" ELSE "reading"
  BY DEF Collect
<1>2. collected \in Nat /\ CPUs \in Nat /\ collected < CPUs /\ n > collected /\ n \in Threads
  BY <1>1, Facts DEF IInv, Phases, Threads
<1>3. IsMade(made) /\ IsMade(out)
  BY <1>2 DEF IInv, Types
<1>4. \A t \in DOMAIN made : t \notin DOMAIN out
  <2>1. \A t \in DOMAIN made : t \in Tiles /\ InOutput(n, t)
    BY <1>2, <1>3 DEF InOutput, IsMade
  <2> QED
    BY <2>1, <1>2 DEF IInv, OnePlace
<1> HIDE DEF n, made
<1>5. out' = Beside(out, made) /\ DOMAIN made \cap DOMAIN out = {}
  BY <1>1, <1>4
<1>6. /\ DOMAIN out' = DOMAIN out \cup DOMAIN made
      /\ \A t \in DOMAIN out : t \notin DOMAIN made /\ out'[t] = out[t]
      /\ \A t \in DOMAIN made : out'[t] = made[t]
      /\ out' = [t \in DOMAIN out' |-> out'[t]]
  BY <1>4, <1>5 DEF Beside
<1>7. \A t \in DOMAIN out' : t \in Tiles /\ out'[t] \in SUBSET Feature
  BY <1>3, <1>6 DEF IsMade
<1>8. IsMade(out')
  BY <1>6, <1>7 DEF IsMade
<1> QED
  BY <1>1, <1>2, <1>5, <1>6, <1>8 DEF n, made

LEMMA CollectKeeps == ASSUME IInv, Collect PROVE IInv'
<1> DEFINE n == collected + 1
<1>1. /\ collected \in Nat /\ CPUs \in Nat /\ collected < CPUs
      /\ n \in Threads /\ collected' = n /\ n \in Nat /\ n > collected /\ n <= CPUs
      /\ inputs[n] = <<>>
      /\ DOMAIN out' = DOMAIN out \cup DOMAIN outputs[n] /\ IsMade(out')
      /\ \A t \in DOMAIN out : t \notin DOMAIN outputs[n] /\ out'[t] = out[t]
      /\ \A t \in DOMAIN outputs[n] : out'[t] = outputs[n][t]
      /\ phase' = IF n < CPUs THEN "joining" ELSE IF last THEN "joined" ELSE "reading"
  BY CollectShown
<1>2. /\ request' = request /\ opened' = opened /\ readers' = readers /\ last' = last
      /\ tasks' = tasks /\ inputs' = inputs /\ outputs' = outputs
      /\ layermaps' = layermaps /\ phase = "joining" /\ Readers' = Readers
  BY DEF Collect, Readers
<1>3. /\ Types /\ Phases /\ Queue /\ OnePlace /\ InOrder /\ NoneLost /\ NoneForeign
      /\ Sized /\ ZoomsSeen /\ DOMAIN <<>> = {}
  BY Empties DEF IInv
<1> HIDE DEF n
<1>4. Threads \subseteq Nat /\ \A i \in Threads : (i > collected <=> i > n \/ i = n) /\ i <= CPUs
  BY <1>1 DEF Threads, n
<1>5. Types'
  <2>1. phase' \in {"joining", "joined", "reading"} /\ n \in 0..CPUs
    BY <1>1
  <2> QED
    BY <1>1, <1>2, <1>3, <2>1 DEF Types
<1>6. Phases'
  <2>1. \A i \in Threads : i <= n => inputs[i] = <<>>
    BY <1>1, <1>3, <1>4 DEF Phases
  <2>2. phase' # "joining" => n = CPUs
    BY <1>1
  <2>3. ASSUME phase' # "joining", NEW i \in Threads
        PROVE  inputs[i] = <<>> /\ ~(i > n)
    <3>1. i \in Nat /\ i <= n /\ n \in Nat
      BY <2>2, <2>3, <1>1, <1>4
    <3> QED
      BY <2>1, <3>1
  <2>4. phase' \in {"joining", "joined", "reading"} /\ phase' # "opening"
    BY <1>1
  <2>5. phase' \in {"joined", "done"} => last /\ n = CPUs
    BY <1>1
  <2>6. phase' \in {"opening", "reading"} => ~last
    BY <1>1
  <2>7. phase' = "joining" => n < CPUs
    BY <1>1
  <2> QED
    BY <1>1, <1>2, <1>3, <2>1, <2>3, <2>4, <2>5, <2>6, <2>7 DEF Phases
<1>7. Queue'
  <2>1. \A u \in Readers' : ReaderOK(request', u) /\ u.source \in Args(request')
    BY <1>2, <1>3 DEF Queue
  <2>2. \A m \in 1..opened' : \E u \in Readers' : u.source = request.args[m]'
    BY <1>2, <1>3 DEF Queue
  <2>3. phase' # "opening"
    BY <1>1
  <2> QED
    BY <2>1, <2>2, <2>3, <1>2, <1>3 DEF Queue
\* What the thread had made is now in the tileset.
<1>8. /\ \A i \in Threads : \A t : InInput(i, t)' <=> InInput(i, t)
      /\ \A i \in Threads : \A t : InOutput(i, t)' <=> InOutput(i, t) /\ i # n
      /\ \A t : t \in DOMAIN out' <=> t \in DOMAIN out \/ InOutput(n, t)
      /\ \A t : t \in DOMAIN out => out'[t] = out[t]
      /\ \A t : InOutput(n, t) => out'[t] = outputs[n][t]
  BY <1>1, <1>2, <1>4 DEF InInput, InOutput
<1>9. \A t : Given(t)' <=> Given(t)
  BY <1>1, <1>8 DEF Given
<1>10. /\ \A u : InRange(u)' <=> InRange(u)
       /\ \A u : TooBig(u)' <=> TooBig(u)
       /\ \A u : Past(Readers, last, u)' <=> Past(Readers, last, u)
  BY <1>2 DEF InRange, TooBig, Past
<1>11. OnePlace'
  <2>1. ASSUME NEW i \in Threads, NEW t \in Tiles
        PROVE  /\ InInput(i, t)' \/ InOutput(i, t)' => t \notin DOMAIN out'
               /\ \A j \in Threads : InInput(i, t)' => ~InOutput(j, t)'
               /\ \A j \in Threads : i # j => ~(InInput(i, t)' /\ InInput(j, t)')
               /\ \A j \in Threads : i # j => ~(InOutput(i, t)' /\ InOutput(j, t)')
    BY <1>1, <1>3, <1>8 DEF OnePlace
  <2>2. \A t \in DOMAIN tasks' : ~Given(t)'
    BY <1>2, <1>3, <1>9 DEF OnePlace
  <2>3. \A t \in Tiles : t \in DOMAIN tasks' \/ Given(t)' => InRange(t)'
    BY <1>2, <1>3, <1>9, <1>10 DEF OnePlace
  <2> QED
    BY <2>1, <2>2, <2>3 DEF OnePlace
<1>12. InOrder'
  BY <1>2, <1>3, <1>9, <1>10 DEF InOrder
<1>13. NoneLost'
  <2> SUFFICES ASSUME NEW r \in Readers, NEW t \in Tiles, InRange(t),
                      Bears(request, r.source, t), TileBefore(t, r.tile)
               PROVE  EachHas(r.source, t)' /\ Settled(r.source, t)'
    BY <1>2, <1>10 DEF NoneLost
  <2>1. EachHas(r.source, t) /\ Settled(r.source, t)
    BY <1>3 DEF NoneLost
  <2>2. EachHas(r.source, t)'
    BY <2>1, <1>1, <1>2, <1>8 DEF EachHas
  <2>3. Settled(r.source, t)'
    BY <2>1, <1>2, <1>9, <1>10 DEF Settled
  <2> QED
    BY <2>2, <2>3
<1>14. NoneForeign'
  <2>1. PICK rs : rs = Readers
    OBVIOUS
  <2>2. \A x, u : /\ FoundIn(Readers, x, u)' <=> FoundIn(rs, x, u)
                  /\ FoundIn(Readers, x, u) <=> FoundIn(rs, x, u)
                  /\ MadeOf(Readers, x, u)' <=> MadeOf(rs, x, u)
                  /\ MadeOf(Readers, x, u) <=> MadeOf(rs, x, u)
    BY <2>1, <1>2 DEF FoundIn, MadeOf, FromReader
  <2>3. /\ \A t \in DOMAIN tasks' : FoundIn(rs, tasks'[t], t)
        /\ \A i \in Threads, t \in Tiles :
            /\ InInput(i, t)' => FoundIn(rs, inputs'[i][t], t)
            /\ InOutput(i, t)' => MadeOf(rs, outputs'[i][t], t)
    BY <1>2, <1>3, <1>8, <2>2 DEF NoneForeign
  <2>4. ASSUME NEW t \in DOMAIN out'
        PROVE  MadeOf(rs, out'[t], t)
    <3>1. CASE t \in DOMAIN out
      BY <1>3, <1>8, <2>2, <3>1 DEF NoneForeign
    <3>2. CASE InOutput(n, t)
      <4>1. t \in Tiles
        BY <1>1 DEF IsMade
      <4> QED
        BY <1>1, <1>3, <1>8, <2>2, <3>2, <4>1 DEF NoneForeign
    <3> QED
      BY <3>1, <3>2, <1>8
  <2> QED
    BY <2>2, <2>3, <2>4 DEF NoneForeign
<1>15. Sized'
  BY <1>2, <1>3, <1>8 DEF Sized
<1>16. ZoomsSeen'
  <2>1. \A i \in Threads : \A t \in DOMAIN outputs'[i] : t[1] \in layermaps'[i]
    BY <1>2, <1>3 DEF ZoomsSeen
  <2>2. \A t \in DOMAIN out' : \E i \in Threads : t[1] \in layermaps'[i]
    BY <1>1, <1>2, <1>3 DEF ZoomsSeen
  <2>3. ASSUME ~request.limited, NEW i \in Threads, NEW z \in layermaps[i]
        PROVE  \E t \in Tiles : t[1] = z /\ (t \in DOMAIN out' \/ \E j \in Threads : InOutput(j, t)')
    <3>1. PICK t \in Tiles : t[1] = z /\ (t \in DOMAIN out \/ \E j \in Threads : InOutput(j, t))
      BY <1>3, <2>3 DEF ZoomsSeen
    <3> QED
      BY <3>1, <1>8
  <2> QED
    BY <2>1, <2>2, <2>3, <1>2 DEF ZoomsSeen
<1>17. Claims'
  BY <1>1 DEF Claims
<1> QED
  BY <1>5, <1>6, <1>7, <1>11, <1>12, <1>13, <1>14, <1>15, <1>16, <1>17 DEF IInv

LEMMA FinishKeeps == ASSUME IInv, Finish PROVE IInv'
<1>1. /\ phase = "joined" /\ phase' = "done" /\ request' = request /\ opened' = opened
      /\ readers' = readers /\ last' = last /\ tasks' = tasks /\ inputs' = inputs
      /\ outputs' = outputs /\ layermaps' = layermaps /\ collected' = collected /\ out' = out
      /\ claimed' = IF MergedZooms(layermaps) = {} THEN <<>>
                    ELSE <<Min(MergedZooms(layermaps)), Max(MergedZooms(layermaps))>>
  BY DEF Finish
<1>2. /\ Readers' = Readers
      /\ \A i \in Threads : \A t : /\ InInput(i, t)' <=> InInput(i, t)
                                   /\ InOutput(i, t)' <=> InOutput(i, t)
      /\ \A t : InRange(t)' <=> InRange(t)
  BY <1>1 DEF Readers, InInput, InOutput, InRange
<1>3. \A t : Given(t)' <=> Given(t)
  BY <1>1, <1>2 DEF Given
<1>4. Types' /\ Phases'
  BY <1>1 DEF IInv, Types, Phases
<1>5. Queue'
  BY <1>1, <1>2 DEF IInv, Queue
<1>6. OnePlace' /\ InOrder'
  BY <1>1, <1>2, <1>3 DEF IInv, OnePlace, InOrder, Past
<1>7. NoneLost'
  BY <1>1, <1>2, <1>3 DEF IInv, NoneLost, EachHas, Settled, Past, TooBig
<1>8. NoneForeign' /\ Sized'
  BY <1>1, <1>2 DEF IInv, NoneForeign, FoundIn, MadeOf, FromReader, Sized
<1>9. ZoomsSeen'
  BY <1>1, <1>2 DEF IInv, ZoomsSeen
<1>10. Claims'
  BY <1>1 DEF Claims, MergedZooms
<1> QED
  BY <1>4, <1>5, <1>6, <1>7, <1>8, <1>9, <1>10 DEF IInv

LEMMA StutterKeeps == ASSUME IInv, UNCHANGED vars PROVE IInv'
<1>1. /\ request' = request /\ phase' = phase /\ opened' = opened
      /\ readers' = readers /\ last' = last /\ tasks' = tasks /\ inputs' = inputs
      /\ outputs' = outputs /\ layermaps' = layermaps /\ collected' = collected /\ out' = out
      /\ claimed' = claimed
  BY DEF vars
<1>2. /\ Readers' = Readers
      /\ \A i \in Threads : \A t : /\ InInput(i, t)' <=> InInput(i, t)
                                   /\ InOutput(i, t)' <=> InOutput(i, t)
      /\ \A t : InRange(t)' <=> InRange(t)
  BY <1>1 DEF Readers, InInput, InOutput, InRange
<1>3. \A t : Given(t)' <=> Given(t)
  BY <1>1, <1>2 DEF Given
<1>4. Types' /\ Phases'
  BY <1>1 DEF IInv, Types, Phases
<1>5. Queue'
  BY <1>1, <1>2 DEF IInv, Queue
<1>6. OnePlace' /\ InOrder'
  BY <1>1, <1>2, <1>3 DEF IInv, OnePlace, InOrder, Past
<1>7. NoneLost'
  BY <1>1, <1>2, <1>3 DEF IInv, NoneLost, EachHas, Settled, Past, TooBig
<1>8. NoneForeign' /\ Sized'
  BY <1>1, <1>2 DEF IInv, NoneForeign, FoundIn, MadeOf, FromReader, Sized
<1>9. ZoomsSeen' /\ Claims'
  BY <1>1, <1>2 DEF IInv, ZoomsSeen, Claims
<1> QED
  BY <1>4, <1>5, <1>6, <1>7, <1>8, <1>9 DEF IInv

LEMMA StepKeeps == ASSUME IInv, [Next]_vars PROVE IInv'
<1>1. CASE Open
  BY <1>1, OpenKeeps
<1>2. CASE Read
  BY <1>2, ReadKeeps
<1>3. CASE ReadLast
  BY <1>3, ReadLastKeeps
<1>4. CASE Collect
  BY <1>4, CollectKeeps
<1>5. CASE Finish
  BY <1>5, FinishKeeps
<1>6. ASSUME NEW i \in Threads, Join(i)
      PROVE  IInv'
  BY <1>6, JoinKeeps
<1>7. CASE UNCHANGED vars
  BY <1>7, StutterKeeps
<1> QED
  BY <1>1, <1>2, <1>3, <1>4, <1>5, <1>6, <1>7 DEF Next

\* The inductive invariant.
THEOREM Invariance == Spec => []IInv
<1>1. Init => IInv
  BY Begins
<1>2. IInv /\ [Next]_vars => IInv'
  BY StepKeeps
<1> QED
  BY <1>1, <1>2, PTL DEF Spec

-----------------------------------------------------------------------------
(* What it shows. *)

\* Where all the readers are past a tile, those of the tilesets that have it are.
LEMMA MustPassed ==
    ASSUME IInv, phase # "opening", NEW t \in Tiles, Past(Readers, last, t), InRange(t),
           NEW s \in Args(request), t \in Readable(request, s), Kept(s, t) # {}
    PROVE  s \in Sources /\ EachHas(s, t) /\ Settled(s, t)
<1>1. /\ Types /\ Phases /\ Queue /\ NoneLost /\ request \in Requests
      /\ request.args \in Seq(Sources) /\ opened = Len(request.args)
  BY RequestAssumption DEF IInv, Types, Phases, Sources
<1>2. PICK n \in 1..opened : s = request.args[n]
  BY <1>1 DEF Args, ToSet
<1>3. PICK r \in Readers : r.source = s
  BY <1>1, <1>2 DEF Queue
<1>4. s \in Sources /\ r \in ReaderType /\ ReaderOK(request, r)
  BY <1>1, <1>3, Facts DEF Queue
<1>5. TileBefore(t, r.tile)
  <2>1. CASE last
    <3>1. AllDone(readers)
      BY <1>1, <2>1 DEF Phases
    <3>2. r.done
      BY <3>1 DEF AllDone, Readers, ToSet
    <3> QED
      BY <1>1, <1>3, <1>4, <3>2, ReaderShown
  <2>2. CASE ~last
    BY <2>2 DEF Past
  <2> QED
    BY <2>1, <2>2
<1>6. Bears(request, s, t)
  BY <1>4, Contents DEF Bears, Offers
<1> QED
  BY <1>1, <1>3, <1>4, <1>5, <1>6 DEF NoneLost

\* What a thread has made of a tile, or the tileset has of it, is all there is.
LEMMA WholeShown ==
    ASSUME IInv, phase # "opening", NEW t, NEW features,
           \/ t \in DOMAIN out /\ features = out[t]
           \/ \E i \in Threads : InOutput(i, t) /\ features = outputs[i][t]
    PROVE  /\ t \in Tiles /\ Must(request, t) \subseteq features
           /\ features \subseteq May(request, t)
<1>1. Given(t) /\ t \in Tiles /\ request \in Requests
  <2>1. Given(t)
    BY DEF Given
  <2> QED
    BY <2>1, Facts
<1>2. Past(Readers, last, t) /\ InRange(t)
  BY <1>1 DEF IInv, OnePlace, InOrder
<1>3. ASSUME NEW f \in Must(request, t)
      PROVE  f \in features
  <2>1. PICK s \in Args(request) : t \in Readable(request, s) /\ f \in Kept(s, t)
    BY DEF Must, Kept
  <2>2. EachHas(s, t)
    BY <1>1, <1>2, <2>1, MustPassed
  <2> QED
    BY <2>1, <2>2 DEF EachHas
<1>4. MadeOf(Readers, features, t)
  BY <1>1 DEF IInv, NoneForeign
<1> QED
  BY <1>1, <1>3, <1>4, MayShown

LEMMA InitJoins == Init => Abstract!Init
<1> DEFINE none == [tile \in {} |-> {}]
<1>1. IsMade(none) /\ DOMAIN none = {}
  BY DEF IsMade
<1>2. none = <<>>
  BY <1>1, Empties
<1> QED
  BY <1>2 DEF Init, Abstract!Init

LEMMA CollectWrites == ASSUME IInv, Collect PROVE Abstract!Write
<1> DEFINE n == collected + 1
<1>1. /\ collected \in Nat /\ n \in Threads
      /\ DOMAIN out' = DOMAIN out \cup DOMAIN outputs[n]
      /\ \A t \in DOMAIN out : out'[t] = out[t]
      /\ \A t \in DOMAIN outputs[n] : out'[t] = outputs[n][t]
      /\ phase' \in {"joining", "joined", "reading"}
  BY CollectShown
<1>2. phase = "joining" /\ request' = request /\ n > collected
  BY <1>1 DEF Collect
<1>3. ASSUME NEW t \in DOMAIN out' \ DOMAIN out
      PROVE  Abstract!Whole(t, out'[t])
  <2>1. t \in DOMAIN outputs[n] /\ out'[t] = outputs[n][t] /\ InOutput(n, t)
    BY <1>1, <1>2 DEF InOutput
  <2>2. t \in Tiles /\ Must(request, t) \subseteq outputs[n][t] /\ outputs[n][t] \subseteq May(request, t)
    BY <1>1, <1>2, <2>1, WholeShown
  <2>3. outputs[n][t] # {} /\ ~TooLarge(request, outputs[n][t])
    BY <1>1, <2>1, <2>2 DEF IInv, Sized
  <2> QED
    BY <2>1, <2>2, <2>3 DEF Abstract!Whole, Fits
<1> QED
  BY <1>1, <1>2, <1>3 DEF Abstract!Write

LEMMA FinishFinishes == ASSUME IInv, Finish PROVE Abstract!Finish
<1>1. /\ phase = "joined" /\ phase' = "done" /\ request' = request /\ out' = out
      /\ last /\ tasks = <<>> /\ DOMAIN <<>> = {}
  BY Empties DEF Finish, IInv, Phases
<1>2. ASSUME NEW t \in Wanted(request)
      PROVE  t \in DOMAIN out \/ TooBig(t)
  <2>1. t \in Tiles /\ InRange(t) /\ Must(request, t) # {}
    BY DEF Wanted, InRange
  <2>2. PICK s \in Args(request) : t \in Readable(request, s) /\ Kept(s, t) # {}
    BY <2>1 DEF Must, Kept
  <2>3. Settled(s, t)
    BY <1>1, <2>1, <2>2, MustPassed DEF Past
  <2>4. Given(t) <=> t \in DOMAIN out
    BY <1>1, Facts
  <2> QED
    BY <1>1, <2>2, <2>3, <2>4 DEF Settled
<1>3. \A t : TooBig(t) <=> Abstract!TooBig(t)
  BY DEF TooBig, Abstract!TooBig, Fits
<1> QED
  BY <1>1, <1>2, <1>3 DEF Abstract!Finish

LEMMA StepJoins == ASSUME IInv, [Next]_vars PROVE [Abstract!Next]_Abstract!vars
<1>1. CASE Open
  BY <1>1 DEF Open, Abstract!vars
<1>2. CASE Read
  BY <1>2 DEF Read, Dispatch, Abstract!vars
<1>3. CASE ReadLast
  BY <1>3 DEF ReadLast, Dispatch, Abstract!vars
<1>4. CASE Collect
  BY <1>4, CollectWrites DEF Abstract!Next
<1>5. CASE Finish
  BY <1>5, FinishFinishes DEF Abstract!Next
<1>6. ASSUME NEW i \in Threads, Join(i)
      PROVE  UNCHANGED Abstract!vars
  BY <1>6 DEF Join, Abstract!vars
<1>7. CASE UNCHANGED vars
  BY <1>7 DEF vars, Abstract!vars
<1> QED
  BY <1>1, <1>2, <1>3, <1>4, <1>5, <1>6, <1>7 DEF Next

\* tile-join writes each tile once and with all the features that its sources have there,
\* whatever the batches, the queue of readers and the threads that it went through, and
\* when it is done no tile is missing but those that are too large.
THEOREM JoinsWhole == Spec => Joins
<1>1. Init => Abstract!Init
  BY InitJoins
<1>2. IInv /\ [Next]_vars => [Abstract!Next]_Abstract!vars
  BY StepJoins
<1> QED
  BY <1>1, <1>2, Invariance, PTL DEF Spec, Joins, Abstract!Spec

\* tile-join does not fail: no thread makes a tile that has already been written, which the
\* database would refuse.
THEOREM NeverFails == Spec => [](phase # "failed")
<1>1. IInv => phase # "failed"
  BY DEF IInv, Types
<1> QED
  BY <1>1, Invariance, PTL

LEMMA ZoomsClaimed ==
    ASSUME IInv, phase = "done"
    PROVE  /\ \A t \in DOMAIN out : claimed # <<>> /\ t[1] \in claimed[1]..claimed[2]
           /\ claimed # <<>> /\ ~request.limited => ToSet(claimed) \subseteq {t[1] : t \in DOMAIN out}
<1> DEFINE V == MergedZooms(layermaps)
<1>1. /\ Types /\ Phases /\ ZoomsSeen /\ Deepest \in Nat
      /\ claimed = IF V = {} THEN <<>> ELSE <<Min(V), Max(V)>>
  BY SizeAssumption DEF IInv, Claims
<1>2. /\ V \subseteq 0..Deepest
      /\ \A z : z \in V <=> \E i \in Threads : z \in layermaps[i]
  BY <1>1 DEF Types, MergedZooms, Zooms
<1> HIDE DEF V
<1>3. V # {} => /\ claimed = <<Min(V), Max(V)>> /\ claimed # <<>>
                /\ Min(V) \in V /\ Max(V) \in V
                /\ \A z \in V : z \in Min(V)..Max(V)
  <2> SUFFICES ASSUME V # {}
               PROVE  /\ claimed = <<Min(V), Max(V)>> /\ claimed # <<>>
                      /\ Min(V) \in V /\ Max(V) \in V
                      /\ \A z \in V : z \in Min(V)..Max(V)
    OBVIOUS
  <2>1. V \in SUBSET Nat /\ V \in SUBSET (-1..Deepest)
    BY <1>1, <1>2
  <2>2. Min(V) \in V /\ \A z \in V : Min(V) <= z
    BY <2>1, MinShown
  <2>3. Max(V) \in V /\ \A z \in V : z <= Max(V)
    BY <1>1, <2>1, MaxShown
  <2>4. PICK lo \in V, hi \in V : lo = Min(V) /\ hi = Max(V)
    BY <2>2, <2>3
  <2>5. \A z \in V : z \in lo..hi
    BY <2>1, <2>2, <2>3, <2>4
  <2>6. claimed = <<Min(V), Max(V)>> /\ claimed # <<>>
    BY <1>1
  <2> QED
    BY <2>4, <2>5, <2>6
<1>4. ASSUME NEW t \in DOMAIN out
      PROVE  claimed # <<>> /\ t[1] \in claimed[1]..claimed[2]
  <2>1. t[1] \in V
    BY <1>1, <1>2 DEF ZoomsSeen
  <2> QED
    BY <1>3, <2>1
<1>5. ASSUME claimed # <<>>, ~request.limited, NEW z \in ToSet(claimed)
      PROVE  z \in {t[1] : t \in DOMAIN out}
  <2>1. V # {}
    BY <1>1, <1>5
  <2>2. z \in V
    BY <1>3, <1>5, <2>1 DEF ToSet
  <2>3. PICK i \in Threads : z \in layermaps[i]
    BY <1>2, <2>2
  <2>4. PICK t \in Tiles : t[1] = z /\ (t \in DOMAIN out \/ \E j \in Threads : InOutput(j, t))
    BY <1>1, <1>5, <2>3 DEF ZoomsSeen
  <2>5. \A j \in Threads : ~InOutput(j, t)
    BY <1>1, SizeAssumption DEF Phases, InOutput, Threads
  <2> QED
    BY <2>4, <2>5
<1> QED
  BY <1>4, <1>5

LEMMA Typed == ASSUME IInv PROVE TypeOK
<1>1. \A i \in DOMAIN readers : readers[i].tile[1] \in Zooms \cup {Deepest + 1, NoTile}
  <2> TAKE i \in DOMAIN readers
  <2>1. readers[i] \in Readers /\ request \in Requests
    BY Facts DEF Readers, ToSet
  <2>2. readers[i] \in ReaderType /\ ReaderOK(request, readers[i])
    BY <2>1, Facts DEF IInv, Queue
  <2> QED
    BY <2>1, <2>2, ReaderShown
<1>2. DOMAIN tasks \subseteq Tiles /\ DOMAIN out \subseteq Tiles
  BY Facts
<1> QED
  BY <1>1, <1>2 DEF IInv, Types, TypeOK

\* The zooms of the metadata, which are merged from what the threads have seen, have all
\* the tiles between them, and are zooms of tiles unless some were left out.
THEOREM ClaimsCovered == Spec => []ClaimsCover
<1>1. IInv => ClaimsCover
  BY Typed, ZoomsClaimed DEF ClaimsCover
<1> QED
  BY <1>1, Invariance, PTL

LEMMA ScaledShown ==
    ASSUME NEW q \in Requests, NEW s \in Sources, NEW t \in Tiles, ScaledUp(q, s, t) # {}, q.overzoom
    PROVE  Filled(q, s, t) /\ Bears(q, s, t)
<1>1. /\ LastZoom(q, s) >= 0 /\ t[1] > LastZoom(q, s)
      /\ Ancestor(t, LastZoom(q, s)) \in Readable(q, s)
  BY DEF ScaledUp
<1>2. Kept(s, t) # {}
  BY <1>1 DEF ScaledUp, Kept
<1>3. Content(s, t) # <<>>
  BY <1>2, Contents
<1> QED
  BY <1>1, <1>3 DEF Filled, Bears, Offers, Scales

LEMMA WholeZooms == ASSUME IInv PROVE OverzoomWhole
<1> SUFFICES ASSUME phase = "done", ~request.limited, NEW s \in Args(request), NEW z \in Zooms,
                    NEW u \in TilesAt(z), ScaledUp(request, s, u) # {}, Has(s, u),
                    NEW t \in TilesAt(z), ScaledUp(request, s, t) # {}
             PROVE  Has(s, t)
  BY DEF OverzoomWhole
<1>1. /\ Types /\ Phases /\ Queue /\ OnePlace /\ NoneLost /\ NoneForeign
      /\ request \in Requests /\ last /\ AllDone(readers) /\ tasks = <<>> /\ DOMAIN <<>> = {}
  BY Empties DEF IInv, Types, Phases
<1>2. t \in Tiles /\ u \in Tiles /\ t[1] = z /\ u[1] = z /\ t \in Place /\ u \in Place
  BY TileTypes
<1>3. s \in Sources
  BY <1>1, RequestAssumption DEF Args, ToSet, Sources
\* A reader of s has passed the tile that the tileset has.
<1>4. PICK c : u \in DOMAIN out /\ <<s, c>> \in out[u]
  BY DEF Has
<1>5. FromReader(Readers, s, u)
  BY <1>1, <1>4 DEF NoneForeign, MadeOf
<1>6. PICK r \in Readers : r.source = s /\ TileBefore(u, r.tile)
  BY <1>5 DEF FromReader, Passed
<1>7. r \in ReaderType /\ r.tile \in Place /\ ReaderOK(request, r) /\ r.done /\ ~r.consumed
  BY <1>1, Facts DEF Queue, AllDone, Readers, ToSet
<1>8. request.overzoom
  <2>1. u \notin Readable(request, s)
    <3>1. u[1] > LastZoom(request, s) /\ u[1] \in Nat /\ LastZoom(request, s) \in Int
      BY <1>1, <1>2, <1>3, Offered DEF ScaledUp, Place
    <3>2. \A v \in Readable(request, s) : v[1] <= LastZoom(request, s)
      BY <1>1, <1>3, Offered
    <3> QED
      BY <3>1, <3>2
  <2> QED
    BY <1>5, <2>1 DEF FromReader, Offers, Scales
\* It then has gone through that zoom, since it has stopped where nothing was used.
<1>9. u[1] < r.tile[1]
  <2>1. Filled(request, r.source, u)
    BY <1>1, <1>2, <1>3, <1>6, <1>8, ScaledShown
  <2> QED
    BY <1>1, <1>2, <1>6, <1>7, <2>1, ReaderShown
<1>10. TileBefore(t, r.tile)
  BY <1>2, <1>7, <1>9, Order
<1>11. Bears(request, r.source, t)
  BY <1>1, <1>2, <1>3, <1>6, <1>8, ScaledShown
<1>12. InRange(t)
  <2>1. InRange(u)
    BY <1>1, <1>2, <1>4 DEF OnePlace, Given
  <2> QED
    BY <1>2, <2>1 DEF InRange
<1>13. EachHas(s, t) /\ Settled(s, t)
  BY <1>1, <1>2, <1>6, <1>10, <1>11, <1>12 DEF NoneLost
<1>14. Kept(s, t) # {}
  BY DEF ScaledUp, Kept
<1>15. ~TooBig(t)
  BY DEF TooBig, TooLarge
<1>16. t \in DOMAIN out
  <2>1. Given(t) <=> t \in DOMAIN out
    BY Facts
  <2> QED
    BY <1>1, <1>13, <1>14, <1>15, <2>1 DEF Settled
<1>17. Kept(s, t) \subseteq out[t]
  BY <1>13, <1>16 DEF EachHas
<1>18. \A f \in Kept(s, t) : \E d \in TilesAt(Deepest) : f = <<s, d>>
  BY DEF Kept, CellsIn
<1> QED
  BY <1>14, <1>16, <1>17, <1>18 DEF Has

\* A tileset is scaled up to a zoom in all of its tiles or in none.
THEOREM OverzoomsWhole == Spec => []OverzoomWhole
<1>1. IInv => OverzoomWhole
  BY WholeZooms
<1> QED
  BY <1>1, Invariance, PTL

=============================================================================
