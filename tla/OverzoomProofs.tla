--------------------------- MODULE OverzoomProofs ---------------------------
(***************************************************************************)
(* What holds of every overzoomed tile, whatever the tiles, features,      *)
(* identifiers and requests are: the children that are found are the right *)
(* ones; of every cluster there is the first kept feature and no other;    *)
(* the order of the input is restored; and no layer has an identifier      *)
(* twice, nor lacks one that was not taken.                                *)
(*                                                                         *)
(* The values that accumulation makes are of no concern: each step has     *)
(* some set V of them for which everything that is read, pending and made  *)
(* is a feature.                                                           *)
(***************************************************************************)
EXTENDS Overzoom, FiniteSetTheorems, TLAPS

FeaturesOf(V) == [
    key : Nat, id : Ids \cup {NoId}, at : SUBSET (0..4), first : BOOLEAN, seq : Nat,
    fate : {"kept", "filtered", "simplified"}, values : V]

LayersOf(V) == [name : Names, features : Seq(FeaturesOf(V))]

Shaped(V) ==
    /\ sources \in Seq(LayersOf(V))
    /\ out \in Seq(LayersOf(V))
    /\ pending \in Seq(FeaturesOf(V))

Shapes == \E V : Shaped(V)

Counters ==
    /\ request \in AllRequests
    /\ layer \in Nat \ {0} /\ along \in Nat
    /\ seen \in [Names -> SUBSET Ids]

\* The layer that is being read has its layer in the tile.
HasLayer ==
    layer \in DOMAIN sources /\ along # 0 => \E k \in DOMAIN out : out[k].name = Name

OneLayerEach(t) == \A k, m \in DOMAIN t : t[k].name = t[m].name => k = m

\* What is in a layer has been seen.
Remembered(t, s) ==
    \A k \in DOMAIN t : \A i \in DOMAIN t[k].features :
        t[k].features[i].id = NoId \/ t[k].features[i].id \in s[t[k].name]

\* What holds of a tile and what was seen, d being whether there are to be no duplicates.
Good(d, t, s) == OneLayerEach(t) /\ (d => Remembered(t, s) /\ Once(t))

IInv == Shapes /\ Counters /\ HasLayer /\ Good(request.dedup, out, seen)

-----------------------------------------------------------------------------
(* Sequences of features. *)

\* With more values there are more features and layers.
LEMMA Wider ==
    ASSUME NEW V, NEW W, V \subseteq W
    PROVE  /\ FeaturesOf(V) \subseteq FeaturesOf(W)
           /\ \A s \in Seq(FeaturesOf(V)) : s \in Seq(FeaturesOf(W))
           /\ \A t \in Seq(LayersOf(V)) : t \in Seq(LayersOf(W))
<1>1. FeaturesOf(V) \subseteq FeaturesOf(W)
  BY DEF FeaturesOf
<1>2. \A s \in Seq(FeaturesOf(V)) : s \in Seq(FeaturesOf(W))
  BY <1>1
<1>3. LayersOf(V) \subseteq LayersOf(W)
  BY <1>2 DEF LayersOf
<1>4. QED
  BY <1>1, <1>2, <1>3

LEMMA Fields ==
    ASSUME NEW V, NEW t \in Seq(LayersOf(V)), NEW k \in DOMAIN t
    PROVE  /\ t[k].name \in Names /\ t[k].features \in Seq(FeaturesOf(V))
           /\ \A i \in DOMAIN t[k].features : t[k].features[i] \in FeaturesOf(V)
<1>1. t[k] \in LayersOf(V)
  OBVIOUS
<1>2. t[k].name \in Names /\ t[k].features \in Seq(FeaturesOf(V))
  BY <1>1 DEF LayersOf
<1>3. QED
  BY <1>2

LEMMA FeatureFields ==
    ASSUME NEW V, NEW f \in FeaturesOf(V)
    PROVE  f.id \in Ids \cup {NoId} /\ f.seq \in Nat
BY DEF FeaturesOf

\* A tile with other features in one of its layers.
Replaced(t, k, fs) == [t EXCEPT ![k].features = fs]

LEMMA WithFeatures ==
    ASSUME NEW V, NEW t \in Seq(LayersOf(V)), NEW k \in DOMAIN t, NEW fs \in Seq(FeaturesOf(V))
    PROVE  /\ Replaced(t, k, fs) \in Seq(LayersOf(V))
           /\ DOMAIN Replaced(t, k, fs) = DOMAIN t
           /\ \A m \in DOMAIN t : /\ Replaced(t, k, fs)[m].name = t[m].name
                                  /\ m # k => Replaced(t, k, fs)[m] = t[m]
           /\ Replaced(t, k, fs)[k].features = fs
<1> DEFINE u == Replaced(t, k, fs)
<1>1. t[k] \in LayersOf(V)
  OBVIOUS
<1>2. [t[k] EXCEPT !.features = fs] \in LayersOf(V)
  BY <1>1 DEF LayersOf
<1>3. u = [t EXCEPT ![k] = [t[k] EXCEPT !.features = fs]]
  BY DEF Replaced
<1>4. [t[k] EXCEPT !.features = fs].name = t[k].name /\ [t[k] EXCEPT !.features = fs].features = fs
  BY <1>1 DEF LayersOf
<1>5. u \in Seq(LayersOf(V)) /\ DOMAIN u = DOMAIN t
  BY <1>2, <1>3
<1>6. u[k] = [t[k] EXCEPT !.features = fs] /\ \A m \in DOMAIN t : m # k => u[m] = t[m]
  BY <1>3
<1>7. QED
  BY <1>4, <1>5, <1>6

\* As much has been seen of every layer, or more.
MoreSeen(s, r) == \A n \in Names : s[n] \subseteq r[n]

LEMMA SeenMore ==
    ASSUME NEW V, NEW t \in Seq(LayersOf(V)), NEW d, NEW s, NEW r, Good(d, t, s), MoreSeen(s, r)
    PROVE  Good(d, t, r)
<1>1. \A k \in DOMAIN t : t[k].name \in Names
  BY Fields
<1>2. QED
  BY <1>1 DEF Good, Remembered, MoreSeen

\* An identifier that is new to its layer may be added to it.
LEMMA AddNew ==
    ASSUME NEW V, NEW t \in Seq(LayersOf(V)), NEW k \in DOMAIN t, NEW f \in FeaturesOf(V),
           NEW d, NEW s, NEW r, Good(d, t, s), MoreSeen(s, r),
           d /\ f.id # NoId => f.id \notin s[t[k].name] /\ f.id \in r[t[k].name],
           NEW u, u = Replaced(t, k, Append(t[k].features, f))
    PROVE  /\ u \in Seq(LayersOf(V))
           /\ DOMAIN u = DOMAIN t /\ \A m \in DOMAIN t : u[m].name = t[m].name
           /\ Good(d, u, r)
<1> DEFINE fs == t[k].features
<1>1. fs \in Seq(FeaturesOf(V)) /\ \A m \in DOMAIN t : t[m].name \in Names
  BY Fields
<1>2. Append(fs, f) \in Seq(FeaturesOf(V))
  BY <1>1
<1>3. /\ DOMAIN Append(fs, f) = 1..(Len(fs) + 1) /\ DOMAIN fs = 1..Len(fs) /\ Len(fs) \in Nat
      /\ Append(fs, f)[Len(fs) + 1] = f
      /\ \A i \in DOMAIN fs : Append(fs, f)[i] = fs[i]
  BY <1>1
<1>4. /\ u \in Seq(LayersOf(V))
      /\ DOMAIN u = DOMAIN t
      /\ \A m \in DOMAIN t : u[m].name = t[m].name /\ (m # k => u[m] = t[m])
      /\ u[k].features = Append(fs, f)
  <2>1. PICK gs : gs = Append(fs, f)
    OBVIOUS
  <2>2. gs \in Seq(FeaturesOf(V)) /\ u = Replaced(t, k, gs)
    BY <1>2, <2>1
  <2>3. /\ u \in Seq(LayersOf(V))
        /\ DOMAIN u = DOMAIN t
        /\ \A m \in DOMAIN t : u[m].name = t[m].name /\ (m # k => u[m] = t[m])
        /\ u[k].features = gs
    BY <2>2, WithFeatures
  <2>4. QED
    BY <2>1, <2>3
<1>a. ASSUME d
      PROVE  /\ Remembered(t, s) /\ Once(t)
             /\ f.id # NoId => f.id \notin s[t[k].name] /\ f.id \in r[t[k].name]
  BY <1>a DEF Good
<1>5. OneLayerEach(u)
  BY <1>4 DEF Good, OneLayerEach
<1>6. ASSUME d PROVE Remembered(u, r)
  <2> SUFFICES ASSUME NEW m \in DOMAIN u, NEW i \in DOMAIN u[m].features
               PROVE  u[m].features[i].id = NoId \/ u[m].features[i].id \in r[u[m].name]
    BY DEF Remembered
  <2>1. CASE m # k \/ i \in DOMAIN fs
    <3>1. i \in DOMAIN t[m].features /\ u[m].features[i] = t[m].features[i]
      BY <1>3, <1>4, <2>1
    <3>2. QED
      BY <1>1, <1>4, <1>6, <1>a, <3>1 DEF Remembered, MoreSeen
  <2>2. CASE m = k /\ i = Len(fs) + 1
    BY <1>3, <1>4, <1>6, <1>a, <2>2
  <2>3. QED
    BY <1>3, <1>4, <2>1, <2>2
<1>7. ASSUME d PROVE Once(u)
  <2> SUFFICES ASSUME NEW m \in DOMAIN u, NEW n \in DOMAIN u,
                      NEW i \in DOMAIN u[m].features, NEW j \in DOMAIN u[n].features,
                      u[m].name = u[n].name, <<m, i>> # <<n, j>>
               PROVE  u[m].features[i].id = NoId \/ u[m].features[i].id # u[n].features[j].id
    BY DEF Once
  <2>1. m = n /\ i # j
    BY <1>5 DEF OneLayerEach
  <2>2. CASE m # k \/ (i \in DOMAIN fs /\ j \in DOMAIN fs)
    <3>1. /\ i \in DOMAIN t[m].features /\ u[m].features[i] = t[m].features[i]
          /\ j \in DOMAIN t[m].features /\ u[m].features[j] = t[m].features[j]
      BY <1>3, <1>4, <2>1, <2>2
    <3>2. t[m].features[i].id = NoId \/ t[m].features[i].id # t[m].features[j].id
      BY <1>4, <1>7, <2>1, <3>1 DEF Good, Once
    <3>3. QED
      BY <2>1, <3>1, <3>2
  <2>3. CASE m = k /\ i \in DOMAIN fs /\ j = Len(fs) + 1
    <3>1. fs[i].id = NoId \/ fs[i].id \in s[t[k].name]
      BY <1>7, <1>a, <2>3 DEF Remembered
    <3>2. QED
      BY <1>3, <1>4, <1>7, <1>a, <2>1, <2>3, <3>1
  <2>4. CASE m = k /\ i = Len(fs) + 1 /\ j \in DOMAIN fs
    <3>1. fs[j].id = NoId \/ fs[j].id \in s[t[k].name]
      BY <1>7, <1>a, <2>4 DEF Remembered
    <3>2. QED
      BY <1>3, <1>4, <1>7, <1>a, <2>1, <2>4, <3>1
  <2>5. CASE m = k
    <3>1. i \in 1..(Len(fs) + 1) /\ j \in 1..(Len(fs) + 1)
      BY <1>3, <1>4, <2>1, <2>5
    <3>2. (i \in DOMAIN fs \/ i = Len(fs) + 1) /\ (j \in DOMAIN fs \/ j = Len(fs) + 1)
      BY <1>3, <3>1
    <3>3. QED
      BY <2>1, <2>2, <2>3, <2>4, <2>5, <3>2
  <2>6. QED
    BY <2>2, <2>5
<1>8. QED
  BY <1>4, <1>5, <1>6, <1>7 DEF Good

\* A layer in another order has the same identifiers, each once.
LEMMA AddOrdered ==
    ASSUME NEW V, NEW t \in Seq(LayersOf(V)), NEW k \in DOMAIN t, NEW fs \in Restored(t[k].features),
           NEW d, NEW s, Good(d, t, s), NEW u, u = Replaced(t, k, fs)
    PROVE  u \in Seq(LayersOf(V)) /\ Good(d, u, s)
<1> DEFINE gs == t[k].features
<1>1. gs \in Seq(FeaturesOf(V)) /\ \A i \in DOMAIN gs : gs[i] \in FeaturesOf(V)
  BY Fields
<1>2. PICK p \in [DOMAIN gs -> DOMAIN gs] :
        /\ fs = [i \in DOMAIN gs |-> gs[p[i]]]
        /\ \A i, j \in DOMAIN gs : i < j => Precedes(gs[p[i]], p[i], gs[p[j]], p[j])
  BY DEF Restored
<1>3. \A i, j \in DOMAIN gs : i # j => p[i] # p[j]
  <2> SUFFICES ASSUME NEW i \in DOMAIN gs, NEW j \in DOMAIN gs, i < j PROVE p[i] # p[j]
    BY <1>1
  <2>1. gs[p[i]].seq \in Nat /\ p[i] \in Nat
    <3>1. p[i] \in DOMAIN gs /\ DOMAIN gs = 1..Len(gs)
      BY <1>1
    <3>2. QED
      BY <1>1, <3>1, FeatureFields
  <2>2. ~ Precedes(gs[p[i]], p[i], gs[p[i]], p[i])
    BY <2>1 DEF Precedes
  <2>3. QED
    BY <1>2, <2>2
<1>4. fs \in Seq(FeaturesOf(V)) /\ DOMAIN fs = DOMAIN gs /\ \A i \in DOMAIN gs : fs[i] = gs[p[i]]
  <2>1. DOMAIN gs = 1..Len(gs) /\ Len(gs) \in Nat
    BY <1>1
  <2>2. \A i \in DOMAIN gs : gs[p[i]] \in FeaturesOf(V)
    BY <1>1
  <2>3. QED
    BY <1>2, <2>1, <2>2
<1>5. /\ u \in Seq(LayersOf(V))
      /\ DOMAIN u = DOMAIN t
      /\ \A m \in DOMAIN t : u[m].name = t[m].name /\ (m # k => u[m] = t[m])
      /\ u[k].features = fs
  BY <1>4, WithFeatures
<1>6. OneLayerEach(u)
  BY <1>5 DEF Good, OneLayerEach
<1>7. ASSUME d PROVE Remembered(u, s)
  <2> SUFFICES ASSUME NEW m \in DOMAIN u, NEW i \in DOMAIN u[m].features
               PROVE  u[m].features[i].id = NoId \/ u[m].features[i].id \in s[u[m].name]
    BY DEF Remembered
  <2>1. PICK j \in DOMAIN t[m].features : u[m].features[i] = t[m].features[j]
    <3>1. CASE m = k
      <4>1. i \in DOMAIN gs /\ p[i] \in DOMAIN gs /\ u[m].features[i] = gs[p[i]]
        BY <1>4, <1>5, <3>1
      <4>2. QED
        BY <3>1, <4>1
    <3>2. CASE m # k
      BY <1>5, <3>2
    <3>3. QED
      BY <3>1, <3>2
  <2>2. QED
    BY <1>5, <1>7, <2>1 DEF Good, Remembered
<1>8. ASSUME d PROVE Once(u)
  <2> SUFFICES ASSUME NEW m \in DOMAIN u, NEW n \in DOMAIN u,
                      NEW i \in DOMAIN u[m].features, NEW j \in DOMAIN u[n].features,
                      u[m].name = u[n].name, <<m, i>> # <<n, j>>
               PROVE  u[m].features[i].id = NoId \/ u[m].features[i].id # u[n].features[j].id
    BY DEF Once
  <2>1. m = n /\ i # j
    BY <1>6 DEF OneLayerEach
  <2>2. PICK a \in DOMAIN t[m].features, b \in DOMAIN t[m].features :
          a # b /\ u[m].features[i] = t[m].features[a] /\ u[m].features[j] = t[m].features[b]
    <3>1. CASE m = k
      <4>1. /\ i \in DOMAIN gs /\ p[i] \in DOMAIN gs /\ u[m].features[i] = gs[p[i]]
            /\ j \in DOMAIN gs /\ p[j] \in DOMAIN gs /\ u[m].features[j] = gs[p[j]]
        <5>1. i \in DOMAIN gs /\ j \in DOMAIN gs
          BY <1>4, <1>5, <2>1, <3>1
        <5>2. p[i] \in DOMAIN gs /\ p[j] \in DOMAIN gs
          BY <5>1
        <5>3. u[m].features[i] = gs[p[i]] /\ u[m].features[j] = gs[p[j]]
          BY <1>4, <1>5, <3>1, <5>1
        <5>4. QED
          BY <5>1, <5>2, <5>3
      <4>2. p[i] # p[j]
        BY <1>3, <2>1, <4>1
      <4>3. QED
        BY <3>1, <4>1, <4>2
    <3>2. CASE m # k
      BY <1>5, <2>1, <3>2
    <3>3. QED
      BY <3>1, <3>2
  <2>3. t[m].features[a].id = NoId \/ t[m].features[a].id # t[m].features[b].id
    BY <1>5, <1>8, <2>2 DEF Good, Once
  <2>4. QED
    BY <2>1, <2>2, <2>3
<1>9. QED
  BY <1>5, <1>6, <1>7, <1>8 DEF Good

-----------------------------------------------------------------------------
(* What is output of a cluster. *)

LEMMA WithIdSees ==
    ASSUME Name \in Names, NEW s \in [Names -> SUBSET Ids], NEW f, f.id \in Ids \cup {NoId}
    PROVE  /\ WithId(s, f) \in [Names -> SUBSET Ids]
           /\ MoreSeen(s, WithId(s, f))
           /\ request.dedup /\ f.id # NoId => f.id \in WithId(s, f)[Name]
<1>1. CASE request.dedup /\ f.id # NoId
  <2>1. WithId(s, f) = [s EXCEPT ![Name] = @ \cup {f.id}] /\ f.id \in Ids
    BY <1>1 DEF WithId
  <2>2. QED
    BY <2>1 DEF MoreSeen
<1>2. CASE ~ (request.dedup /\ f.id # NoId)
  BY <1>2 DEF WithId, MoreSeen
<1>3. QED
  BY <1>1, <1>2

\* A tile and what was seen that a step may lead to, with more values than V.
Follows(V, t, s) ==
    \E W : /\ V \subseteq W
          /\ t \in Seq(LayersOf(W))
          /\ s \in [Names -> SUBSET Ids]
          /\ Good(request.dedup, t, s)
          /\ \E k \in DOMAIN t : t[k].name = Name

LEMMA OutputFollows ==
    ASSUME NEW V, Shaped(V), Counters, HasLayer, Good(request.dedup, out, seen),
           layer \in DOMAIN sources, along # 0, pending # <<>>
    PROVE  Follows(V, FeatureOut(pending).out, FeatureOut(pending).seen)
<1>1. PICK k \in DOMAIN out : out[k].name = Name /\ k = In(out, Name)
  BY DEF HasLayer, In
<1>2. Name \in Names
  BY <1>1, Fields DEF Shaped
<1>3. pending[1] \in FeaturesOf(V)
  BY DEF Shaped
<1>4. pending[1].id \in Ids \cup {NoId}
  BY <1>3, FeatureFields
<1>5. CASE Duplicate(pending[1])
  <2>1. FeatureOut(pending).out = out /\ FeatureOut(pending).seen = seen
    BY <1>5 DEF FeatureOut
  <2>2. QED
    BY <1>1, <2>1 DEF Follows, Shaped, Counters
<1>6. CASE ~ Duplicate(pending[1])
  <2> DEFINE W == V \cup {FullValues(pending)}
  <2>1. PICK f : f = [pending[1] EXCEPT !.values = FullValues(pending)]
    OBVIOUS
  <2>2. f \in FeaturesOf(W) /\ f.id = pending[1].id
    BY <1>3, <2>1 DEF FeaturesOf
  <2>3. PICK u, r : u = Replaced(out, k, Append(out[k].features, f)) /\ r = WithId(seen, pending[1])
    OBVIOUS
  <2>4. FeatureOut(pending).out = u /\ FeatureOut(pending).seen = r
    BY <1>1, <1>6, <2>1, <2>3 DEF FeatureOut, Replaced
  <2>5. /\ r \in [Names -> SUBSET Ids] /\ MoreSeen(seen, r)
        /\ request.dedup /\ f.id # NoId => f.id \in r[Name]
    BY <1>2, <1>4, <2>2, <2>3, WithIdSees DEF Counters
  <2>6. request.dedup /\ f.id # NoId => f.id \notin seen[Name]
    BY <1>6, <2>2 DEF Duplicate
  <2>7. out \in Seq(LayersOf(W))
    BY Wider DEF Shaped
  <2>8. /\ u \in Seq(LayersOf(W))
        /\ DOMAIN u = DOMAIN out /\ \A m \in DOMAIN out : u[m].name = out[m].name
        /\ Good(request.dedup, u, r)
    <3> HIDE DEF W
    <3>1. QED
      BY <1>1, <2>2, <2>3, <2>5, <2>6, <2>7, AddNew
  <2>9. QED
    BY <1>1, <2>4, <2>5, <2>8 DEF Follows
<1>7. QED
  BY <1>5, <1>6

-----------------------------------------------------------------------------
(* Every step keeps the invariant. *)

LEMMA EmptyTile == ASSUME NEW V PROVE <<>> \in Seq(LayersOf(V)) /\ \A d, s : Good(d, <<>>, s)
<1>1. <<>> \in Seq(LayersOf(V)) /\ DOMAIN <<>> = {}
  OBVIOUS
<1>2. QED
  BY <1>1 DEF Good, OneLayerEach, Remembered, Once

LEMMA InitKnown == Init => IInv
<1> SUFFICES ASSUME Init PROVE IInv
  OBVIOUS
<1>1. request \in AllRequests
  BY RequestAssumption DEF Init
<1>2. Features = FeaturesOf(Seq(Values))
  BY DEF Features, FeaturesOf
<1>3. sources \in Tiles
  BY <1>1 DEF Init, AllRequests
<1>4. Tiles = Seq(LayersOf(Seq(Values)))
  BY <1>2 DEF Tiles, LayersOf
<1>5. Shaped(Seq(Values))
  BY <1>3, <1>4, EmptyTile DEF Shaped, Init
<1>6. Counters
  BY <1>1 DEF Counters, Init, NothingSeen
<1>7. HasLayer /\ Good(request.dedup, out, seen)
  BY EmptyTile DEF HasLayer, Init
<1>8. QED
  BY <1>5, <1>6, <1>7 DEF IInv, Shapes

LEMMA StartLayerKeeps == IInv /\ StartLayer => IInv'
<1> SUFFICES ASSUME IInv, StartLayer PROVE IInv'
  OBVIOUS
<1>1. PICK V : Shaped(V)
  BY DEF IInv, Shapes
<1>2. layer \in DOMAIN sources
  BY <1>1 DEF StartLayer, IInv, Counters, Shaped
<1>3. Name \in Names /\ Name' = Name
  BY <1>1, <1>2, Fields DEF Shaped, StartLayer, Name
<1>4. CASE \E k \in DOMAIN out : out[k].name = Name
  <2>1. UNCHANGED <<request, sources, layer, pending, seen, out>> /\ along' = 1
    BY <1>4 DEF StartLayer
  <2>2. Shaped(V)' /\ Counters' /\ HasLayer' /\ Good(request.dedup, out, seen)'
    BY <1>1, <1>3, <1>4, <2>1 DEF Shaped, Counters, HasLayer, IInv
  <2>3. QED
    BY <2>2 DEF IInv, Shapes
<1>5. CASE ~ \E k \in DOMAIN out : out[k].name = Name
  <2> DEFINE l == [name |-> Name, features |-> <<>>]
  <2>1. UNCHANGED <<request, sources, layer, pending, seen>> /\ along' = 1 /\ out' = Append(out, l)
    BY <1>5 DEF StartLayer
  <2>2. l \in LayersOf(V) /\ l.name = Name /\ DOMAIN l.features = {}
    BY <1>3 DEF LayersOf
  <2> HIDE DEF l
  <2>3. /\ out' \in Seq(LayersOf(V)) /\ DOMAIN out = 1..Len(out) /\ Len(out) \in Nat
        /\ DOMAIN out' = 1..(Len(out) + 1) /\ out'[Len(out) + 1] = l
        /\ \A k \in DOMAIN out : out'[k] = out[k]
    BY <1>1, <2>1, <2>2 DEF Shaped
  <2>4. \A k \in DOMAIN out' : (k \in DOMAIN out /\ out'[k] = out[k]) \/ (k = Len(out) + 1 /\ out'[k] = l)
    BY <2>3
  <2>5. OneLayerEach(out')
    <3>1. OneLayerEach(out)
      BY DEF IInv, Good
    <3>2. QED
      BY <1>5, <2>2, <2>4, <3>1 DEF OneLayerEach
  <2>6. ASSUME request.dedup PROVE Remembered(out', seen) /\ Once(out')
    <3>1. Remembered(out, seen) /\ Once(out)
      BY <2>6 DEF IInv, Good
    <3>2. Remembered(out', seen)
      BY <2>2, <2>4, <3>1 DEF Remembered
    <3>3. Once(out')
      BY <2>2, <2>4, <2>5, <3>1 DEF Once, OneLayerEach
    <3>4. QED
      BY <3>2, <3>3
  <2>7. Good(request.dedup, out', seen)
    BY <2>5, <2>6 DEF Good
  <2>8. Shaped(V)' /\ Counters' /\ Good(request.dedup, out, seen)'
    BY <1>1, <2>1, <2>3, <2>7 DEF Shaped, Counters, IInv
  <2>9. HasLayer'
    BY <1>3, <2>2, <2>3 DEF HasLayer
  <2>10. QED
    BY <2>8, <2>9 DEF IInv, Shapes
<1>6. QED
  BY <1>4, <1>5

\* What is known when a feature is read.
LEMMA AtFeatureKnown ==
    ASSUME NEW V, Shaped(V), Counters, HasLayer, AtFeature
    PROVE  /\ layer \in DOMAIN sources /\ along # 0
           /\ Feature \in FeaturesOf(V) /\ Feature.id \in Ids \cup {NoId}
           /\ Name \in Names /\ \E k \in DOMAIN out : out[k].name = Name
<1>1. layer \in DOMAIN sources
  BY DEF AtFeature, Shaped, Counters
<1>2. Name \in Names /\ sources[layer].features \in Seq(FeaturesOf(V)) /\ Feature \in FeaturesOf(V)
  BY <1>1, Fields DEF Shaped, AtFeature, Feature, Name
<1>3. along # 0
  BY <1>2 DEF AtFeature
<1>4. QED
  BY <1>1, <1>2, <1>3, FeatureFields DEF HasLayer

LEMMA ClipKeeps == IInv /\ Clip => IInv'
<1> SUFFICES ASSUME IInv, Clip PROVE IInv'
  OBVIOUS
<1>1. PICK V : Shaped(V)
  BY DEF IInv, Shapes
<1>2. /\ layer \in DOMAIN sources /\ Feature.id \in Ids \cup {NoId}
      /\ Name \in Names /\ \E k \in DOMAIN out : out[k].name = Name
  BY <1>1, AtFeatureKnown DEF IInv, Clip
<1>3. UNCHANGED <<request, sources, layer, pending, out>> /\ along' = along + 1 /\ seen' = WithId(seen, Feature)
  BY DEF Clip
<1>4. seen' \in [Names -> SUBSET Ids] /\ MoreSeen(seen, seen')
  BY <1>2, <1>3, WithIdSees DEF IInv, Counters
<1>5. Good(request.dedup, out, seen')
  BY <1>1, <1>4, SeenMore DEF IInv, Shaped
<1>6. Shaped(V)' /\ Counters' /\ Good(request.dedup, out, seen)'
  BY <1>1, <1>3, <1>4, <1>5 DEF Shaped, Counters, IInv
<1>7. HasLayer'
  BY <1>2, <1>3 DEF HasLayer, Name
<1>8. QED
  BY <1>6, <1>7 DEF IInv, Shapes

\* Before and after a cluster is output as the next begins.
LEMMA FlushFollows ==
    ASSUME NEW V, Shaped(V), Counters, HasLayer, Good(request.dedup, out, seen), AtFeature
    PROVE  /\ Follows(V, AfterFlush(Feature).out, AfterFlush(Feature).seen)
           /\ AfterFlush(Feature).pending \in Seq(FeaturesOf(V))
<1>1. layer \in DOMAIN sources /\ along # 0 /\ \E k \in DOMAIN out : out[k].name = Name
  BY AtFeatureKnown
<1>2. CASE Flushes(Feature)
  <2>1. /\ AfterFlush(Feature).out = FeatureOut(pending).out
        /\ AfterFlush(Feature).seen = FeatureOut(pending).seen
        /\ AfterFlush(Feature).pending = <<>>
    BY <1>2 DEF AfterFlush
  <2>2. pending # <<>>
    BY <1>2 DEF Flushes
  <2>3. QED
    BY <1>1, <2>1, <2>2, OutputFollows
<1>3. CASE ~ Flushes(Feature)
  <2>1. AfterFlush(Feature) = [out |-> out, seen |-> seen, pending |-> pending]
    BY <1>3 DEF AfterFlush
  <2>2. QED
    BY <1>1, <2>1 DEF Follows, Shaped, Counters
<1>4. QED
  BY <1>2, <1>3

LEMMA ReadKeeps == IInv /\ Read => IInv'
<1> SUFFICES ASSUME IInv, Read PROVE IInv'
  OBVIOUS
<1>1. PICK V : Shaped(V)
  BY DEF IInv, Shapes
<1>2. /\ Feature \in FeaturesOf(V) /\ Feature.id \in Ids \cup {NoId} /\ Name \in Names
  BY <1>1, AtFeatureKnown DEF IInv, Read
<1>3. PICK flushed : flushed = AfterFlush(Feature)
  OBVIOUS
<1>4. /\ UNCHANGED <<request, sources, layer>> /\ along' = along + 1 /\ out' = flushed.out
      /\ \/ pending' = Append(flushed.pending, Untagged(Feature)) /\ seen' = flushed.seen
         \/ pending' = flushed.pending /\ seen' = WithId(flushed.seen, Feature)
  BY <1>3 DEF Read
<1>5. Follows(V, flushed.out, flushed.seen) /\ flushed.pending \in Seq(FeaturesOf(V))
  BY <1>1, <1>3, FlushFollows DEF IInv, Read
<1>6. PICK W : /\ V \subseteq W /\ out' \in Seq(LayersOf(W)) /\ flushed.seen \in [Names -> SUBSET Ids]
               /\ Good(request.dedup, out', flushed.seen)
               /\ \E k \in DOMAIN out' : out'[k].name = Name
  BY <1>4, <1>5 DEF Follows
<1>7. seen' \in [Names -> SUBSET Ids] /\ MoreSeen(flushed.seen, seen')
  <2>1. MoreSeen(flushed.seen, flushed.seen)
    BY DEF MoreSeen
  <2>2. QED
    BY <1>2, <1>4, <1>6, <2>1, WithIdSees
<1>8. Good(request.dedup, out', seen')
  BY <1>6, <1>7, SeenMore
<1>9. Untagged(Feature) \in FeaturesOf(V)
  BY <1>2 DEF Untagged, FeaturesOf
<1>10. pending' \in Seq(FeaturesOf(V))
  BY <1>4, <1>5, <1>9
<1>11. pending' \in Seq(FeaturesOf(W)) /\ sources' \in Seq(LayersOf(W))
  BY <1>1, <1>4, <1>6, <1>10, Wider DEF Shaped
<1>12. Shaped(W)' /\ Counters' /\ Good(request.dedup, out, seen)'
  BY <1>4, <1>6, <1>7, <1>8, <1>11 DEF Shaped, Counters, IInv
<1>13. HasLayer'
  BY <1>4, <1>6 DEF HasLayer, Name
<1>14. QED
  BY <1>12, <1>13 DEF IInv, Shapes

LEMMA FlushToLimitKeeps == IInv /\ FlushToLimit => IInv'
<1> SUFFICES ASSUME IInv, FlushToLimit PROVE IInv'
  OBVIOUS
<1>1. PICK V : Shaped(V)
  BY DEF IInv, Shapes
<1>2. layer \in DOMAIN sources /\ along # 0
  BY <1>1, AtFeatureKnown DEF IInv, FlushToLimit
<1>3. /\ UNCHANGED <<request, sources, layer, pending>> /\ along' = Len(sources[layer].features) + 1
      /\ out' = FeatureOut(pending).out /\ seen' = FeatureOut(pending).seen /\ pending # <<>>
  BY DEF FlushToLimit, Flushes
<1>4. Follows(V, out', seen')
  BY <1>1, <1>2, <1>3, OutputFollows DEF IInv
<1>5. PICK W : /\ V \subseteq W /\ out' \in Seq(LayersOf(W)) /\ seen' \in [Names -> SUBSET Ids]
               /\ Good(request.dedup, out', seen') /\ \E k \in DOMAIN out' : out'[k].name = Name
  BY <1>4 DEF Follows
<1>6. pending' \in Seq(FeaturesOf(W)) /\ sources' \in Seq(LayersOf(W))
  BY <1>1, <1>3, <1>5, Wider DEF Shaped
<1>7. along' \in Nat
  <2>1. sources[layer].features \in Seq(FeaturesOf(V))
    BY <1>1, <1>2, Fields DEF Shaped
  <2>2. QED
    BY <1>3, <2>1
<1>8. Shaped(W)' /\ Counters' /\ Good(request.dedup, out, seen)'
  BY <1>3, <1>5, <1>6, <1>7 DEF Shaped, Counters, IInv
<1>9. HasLayer'
  BY <1>3, <1>5 DEF HasLayer, Name
<1>10. QED
  BY <1>8, <1>9 DEF IInv, Shapes

LEMMA EndLayerKeeps == IInv /\ (EndLayer \/ EndAtLimit) => IInv'
<1> SUFFICES ASSUME IInv, EndLayer \/ EndAtLimit PROVE IInv'
  OBVIOUS
<1>1. PICK V : Shaped(V)
  BY DEF IInv, Shapes
<1>2. layer \in DOMAIN sources
  BY <1>1 DEF EndLayer, EndAtLimit, AtEnd, Shaped, IInv, Counters
<1>3. along # 0
  <2>1. sources[layer].features \in Seq(FeaturesOf(V))
    BY <1>1, <1>2, Fields DEF Shaped
  <2>2. QED
    BY <2>1 DEF EndLayer, EndAtLimit, AtEnd
<1>4. PICK ended : /\ Follows(V, ended.out, ended.seen)
                   /\ \/ out' = ended.out
                      \/ \E fs \in Restored(ended.out[In(ended.out, Name)].features) :
                            out' = [ended.out EXCEPT ![In(ended.out, Name)].features = fs]
                   /\ seen' = ended.seen
  <2>1. pending # <<>> => Follows(V, FeatureOut(pending).out, FeatureOut(pending).seen)
    BY <1>1, <1>2, <1>3, OutputFollows DEF IInv
  <2>2. Follows(V, out, seen)
    BY <1>1, <1>2, <1>3 DEF Follows, IInv, Shaped, Counters, HasLayer
  <2>3. CASE EndAtLimit
    BY <2>1, <2>3 DEF EndAtLimit
  <2>4. CASE EndLayer
    <3>1. PICK ended \in {IF pending = <<>> THEN [out |-> out, seen |-> seen] ELSE FeatureOut(pending)} :
             /\ IF request.ordered
                THEN \E fs \in Restored(ended.out[In(ended.out, Name)].features) :
                        out' = [ended.out EXCEPT ![In(ended.out, Name)].features = fs]
                ELSE out' = ended.out
             /\ seen' = ended.seen
      BY <2>4 DEF EndLayer
    <3>2. Follows(V, ended.out, ended.seen)
      BY <2>1, <2>2, <3>1
    <3>3. QED
      BY <3>1, <3>2
  <2>5. QED
    BY <2>3, <2>4
<1>5. PICK W : /\ V \subseteq W /\ ended.out \in Seq(LayersOf(W)) /\ seen' \in [Names -> SUBSET Ids]
               /\ Good(request.dedup, ended.out, seen') /\ \E k \in DOMAIN ended.out : ended.out[k].name = Name
  BY <1>4 DEF Follows
<1>6. out' \in Seq(LayersOf(W)) /\ Good(request.dedup, out', seen')
  <2>1. CASE out' = ended.out
    BY <1>5, <2>1
  <2>2. CASE \E fs \in Restored(ended.out[In(ended.out, Name)].features) :
                out' = [ended.out EXCEPT ![In(ended.out, Name)].features = fs]
    <3>1. PICK k \in DOMAIN ended.out : k = In(ended.out, Name)
      BY <1>5 DEF In
    <3>2. PICK fs \in Restored(ended.out[k].features) : out' = Replaced(ended.out, k, fs)
      BY <2>2, <3>1 DEF Replaced
    <3>3. QED
      BY <1>5, <3>2, AddOrdered
  <2>3. QED
    BY <1>4, <2>1, <2>2
<1>7. /\ UNCHANGED <<request, sources>> /\ along' = 0 /\ pending' = <<>>
      /\ layer' = layer + 1 \/ layer' = Len(sources) + 1
  BY DEF EndLayer, EndAtLimit
<1>8. layer' \in Nat \ {0}
  BY <1>1, <1>7 DEF IInv, Counters, Shaped
<1>9. sources' \in Seq(LayersOf(W)) /\ pending' \in Seq(FeaturesOf(W))
  <2>1. sources' = sources /\ sources \in Seq(LayersOf(V))
    BY <1>1, <1>7 DEF Shaped
  <2>2. sources' \in Seq(LayersOf(W))
    BY <1>5, <2>1, Wider
  <2>3. <<>> \in Seq(FeaturesOf(W))
    OBVIOUS
  <2>4. QED
    BY <1>7, <2>2, <2>3
<1>10. Shaped(W)' /\ Counters' /\ Good(request.dedup, out, seen)' /\ HasLayer'
  BY <1>5, <1>6, <1>7, <1>8, <1>9 DEF Shaped, Counters, HasLayer, IInv
<1>11. QED
  BY <1>10 DEF IInv, Shapes

\* A child is made from the tile that was just made, into one with nothing in it.
LEMMA LookAtKeeps ==
    ASSUME IInv, NEW child, NEW t, t = out \/ t = sources, LookAt(child, t), UNCHANGED <<request, pending>>
    PROVE  IInv'
<1>1. PICK V : Shaped(V)
  BY DEF IInv, Shapes
<1>2. /\ sources' = t /\ layer' = 1 /\ along' = 0 /\ out' = <<>> /\ seen' = NothingSeen
      /\ UNCHANGED <<request, pending>>
  BY DEF LookAt
<1>3. Shaped(V)'
  BY <1>1, <1>2, EmptyTile DEF Shaped
<1>4. Counters' /\ HasLayer'
  BY <1>2 DEF Counters, HasLayer, NothingSeen, IInv
<1>5. Good(request.dedup, out, seen)'
  BY <1>2, EmptyTile
<1>6. QED
  BY <1>3, <1>4, <1>5 DEF IInv, Shapes

LEMMA StaysKnown ==
    ASSUME IInv, UNCHANGED <<request, sources, layer, along, pending, out, seen>>
    PROVE  IInv'
<1>1. PICK V : Shaped(V)
  BY DEF IInv, Shapes
<1>2. Shaped(V)' /\ Counters' /\ HasLayer' /\ Good(request.dedup, out, seen)'
  BY <1>1 DEF Shaped, Counters, HasLayer, Name, IInv
<1>3. QED
  BY <1>2 DEF IInv, Shapes

LEMMA FinishKeeps == IInv /\ (FinishTile \/ FinishChild) => IInv'
<1> SUFFICES ASSUME IInv, FinishTile \/ FinishChild PROVE IInv'
  OBVIOUS
<1>1. CASE FinishTile
  <2>1. UNCHANGED <<request, pending>> /\ (LookAt(1, out) \/ UNCHANGED <<place, sources, layer, along, out, seen>>)
    BY <1>1 DEF FinishTile
  <2>2. QED
    BY <2>1, LookAtKeeps, StaysKnown
<1>2. CASE FinishChild
  <2>1. UNCHANGED <<request, pending>>
        /\ (LookAt(place + 1, sources) \/ UNCHANGED <<place, sources, layer, along, out, seen>>)
    BY <1>2 DEF FinishChild
  <2>2. QED
    BY <2>1, LookAtKeeps, StaysKnown
<1>3. QED
  BY <1>1, <1>2

LEMMA NextKeeps == IInv /\ [Next]_vars => IInv'
<1> SUFFICES ASSUME IInv, [Next]_vars PROVE IInv'
  OBVIOUS
<1>1. CASE StartLayer
  BY <1>1, StartLayerKeeps
<1>2. CASE Clip
  BY <1>2, ClipKeeps
<1>3. CASE Read
  BY <1>3, ReadKeeps
<1>4. CASE FlushToLimit
  BY <1>4, FlushToLimitKeeps
<1>5. CASE EndLayer \/ EndAtLimit
  BY <1>5, EndLayerKeeps
<1>6. CASE Exit
  BY <1>6, StaysKnown DEF Exit
<1>7. CASE FinishTile \/ FinishChild
  BY <1>7, FinishKeeps
<1>8. CASE UNCHANGED vars
  BY <1>8, StaysKnown DEF vars
<1>9. QED
  BY <1>1, <1>2, <1>3, <1>4, <1>5, <1>6, <1>7, <1>8 DEF Next

-----------------------------------------------------------------------------
(***************************************************************************)
(* The children that are asked for.  While the tile is made, what it and    *)
(* what is pending show is what the features that were read show; it is     *)
(* then the source of the children, which are read until one feature is     *)
(* found, so that a child has a feature, or one pending, if any of those    *)
(* that were read is visible in it, and only if any at all is.              *)
(***************************************************************************)

\* Some feature of a tile is visible in that child.
Shows(t, p) == \E l \in DOMAIN t : \E i \in DOMAIN t[l].features : p \in t[l].features[i].at

\* A place in a tile, by layer and feature, before another.
Earlier(m, i, l, a) == m < l \/ (m = l /\ i < a)

\* Some feature before a place in a tile is.
ShowsBefore(t, l, a, p) ==
    \E m \in DOMAIN t : \E i \in DOMAIN t[m].features :
        Earlier(m, i, l, a) /\ p \in t[m].features[i].at

NoneFiltered(t) == \A l \in DOMAIN t : \A i \in DOMAIN t[l].features : t[l].features[i].fate = "kept"

Waiting(fs, p) == fs # <<>> /\ p \in fs[1].at

\* What holds of what has been read while the tile is made, and while a child is.
TileShows(t, fs, ss, l, a) ==
    \A p \in 1..4 : (Shows(t, p) \/ Waiting(fs, p)) <=> ShowsBefore(ss, l, a, p)

ChildShows(t, fs, ss, l, a, p) ==
    /\ HasFeatures(t) \/ fs # <<>> => Shows(ss, p)
    /\ ShowsBefore(ss, l, a, p) => HasFeatures(t) \/ fs # <<>>

ShownBy(r, q) == {p \in 1..4 : p < q /\ Shows(r.layers, p)}

\* A feature may wait only in the middle of a layer.
NoneWaits == (along = 0 \/ layer > Len(sources)) => pending = <<>>

ReadsAll ==
    /\ NoneFiltered(sources) /\ NoneFiltered(out)
    /\ pending # <<>> => pending[1].fate = "kept"

Making ==
    /\ place \in 0..4
    /\ next = ShownBy(request, place)
    /\ IF place = 0
       THEN sources = request.layers /\ TileShows(out, pending, sources, layer, along)
       ELSE /\ \A p \in 1..4 : Shows(sources, p) <=> Shows(request.layers, p)
            /\ ChildShows(out, pending, sources, layer, along, place)

ChildInv ==
    /\ request \in Requests
    /\ request.next => /\ ReadsAll /\ NoneWaits
                       /\ status = "reading" => Making
                       /\ status # "reading" => next = ShownBy(request, 5)

\* The places in a tile, one after another.
LEMMA Places ==
    ASSUME NEW V, NEW t \in Seq(LayersOf(V)), NEW m \in DOMAIN t, NEW i \in DOMAIN t[m].features
    PROVE  /\ \A l \in Nat : \A a : l > Len(t) => Earlier(m, i, l, a)
           /\ \A a \in {0, 1} : ~Earlier(m, i, 1, a)
           /\ \A l \in DOMAIN t : Earlier(m, i, l, 1) <=> Earlier(m, i, l, 0)
           /\ \A l \in DOMAIN t : Earlier(m, i, l + 1, 0) <=> Earlier(m, i, l, Len(t[l].features) + 1)
           /\ \A l \in DOMAIN t : \A a \in DOMAIN t[l].features :
                 Earlier(m, i, l, a + 1) <=> Earlier(m, i, l, a) \/ (m = l /\ i = a)
           /\ ~Earlier(m, i, m, i)
<1>1. /\ DOMAIN t = 1..Len(t) /\ Len(t) \in Nat
      /\ \A l \in DOMAIN t : /\ DOMAIN t[l].features = 1..Len(t[l].features)
                            /\ Len(t[l].features) \in Nat
  BY Fields
<1>2. m \in Nat \ {0} /\ i \in Nat \ {0} /\ m <= Len(t) /\ i <= Len(t[m].features)
  BY <1>1
<1>3. ASSUME NEW l \in DOMAIN t
      PROVE  Earlier(m, i, l + 1, 0) <=> Earlier(m, i, l, Len(t[l].features) + 1)
  <2>1. l \in Nat /\ Len(t[l].features) \in Nat
    BY <1>1
  <2>2. m = l => i < Len(t[l].features) + 1
    BY <1>2, <2>1
  <2> QED
    BY <1>2, <2>1, <2>2 DEF Earlier
<1>4. ASSUME NEW l \in DOMAIN t, NEW a \in DOMAIN t[l].features
      PROVE  Earlier(m, i, l, a + 1) <=> Earlier(m, i, l, a) \/ (m = l /\ i = a)
  <2>1. l \in Nat /\ a \in Nat
    BY <1>1
  <2> QED
    BY <1>2, <2>1 DEF Earlier
<1>5. \A l \in Nat : \A a : l > Len(t) => Earlier(m, i, l, a)
  BY <1>1, <1>2 DEF Earlier
<1>6. \A l \in DOMAIN t : Earlier(m, i, l, 1) <=> Earlier(m, i, l, 0)
  BY <1>2 DEF Earlier
<1>7. (\A a \in {0, 1} : ~Earlier(m, i, 1, a)) /\ ~Earlier(m, i, m, i)
  BY <1>2 DEF Earlier
<1> QED
  BY <1>3, <1>4, <1>5, <1>6, <1>7

LEMMA BeforePlaces ==
    ASSUME NEW V, NEW t \in Seq(LayersOf(V))
    PROVE  /\ \A l, a, p : ShowsBefore(t, l, a, p) => Shows(t, p)
           /\ \A l \in Nat : \A a, p : l > Len(t) => (ShowsBefore(t, l, a, p) <=> Shows(t, p))
           /\ \A a \in {0, 1} : \A p : ~ShowsBefore(t, 1, a, p)
           /\ \A l \in DOMAIN t : \A p : ShowsBefore(t, l, 1, p) <=> ShowsBefore(t, l, 0, p)
           /\ \A l \in DOMAIN t : \A p : ShowsBefore(t, l + 1, 0, p)
                                       <=> ShowsBefore(t, l, Len(t[l].features) + 1, p)
           /\ \A l \in DOMAIN t : \A a \in DOMAIN t[l].features : \A p :
                 ShowsBefore(t, l, a + 1, p)
                   <=> ShowsBefore(t, l, a, p) \/ p \in t[l].features[a].at
<1>1. \A l \in Nat : \A a, p : l > Len(t) => (ShowsBefore(t, l, a, p) <=> Shows(t, p))
  BY Places DEF ShowsBefore, Shows
<1>2. \A a \in {0, 1} : \A p : ~ShowsBefore(t, 1, a, p)
  BY Places DEF ShowsBefore
<1>3. \A l \in DOMAIN t : \A p : ShowsBefore(t, l, 1, p) <=> ShowsBefore(t, l, 0, p)
  BY Places DEF ShowsBefore
<1>4. \A l \in DOMAIN t : \A p :
        ShowsBefore(t, l + 1, 0, p) <=> ShowsBefore(t, l, Len(t[l].features) + 1, p)
  BY Places DEF ShowsBefore
<1>5. \A l \in DOMAIN t : \A a \in DOMAIN t[l].features : \A p :
        ShowsBefore(t, l, a + 1, p) <=> ShowsBefore(t, l, a, p) \/ p \in t[l].features[a].at
  BY Places DEF ShowsBefore
<1> QED
  BY <1>1, <1>2, <1>3, <1>4, <1>5 DEF ShowsBefore, Shows

LEMMA EmptyShows ==
    /\ \A p : ~Shows(<<>>, p)
    /\ ~HasFeatures(<<>>) /\ NoneFiltered(<<>>)
BY DEF Shows, HasFeatures, NoneFiltered

\* A feature that is added to a layer shows what it shows.
LEMMA OneMoreShows ==
    ASSUME NEW V, NEW t \in Seq(LayersOf(V)), NEW k \in DOMAIN t, NEW f \in FeaturesOf(V),
           NEW u, u = Replaced(t, k, Append(t[k].features, f))
    PROVE  /\ \A p : Shows(u, p) <=> Shows(t, p) \/ p \in f.at
           /\ HasFeatures(u)
           /\ NoneFiltered(t) /\ f.fate = "kept" => NoneFiltered(u)
<1> DEFINE fs == t[k].features
<1>1. fs \in Seq(FeaturesOf(V))
  BY Fields
<1>2. PICK gs : gs = Append(fs, f)
  OBVIOUS
<1>3. /\ gs \in Seq(FeaturesOf(V)) /\ DOMAIN fs = 1..Len(fs) /\ Len(fs) \in Nat
      /\ DOMAIN gs = 1..(Len(fs) + 1) /\ gs[Len(fs) + 1] = f /\ gs # <<>>
      /\ \A i \in DOMAIN fs : gs[i] = fs[i]
  BY <1>1, <1>2
<1>4. /\ DOMAIN u = DOMAIN t /\ u[k].features = gs
      /\ \A m \in DOMAIN t : m # k => u[m] = t[m]
  <2>1. u = Replaced(t, k, gs)
    BY <1>2
  <2> QED
    BY <1>3, <2>1, WithFeatures
<1>5. /\ Len(fs) + 1 \in DOMAIN gs
      /\ \A i \in DOMAIN gs : (i \in DOMAIN fs /\ gs[i] = fs[i]) \/ (i = Len(fs) + 1 /\ gs[i] = f)
      /\ DOMAIN fs \subseteq DOMAIN gs
  BY <1>3
<1> HIDE DEF fs
<1>6. ASSUME NEW p
      PROVE  Shows(u, p) <=> Shows(t, p) \/ p \in f.at
  <2>1. Shows(u, p) => Shows(t, p) \/ p \in f.at
    BY <1>4, <1>5 DEF Shows, fs
  <2>2. Shows(t, p) => Shows(u, p)
    <3> SUFFICES ASSUME NEW m \in DOMAIN t, NEW i \in DOMAIN t[m].features,
                        p \in t[m].features[i].at
                 PROVE  Shows(u, p)
      BY DEF Shows
    <3>1. CASE m = k
      <4>1. i \in DOMAIN u[k].features /\ u[k].features[i] = t[m].features[i]
        BY <1>3, <1>4, <1>5, <3>1 DEF fs
      <4> QED
        BY <1>4, <4>1 DEF Shows
    <3>2. CASE m # k
      BY <1>4, <3>2 DEF Shows
    <3> QED
      BY <3>1, <3>2
  <2>3. p \in f.at => Shows(u, p)
    BY <1>3, <1>4, <1>5 DEF Shows
  <2> QED
    BY <2>1, <2>2, <2>3
<1>7. HasFeatures(u)
  BY <1>3, <1>4 DEF HasFeatures
<1>8. NoneFiltered(t) /\ f.fate = "kept" => NoneFiltered(u)
  BY <1>4, <1>5 DEF NoneFiltered, fs
<1> QED
  BY <1>6, <1>7, <1>8

\* The tile with what is pending in it.
Flushed == IF pending = <<>> THEN out ELSE FeatureOut(pending).out

LEMMA FlushedShows ==
    ASSUME NEW V, Shaped(V), Counters, HasLayer, layer \in DOMAIN sources, along # 0, ~request.dedup
    PROVE  /\ \A p : Shows(Flushed, p) <=> Shows(out, p) \/ Waiting(pending, p)
           /\ HasFeatures(Flushed) <=> HasFeatures(out) \/ pending # <<>>
           /\ ReadsAll => NoneFiltered(Flushed)
<1>1. CASE pending = <<>>
  BY <1>1 DEF Flushed, Waiting, ReadsAll
<1>2. CASE pending # <<>>
  <2>1. PICK k \in DOMAIN out : out[k].name = Name /\ k = In(out, Name)
    BY DEF HasLayer, In
  <2>2. pending[1] \in FeaturesOf(V)
    BY <1>2 DEF Shaped
  <2> DEFINE W == V \cup {FullValues(pending)}
  <2>3. PICK f : f = [pending[1] EXCEPT !.values = FullValues(pending)]
    OBVIOUS
  <2>4. f \in FeaturesOf(W) /\ f.at = pending[1].at /\ f.fate = pending[1].fate
    BY <2>2, <2>3 DEF FeaturesOf
  <2>5. PICK u : u = Replaced(out, k, Append(out[k].features, f))
    OBVIOUS
  <2>6. Flushed = u
    BY <1>2, <2>1, <2>3, <2>5 DEF Flushed, FeatureOut, Replaced, Duplicate
  <2>7. out \in Seq(LayersOf(W))
    BY Wider DEF Shaped
  <2>8. /\ \A p : Shows(u, p) <=> Shows(out, p) \/ p \in f.at
        /\ HasFeatures(u)
        /\ NoneFiltered(out) /\ f.fate = "kept" => NoneFiltered(u)
    <3> HIDE DEF W
    <3> QED
      BY <2>1, <2>4, <2>5, <2>7, OneMoreShows
  <2> QED
    BY <1>2, <2>4, <2>6, <2>8 DEF Waiting, ReadsAll
<1> QED
  BY <1>1, <1>2

LEMMA Asked ==
    ASSUME ChildInv, request.next
    PROVE  /\ ~request.demultiply /\ ~request.dedup /\ ~request.ordered
           /\ NoneFiltered(request.layers)
           /\ \A c : ~Impossible(c)
<1>1. /\ ~request.demultiply /\ request.op = "none" /\ ~request.dedup /\ ~request.ordered
      /\ NoneFiltered(request.layers)
  BY ChildAssumption DEF ChildInv, NoneFiltered
<1> QED
  BY <1>1 DEF Impossible, Unmade

\* The steps that go on with the same tile or child.
LEMMA GoesOn ==
    ASSUME ChildInv, request.next => status = "reading" /\ Making,
           UNCHANGED <<request, place, sources, next, status>>,
           request.next => /\ ReadsAll' /\ NoneWaits'
                           /\ place = 0 => TileShows(out', pending', sources, layer', along')
                           /\ place # 0 => ChildShows(out', pending', sources, layer', along', place)
    PROVE  ChildInv'
<1>1. request.next => Making'
  BY DEF Making
<1> QED
  BY <1>1 DEF ChildInv

-----------------------------------------------------------------------------
(* Every step keeps what the children rest on. *)

\* A layer that is begun is there already, or comes after the others with nothing in it.
LEMMA LayerBegun ==
    ASSUME NEW V, Shaped(V), StartLayer
    PROVE  /\ DOMAIN out \subseteq DOMAIN out'
           /\ \A k \in DOMAIN out : out'[k] = out[k]
           /\ \A k \in DOMAIN out' :
                 k \in DOMAIN out \/ (out'[k].name = Name /\ out'[k].features = <<>>)
<1>1. CASE out' = out
  BY <1>1
<1>2. CASE out' = Append(out, [name |-> Name, features |-> <<>>])
  <2> DEFINE l == [name |-> Name, features |-> <<>>]
  <2>1. l.name = Name /\ l.features = <<>>
    OBVIOUS
  <2> HIDE DEF l
  <2>2. /\ DOMAIN out = 1..Len(out) /\ Len(out) \in Nat
        /\ DOMAIN out' = 1..(Len(out) + 1) /\ out'[Len(out) + 1] = l
        /\ \A k \in DOMAIN out : out'[k] = out[k]
    BY <1>2 DEF Shaped, l
  <2> QED
    BY <2>1, <2>2
<1> QED
  BY <1>1, <1>2 DEF StartLayer

LEMMA StartLayerShows == IInv /\ ChildInv /\ StartLayer => ChildInv'
<1> SUFFICES ASSUME IInv, ChildInv, StartLayer PROVE ChildInv'
  OBVIOUS
<1>1. PICK V : Shaped(V)
  BY DEF IInv, Shapes
<1>2. /\ layer \in DOMAIN sources /\ sources \in Seq(LayersOf(V)) /\ along = 0 /\ along' = 1
      /\ status = "reading" /\ UNCHANGED <<request, place, sources, layer, pending, next, status>>
  BY <1>1 DEF StartLayer, IInv, Counters, Shaped
<1>3. /\ \A p : Shows(out', p) <=> Shows(out, p)
      /\ HasFeatures(out') <=> HasFeatures(out)
      /\ NoneFiltered(out) => NoneFiltered(out')
  <2>1. /\ DOMAIN out \subseteq DOMAIN out'
        /\ \A k \in DOMAIN out : out'[k] = out[k]
        /\ \A k \in DOMAIN out' : k \in DOMAIN out \/ out'[k].features = <<>>
    BY <1>1, LayerBegun
  <2>2. \A p : Shows(out', p) <=> Shows(out, p)
    BY <2>1 DEF Shows
  <2>3. HasFeatures(out') <=> HasFeatures(out)
    BY <2>1 DEF HasFeatures
  <2>4. NoneFiltered(out) => NoneFiltered(out')
    BY <2>1 DEF NoneFiltered
  <2> QED
    BY <2>2, <2>3, <2>4
<1>4. \A p : ShowsBefore(sources, layer, along', p) <=> ShowsBefore(sources, layer, along, p)
  BY <1>2, BeforePlaces
<1>5. ASSUME request.next
      PROVE  /\ Making /\ ReadsAll' /\ NoneWaits'
             /\ place = 0 => TileShows(out', pending', sources, layer', along')
             /\ place # 0 => ChildShows(out', pending', sources, layer', along', place)
  <2>1. Making /\ ReadsAll /\ NoneWaits
    BY <1>2, <1>5 DEF ChildInv
  <2>2. ReadsAll' /\ NoneWaits'
    BY <1>2, <1>3, <2>1 DEF ReadsAll, NoneWaits
  <2>3. place = 0 => TileShows(out', pending', sources, layer', along')
    BY <1>2, <1>3, <1>4, <2>1 DEF Making, TileShows
  <2>4. place # 0 => ChildShows(out', pending', sources, layer', along', place)
    BY <1>2, <1>3, <1>4, <2>1 DEF Making, ChildShows
  <2> QED
    BY <2>1, <2>2, <2>3, <2>4
<1> QED
  BY <1>2, <1>5, GoesOn

\* A feature that is read counts as read.
LEMMA ReadCounts ==
    ASSUME NEW V, Shaped(V), Counters, HasLayer, AtFeature
    PROVE  /\ layer \in DOMAIN sources /\ along # 0 /\ along \in Nat /\ layer <= Len(sources)
           /\ sources \in Seq(LayersOf(V)) /\ Feature \in FeaturesOf(V)
           /\ \A p : ShowsBefore(sources, layer, along + 1, p)
                       <=> ShowsBefore(sources, layer, along, p) \/ p \in Feature.at
           /\ \A p : p \in Feature.at => Shows(sources, p)
           /\ NoneFiltered(sources) => Feature.fate = "kept"
<1>1. /\ layer \in DOMAIN sources /\ along # 0 /\ sources \in Seq(LayersOf(V))
      /\ along \in DOMAIN sources[layer].features /\ layer <= Len(sources)
      /\ Feature \in FeaturesOf(V) /\ along \in Nat
  BY AtFeatureKnown DEF AtFeature, Shaped, Counters
<1>2. \A p : ShowsBefore(sources, layer, along + 1, p)
               <=> ShowsBefore(sources, layer, along, p) \/ p \in sources[layer].features[along].at
  BY <1>1, BeforePlaces
<1> QED
  BY <1>1, <1>2 DEF Feature, Shows, NoneFiltered

LEMMA ClipShows == IInv /\ ChildInv /\ Clip => ChildInv'
<1> SUFFICES ASSUME IInv, ChildInv, Clip PROVE ChildInv'
  OBVIOUS
<1>1. PICK V : Shaped(V)
  BY DEF IInv, Shapes
<1>2. /\ AtFeature /\ ~Visible(Feature) /\ along' = along + 1 /\ status = "reading"
      /\ UNCHANGED <<request, place, sources, layer, pending, out, next, status>>
  BY DEF Clip, AtFeature
<1>3. /\ layer <= Len(sources) /\ along # 0 /\ along \in Nat /\ layer \in Nat
      /\ \A p : ShowsBefore(sources, layer, along + 1, p)
                  <=> ShowsBefore(sources, layer, along, p) \/ p \in Feature.at
  BY <1>1, <1>2, ReadCounts DEF IInv, Counters
<1>4. (place = 0 => Feature.at = {}) /\ (place # 0 => place \notin Feature.at)
  BY <1>2 DEF Visible
<1>5. ASSUME request.next
      PROVE  /\ Making /\ ReadsAll' /\ NoneWaits'
             /\ place = 0 => TileShows(out', pending', sources, layer', along')
             /\ place # 0 => ChildShows(out', pending', sources, layer', along', place)
  <2>1. Making /\ ReadsAll /\ NoneWaits
    BY <1>2, <1>5 DEF ChildInv
  <2>2. ReadsAll'
    BY <1>2, <2>1 DEF ReadsAll
  <2>3. NoneWaits'
    BY <1>2, <1>3, <2>1 DEF NoneWaits
  <2>4. place = 0 => TileShows(out', pending', sources, layer', along')
    BY <1>2, <1>3, <1>4, <2>1 DEF Making, TileShows
  <2>5. place # 0 => ChildShows(out', pending', sources, layer', along', place)
    BY <1>2, <1>3, <1>4, <2>1 DEF Making, ChildShows
  <2> QED
    BY <2>1, <2>2, <2>3, <2>4, <2>5
<1> QED
  BY <1>2, <1>5, GoesOn

LEMMA ReadShows == IInv /\ ChildInv /\ Read => ChildInv'
<1> SUFFICES ASSUME IInv, ChildInv, Read PROVE ChildInv'
  OBVIOUS
<1>1. PICK V : Shaped(V)
  BY DEF IInv, Shapes
<1>2. /\ AtFeature /\ Visible(Feature) /\ along' = along + 1 /\ status = "reading"
      /\ UNCHANGED <<request, place, sources, layer, next, status>>
      /\ out' = AfterFlush(Feature).out
      /\ Feature.fate = "kept" => pending' = Append(AfterFlush(Feature).pending, Untagged(Feature))
  BY DEF Read, AtFeature
<1>3. /\ layer \in DOMAIN sources /\ layer <= Len(sources) /\ along # 0 /\ along \in Nat
      /\ layer \in Nat /\ Feature \in FeaturesOf(V)
      /\ \A p : ShowsBefore(sources, layer, along + 1, p)
                  <=> ShowsBefore(sources, layer, along, p) \/ p \in Feature.at
      /\ \A p : p \in Feature.at => Shows(sources, p)
      /\ NoneFiltered(sources) => Feature.fate = "kept"
  BY <1>1, <1>2, ReadCounts DEF IInv, Counters
<1>4. ASSUME request.next
      PROVE  /\ Making /\ ReadsAll' /\ NoneWaits'
             /\ place = 0 => TileShows(out', pending', sources, layer', along')
             /\ place # 0 => ChildShows(out', pending', sources, layer', along', place)
  <2>1. Making /\ ReadsAll /\ NoneWaits /\ ~request.demultiply /\ ~request.dedup
    BY <1>2, <1>4, Asked DEF ChildInv
  <2>2. out' = Flushed /\ AfterFlush(Feature).pending = <<>>
    BY <1>2, <2>1 DEF AfterFlush, Flushes, Flushed
  <2>3. /\ \A p : Shows(out', p) <=> Shows(out, p) \/ Waiting(pending, p)
        /\ HasFeatures(out') <=> HasFeatures(out) \/ pending # <<>>
        /\ NoneFiltered(out')
    BY <1>1, <1>3, <2>1, <2>2, FlushedShows DEF IInv
  <2>4. pending' = <<Untagged(Feature)>>
    BY <1>2, <1>3, <2>1, <2>2 DEF ReadsAll
  <2>5. pending' # <<>> /\ pending'[1].at = Feature.at /\ pending'[1].fate = "kept"
    BY <1>3, <2>1, <2>4 DEF Untagged, ReadsAll, FeaturesOf
  <2>6. ReadsAll'
    BY <1>2, <2>1, <2>3, <2>5 DEF ReadsAll
  <2>7. NoneWaits'
    BY <1>2, <1>3 DEF NoneWaits
  <2>8. place = 0 => TileShows(out', pending', sources, layer', along')
    BY <1>2, <1>3, <2>1, <2>3, <2>5 DEF Making, TileShows, Waiting
  <2>9. place # 0 => ChildShows(out', pending', sources, layer', along', place)
    <3>1. place # 0 => Shows(sources, place)
      BY <1>2, <1>3 DEF Visible
    <3> QED
      BY <2>5, <3>1 DEF ChildShows
  <2> QED
    BY <2>1, <2>6, <2>7, <2>8, <2>9
<1> QED
  BY <1>2, <1>4, GoesOn

\* The limit of one feature is only ever reached in a child, which then has that one.
LEMMA LimitShows == IInv /\ ChildInv /\ (FlushToLimit \/ EndAtLimit) => ChildInv'
<1> SUFFICES ASSUME IInv, ChildInv, FlushToLimit \/ EndAtLimit PROVE ChildInv'
  OBVIOUS
<1>1. PICK V : Shaped(V)
  BY DEF IInv, Shapes
<1>2. /\ status = "reading" /\ UNCHANGED <<request, place, sources, next, status>>
      /\ out' = Flushed /\ pending # <<>> /\ place # 0 /\ layer <= Len(sources) /\ along # 0
  <2>1. CASE FlushToLimit
    BY <1>1, <2>1, AtFeatureKnown
       DEF FlushToLimit, AtFeature, Flushes, Flushed, ReachesLimit, Full, IInv
  <2>2. CASE EndAtLimit
    <3>1. layer \in DOMAIN sources
      BY <1>1, <2>2 DEF EndAtLimit, AtEnd, Shaped, IInv, Counters
    <3>2. sources[layer].features \in Seq(FeaturesOf(V))
      BY <1>1, <3>1, Fields DEF Shaped
    <3>3. along # 0
      BY <2>2, <3>2 DEF EndAtLimit, AtEnd
    <3> QED
      BY <2>2, <3>3 DEF EndAtLimit, AtEnd, Flushed, ReachesLimit, Full
  <2> QED
    BY <2>1, <2>2
<1>3. layer \in DOMAIN sources /\ layer \in Nat /\ Len(sources) \in Nat
  BY <1>1, <1>2 DEF Shaped, IInv, Counters
<1>4. pending' = <<>> \/ (pending' = pending /\ layer' = layer /\ along' # 0)
  <2>1. CASE FlushToLimit
    <3>1. sources[layer].features \in Seq(FeaturesOf(V))
      BY <1>1, <1>3, Fields DEF Shaped
    <3> QED
      BY <2>1, <3>1 DEF FlushToLimit
  <2>2. CASE EndAtLimit
    BY <2>2 DEF EndAtLimit
  <2> QED
    BY <2>1, <2>2
<1>5. ASSUME request.next
      PROVE  /\ Making /\ ReadsAll' /\ NoneWaits'
             /\ place = 0 => TileShows(out', pending', sources, layer', along')
             /\ place # 0 => ChildShows(out', pending', sources, layer', along', place)
  <2>1. Making /\ ReadsAll /\ NoneWaits /\ ~request.dedup
    BY <1>2, <1>5, Asked DEF ChildInv
  <2>2. HasFeatures(out') /\ NoneFiltered(out')
    BY <1>1, <1>2, <1>3, <2>1, FlushedShows DEF IInv
  <2>3. ReadsAll'
    BY <1>2, <1>4, <2>1, <2>2 DEF ReadsAll
  <2>4. NoneWaits'
    BY <1>2, <1>3, <1>4 DEF NoneWaits
  <2>5. Shows(sources, place)
    BY <1>2, <2>1 DEF Making, ChildShows
  <2> QED
    BY <1>2, <2>1, <2>2, <2>3, <2>4, <2>5 DEF ChildShows
<1> QED
  BY <1>2, <1>5, GoesOn

LEMMA EndLayerShows == IInv /\ ChildInv /\ EndLayer => ChildInv'
<1> SUFFICES ASSUME IInv, ChildInv, EndLayer PROVE ChildInv'
  OBVIOUS
<1>1. PICK V : Shaped(V)
  BY DEF IInv, Shapes
<1>2. /\ status = "reading" /\ UNCHANGED <<request, place, sources, next, status>>
      /\ layer' = layer + 1 /\ along' = 0 /\ pending' = <<>>
      /\ along = Len(sources[layer].features) + 1
  BY DEF EndLayer, AtEnd
<1>3. layer \in DOMAIN sources /\ sources \in Seq(LayersOf(V))
  BY <1>1 DEF EndLayer, AtEnd, Shaped, IInv, Counters
<1>4. along # 0
  <2>1. sources[layer].features \in Seq(FeaturesOf(V))
    BY <1>1, <1>3, Fields DEF Shaped
  <2> QED
    BY <1>2, <2>1
<1>5. \A p : ShowsBefore(sources, layer', along', p) <=> ShowsBefore(sources, layer, along, p)
  BY <1>2, <1>3, BeforePlaces
<1>6. ASSUME request.next
      PROVE  /\ Making /\ ReadsAll' /\ NoneWaits'
             /\ place = 0 => TileShows(out', pending', sources, layer', along')
             /\ place # 0 => ChildShows(out', pending', sources, layer', along', place)
  <2>1. Making /\ ReadsAll /\ NoneWaits /\ ~request.dedup /\ ~request.ordered
    BY <1>2, <1>6, Asked DEF ChildInv
  <2>2. out' = Flushed
    BY <2>1 DEF EndLayer, Flushed
  <2>3. /\ \A p : Shows(out', p) <=> Shows(out, p) \/ Waiting(pending, p)
        /\ HasFeatures(out') <=> HasFeatures(out) \/ pending # <<>>
        /\ NoneFiltered(out')
    BY <1>1, <1>3, <1>4, <2>1, <2>2, FlushedShows DEF IInv
  <2>4. ReadsAll' /\ NoneWaits'
    BY <1>2, <2>1, <2>3 DEF ReadsAll, NoneWaits
  <2>5. place = 0 => TileShows(out', pending', sources, layer', along')
    BY <1>2, <1>5, <2>1, <2>3 DEF Making, TileShows, Waiting
  <2>6. place # 0 => ChildShows(out', pending', sources, layer', along', place)
    BY <1>2, <1>5, <2>1, <2>3 DEF Making, ChildShows
  <2> QED
    BY <2>1, <2>4, <2>5, <2>6
<1> QED
  BY <1>2, <1>6, GoesOn

\* The source of a child that is only to be begun.
LEMMA LookAtShows ==
    ASSUME NEW V, NEW child, NEW t \in Seq(LayersOf(V)), LookAt(child, t), pending = <<>>,
           UNCHANGED pending, NoneFiltered(t)
    PROVE  /\ ReadsAll' /\ NoneWaits'
           /\ ChildShows(out', pending', t, layer', along', child)
<1>1. /\ sources' = t /\ layer' = 1 /\ along' = 0 /\ out' = <<>> /\ pending' = <<>>
  BY DEF LookAt
<1>2. ~ShowsBefore(t, layer', along', child)
  BY <1>1, BeforePlaces
<1> QED
  BY <1>1, <1>2, EmptyShows DEF ReadsAll, NoneWaits, ChildShows

LEMMA FinishTileShows == IInv /\ ChildInv /\ FinishTile => ChildInv'
<1> SUFFICES ASSUME IInv, ChildInv, FinishTile PROVE ChildInv'
  OBVIOUS
<1>1. PICK V : Shaped(V)
  BY DEF IInv, Shapes
<1>2. /\ status = "reading" /\ place = 0 /\ layer > Len(sources) /\ layer \in Nat
      /\ UNCHANGED <<request, pending, next>>
      /\ sources \in Seq(LayersOf(V)) /\ out \in Seq(LayersOf(V))
  BY <1>1 DEF FinishTile, AtTileEnd, IInv, Counters, Shaped
<1> SUFFICES ASSUME request.next PROVE ChildInv'
  BY <1>2 DEF ChildInv
<1>3. /\ ReadsAll /\ pending = <<>> /\ next = ShownBy(request, 0) /\ sources = request.layers
      /\ TileShows(out, pending, sources, layer, along)
  BY <1>2 DEF ChildInv, Making, NoneWaits
<1>4. \A p \in 1..4 : Shows(out, p) <=> Shows(request.layers, p)
  <2>1. \A p : ShowsBefore(sources, layer, along, p) <=> Shows(sources, p)
    BY <1>2, BeforePlaces
  <2> QED
    BY <1>3, <2>1 DEF TileShows, Waiting
<1>5. CASE out # <<>>
  <2>1. LookAt(1, out) /\ status' = "reading"
    BY <1>2, <1>5 DEF FinishTile
  <2>2. ReadsAll' /\ NoneWaits' /\ ChildShows(out', pending', out, layer', along', 1)
    BY <1>2, <1>3, <2>1, LookAtShows DEF ReadsAll
  <2>3. place' = 1 /\ sources' = out
    BY <2>1 DEF LookAt
  <2>4. next' = ShownBy(request', 1)
    <3>1. ShownBy(request, 0) = {} /\ ShownBy(request, 1) = {}
      BY DEF ShownBy
    <3> QED
      BY <1>2, <1>3, <3>1
  <2>5. Making'
    BY <1>2, <1>4, <2>2, <2>3, <2>4 DEF Making
  <2> QED
    BY <1>2, <2>1, <2>2, <2>5 DEF ChildInv
<1>6. CASE out = <<>>
  <2>1. status' = "done" /\ UNCHANGED <<place, sources, layer, along, out, seen>>
    BY <1>6 DEF FinishTile
  <2>2. next' = ShownBy(request', 5)
    <3>1. \A p \in 1..4 : ~Shows(request.layers, p)
      BY <1>4, <1>6, EmptyShows
    <3>2. ShownBy(request, 0) = {} /\ ShownBy(request, 5) = {}
      BY <3>1 DEF ShownBy
    <3> QED
      BY <1>2, <1>3, <3>2
  <2>3. ReadsAll' /\ NoneWaits'
    BY <1>2, <1>3, <2>1 DEF ReadsAll, NoneWaits
  <2> QED
    BY <1>2, <2>1, <2>2, <2>3 DEF ChildInv
<1> QED
  BY <1>5, <1>6

LEMMA FinishChildShows == IInv /\ ChildInv /\ FinishChild => ChildInv'
<1> SUFFICES ASSUME IInv, ChildInv, FinishChild PROVE ChildInv'
  OBVIOUS
<1>1. PICK V : Shaped(V)
  BY DEF IInv, Shapes
<1>2. /\ status = "reading" /\ place # 0 /\ layer > Len(sources) /\ layer \in Nat
      /\ UNCHANGED <<request, pending>> /\ sources \in Seq(LayersOf(V))
  BY <1>1 DEF FinishChild, AtTileEnd, IInv, Counters, Shaped
<1> SUFFICES ASSUME request.next PROVE ChildInv'
  BY <1>2 DEF ChildInv
<1>3. /\ ReadsAll /\ pending = <<>> /\ place \in 1..4 /\ next = ShownBy(request, place)
      /\ \A p \in 1..4 : Shows(sources, p) <=> Shows(request.layers, p)
      /\ ChildShows(out, pending, sources, layer, along, place)
  BY <1>2 DEF ChildInv, Making, NoneWaits
<1>4. HasFeatures(out) <=> Shows(request.layers, place)
  <2>1. ShowsBefore(sources, layer, along, place) <=> Shows(sources, place)
    BY <1>2, BeforePlaces
  <2> QED
    BY <1>3, <2>1 DEF ChildShows
<1>5. next' = ShownBy(request, place + 1)
  <2>1. next' = IF HasFeatures(out) THEN next \cup {place} ELSE next
    BY DEF FinishChild
  <2>2. ShownBy(request, place + 1) =
          IF Shows(request.layers, place) THEN ShownBy(request, place) \cup {place}
          ELSE ShownBy(request, place)
    <3>1. \A p \in 1..4 : p < place + 1 <=> (p < place \/ p = place)
      BY <1>3
    <3> QED
      BY <1>3, <3>1 DEF ShownBy
  <2> QED
    BY <1>3, <1>4, <2>1, <2>2
<1>6. CASE place < 4
  <2>1. LookAt(place + 1, sources) /\ status' = "reading"
    BY <1>2, <1>6 DEF FinishChild
  <2>2. ReadsAll' /\ NoneWaits' /\ ChildShows(out', pending', sources, layer', along', place + 1)
    BY <1>2, <1>3, <2>1, LookAtShows DEF ReadsAll
  <2>3. place' = place + 1 /\ place' \in 1..4 /\ sources' = sources
    BY <1>3, <1>6, <2>1 DEF LookAt
  <2>4. Making'
    BY <1>2, <1>3, <1>5, <2>2, <2>3 DEF Making
  <2> QED
    BY <1>2, <2>1, <2>2, <2>4 DEF ChildInv
<1>7. CASE ~(place < 4)
  <2>1. status' = "done" /\ UNCHANGED <<place, sources, layer, along, out, seen>>
    BY <1>7 DEF FinishChild
  <2>2. next' = ShownBy(request', 5)
    BY <1>2, <1>3, <1>5, <1>7
  <2>3. ReadsAll' /\ NoneWaits'
    BY <1>2, <1>3, <2>1 DEF ReadsAll, NoneWaits
  <2> QED
    BY <1>2, <2>1, <2>2, <2>3 DEF ChildInv
<1> QED
  BY <1>6, <1>7

LEMMA InitShows == Init => ChildInv
<1> SUFFICES ASSUME Init PROVE ChildInv
  OBVIOUS
<1>1. PICK V : Shaped(V)
  BY InitKnown DEF IInv, Shapes
<1>2. /\ request \in Requests /\ sources = request.layers /\ place = 0 /\ layer = 1 /\ along = 0
      /\ pending = <<>> /\ out = <<>> /\ next = {} /\ status = "reading"
  BY DEF Init
<1>3. request.next => NoneFiltered(sources)
  BY <1>2, ChildAssumption DEF NoneFiltered
<1>4. \A p : ~ShowsBefore(sources, layer, along, p)
  BY <1>1, <1>2, BeforePlaces DEF Shaped
<1>5. TileShows(out, pending, sources, layer, along)
  BY <1>2, <1>4, EmptyShows DEF TileShows, Waiting
<1>6. next = ShownBy(request, place)
  BY <1>2 DEF ShownBy
<1>7. request.next => ReadsAll /\ NoneWaits /\ Making
  BY <1>2, <1>3, <1>5, <1>6, EmptyShows DEF ReadsAll, NoneWaits, Making
<1> QED
  BY <1>2, <1>7 DEF ChildInv

LEMMA NextShows == IInv /\ ChildInv /\ [Next]_vars => ChildInv'
<1> SUFFICES ASSUME IInv, ChildInv, [Next]_vars PROVE ChildInv'
  OBVIOUS
<1>1. CASE Exit
  <2>1. ~request.next
    BY <1>1, Asked DEF Exit
  <2> QED
    BY <1>1, <2>1 DEF Exit, ChildInv
<1>2. CASE UNCHANGED vars
  BY <1>2 DEF vars, ChildInv, ReadsAll, NoneWaits, Making
<1> QED
  BY <1>1, <1>2, StartLayerShows, ClipShows, ReadShows, LimitShows, EndLayerShows,
     FinishTileShows, FinishChildShows DEF Next

\* The children that tile-join is told of are just those in which something of the source is
\* visible, although they are made from a tile that was made from it, and no further than to
\* their first feature (clip.cpp:1697-1731).
THEOREM FindsChildren == Spec => []ChildrenFound
<1>1. IInv /\ ChildInv => ChildrenFound
  <2> SUFFICES ASSUME IInv, ChildInv, status = "done", request.next
               PROVE  next = (UNION {UNION {f.at : f \in Range(request.layers[l].features)} :
                                l \in DOMAIN request.layers}) \ {0}
    BY DEF ChildrenFound
  <2>1. next = ShownBy(request, 5)
    BY DEF ChildInv
  <2> DEFINE ts == request.layers
             At(l) == UNION {f.at : f \in Range(ts[l].features)}
  <2>2. \A l \in DOMAIN ts : \A i \in DOMAIN ts[l].features : ts[l].features[i].at \subseteq 0..4
    <3>1. ts \in Tiles
      BY DEF IInv, Counters, AllRequests
    <3>2. \A l \in DOMAIN ts : ts[l].features \in Seq(Features)
      <4> DEFINE L == [name : Names, features : Seq(Features)]
      <4>1. ts \in Seq(L)
        BY <3>1 DEF Tiles
      <4>2. \A y \in L : y.features \in Seq(Features)
        OBVIOUS
      <4> HIDE DEF L, ts, At
      <4>3. \A l \in DOMAIN ts : ts[l] \in L
        BY <4>1
      <4> QED
        BY <4>2, <4>3
    <3>3. \A l \in DOMAIN ts : \A i \in DOMAIN ts[l].features : ts[l].features[i] \in Features
      BY <3>2
    <3> QED
      BY <3>3 DEF Features
  <2>3. \A l, p : p \in At(l) <=> \E i \in DOMAIN ts[l].features : p \in ts[l].features[i].at
    BY DEF Range
  <2>4. \A p : p \in UNION {At(l) : l \in DOMAIN ts} <=> Shows(ts, p)
    BY <2>3 DEF Shows
  <2>5. \A p : p \in ShownBy(request, 5) <=> Shows(ts, p) /\ p # 0
    <3>1. \A p : Shows(ts, p) => p \in 0..4
      BY <2>2 DEF Shows
    <3>2. \A p : p \in 1..4 <=> p \in 0..4 /\ p # 0
      OBVIOUS
    <3>3. \A p \in 1..4 : p < 5
      OBVIOUS
    <3> QED
      BY <3>1, <3>2, <3>3 DEF ShownBy
  <2>6. ShownBy(request, 5) = (UNION {At(l) : l \in DOMAIN ts}) \ {0}
    <3> HIDE DEF ts, At
    <3>1. PICK X, U : X = ShownBy(request, 5) /\ U = UNION {At(l) : l \in DOMAIN ts}
      OBVIOUS
    <3>2. \A p : p \in X <=> p \in U /\ p # 0
      BY <2>4, <2>5, <3>1
    <3>3. X = U \ {0}
      BY <3>2
    <3> QED
      BY <3>1, <3>3
  <2> QED
    BY <2>1, <2>6
<1> QED
  BY <1>1, InitKnown, NextKeeps, InitShows, NextShows, PTL DEF Spec

-----------------------------------------------------------------------------
(***************************************************************************)
(* The features that are left.  What is pending begins with the first kept  *)
(* feature of the last cluster, and there is something pending just as long *)
(* as a cluster with a kept feature has not been followed by the beginning  *)
(* of another.  So the tile and what is pending have the first features of  *)
(* the clusters that were read, each once because they have come to them    *)
(* from different places, and in the order of their sequence but for the    *)
(* layer that is being read.                                                *)
(***************************************************************************)
Begins(f) == f.first /\ f.at # {}

FirstIn(d, fs, i) ==
    /\ Kept(fs[i])
    /\ d => \A j \in 1..(i - 1) : Kept(fs[j]) => \E k \in (j + 1)..i : Begins(fs[k])

\* A cluster that had a kept feature goes on at that place.
OpenAt(fs, a) ==
    \E j \in 1..(a - 1) : Kept(fs[j]) /\ \A k \in (j + 1)..(a - 1) : ~Begins(fs[k])

HasKey(t, n, x) ==
    \E k \in DOMAIN t : t[k].name = n /\ \E i \in DOMAIN t[k].features : t[k].features[i].key = x

\* The first features before a place.
FirstBefore(d, t, l, a, n, x) ==
    \E m \in DOMAIN t : t[m].name = n /\ \E i \in DOMAIN t[m].features :
        Earlier(m, i, l, a) /\ FirstIn(d, t[m].features, i) /\ t[m].features[i].key = x

KeysOnce(t) ==
    \A l, m \in DOMAIN t : \A i \in DOMAIN t[l].features : \A j \in DOMAIN t[m].features :
        t[l].features[i].key = t[m].features[j].key => l = m /\ i = j

\* A feature is what is made of one that was read before a place.
ComesFrom(d, f, t, l, a) ==
    \E m \in DOMAIN t : \E i \in DOMAIN t[m].features :
        /\ Earlier(m, i, l, a)
        /\ t[m].features[i].key = f.key
        /\ d => t[m].features[i].seq = f.seq

AllCome(d, u, t, l, a) ==
    \A k \in DOMAIN u : \A i \in DOMAIN u[k].features : ComesFrom(d, u[k].features[i], t, l, a)

Ascending(fs) == \A i, j \in DOMAIN fs : i < j => fs[i].seq <= fs[j].seq

HasFirsts(d, u, fs, t, l, a) ==
    \A n \in Names : \A x :
        HasKey(u, n, x) \/ (fs # <<>> /\ t[l].name = n /\ fs[1].key = x)
          <=> FirstBefore(d, t, l, a, n, x)

\* While the tile is made.
Gathered ==
    /\ sources = request.layers /\ NoneWaits
    /\ AllCome(request.demultiply, out, sources, layer, along)
    /\ pending # <<>> => ComesFrom(request.demultiply, pending[1], sources, layer, along)

Ascends ==
    /\ layer > Len(sources) => along = 0
    /\ request.ordered =>
          \A k \in DOMAIN out : (along # 0 /\ out[k].name = Name) \/ Ascending(out[k].features)

Firsts ==
    ~request.dedup =>
        /\ HasFirsts(request.demultiply, out, pending, sources, layer, along)
        /\ KeysOnce(out)
        /\ pending # <<>> => \A n : ~HasKey(out, n, pending[1].key)
        /\ along # 0 /\ request.demultiply =>
              (pending # <<>> <=> OpenAt(sources[layer].features, along))

\* When it has been made.
TileFirsts ==
    ~request.dedup =>
        /\ \A n \in Names : \A x :
              HasKey(tile, n, x)
                <=> \E m \in DOMAIN request.layers :
                       /\ request.layers[m].name = n
                       /\ \E i \in DOMAIN request.layers[m].features :
                             /\ FirstIn(request.demultiply, request.layers[m].features, i)
                             /\ request.layers[m].features[i].key = x
        /\ KeysOnce(tile)

TileAscends ==
    request.ordered =>
        /\ \A k \in DOMAIN tile : Ascending(tile[k].features)
        /\ AllCome(request.demultiply, tile, request.layers, Len(request.layers) + 1, 0)

FirstInv ==
    /\ request \in Requests /\ place \in 0..4
    /\ place = 0 /\ status = "reading" => Gathered /\ Ascends /\ Firsts
    /\ place # 0 \/ status = "done" => TileFirsts /\ TileAscends

-----------------------------------------------------------------------------
(* The clusters of a layer, and the places in a tile. *)

LEMMA Clusters ==
    ASSUME NEW fs, NEW n \in Nat, DOMAIN fs = 1..n, NEW a \in DOMAIN fs, NEW d
    PROVE  /\ ~OpenAt(fs, 1)
           /\ OpenAt(fs, a + 1) <=> Kept(fs[a]) \/ (OpenAt(fs, a) /\ ~Begins(fs[a]))
           /\ FirstIn(d, fs, a) <=> Kept(fs[a]) /\ (d => Begins(fs[a]) \/ ~OpenAt(fs, a))
<1>1. a \in Nat \ {0} /\ a <= n
  OBVIOUS
<1>2. ~OpenAt(fs, 1)
  BY DEF OpenAt
<1>3. /\ \A j : j \in 1..a <=> j \in 1..(a - 1) \/ j = a
      /\ \A j \in 1..(a - 1) : \A k : k \in (j + 1)..a <=> k \in (j + 1)..(a - 1) \/ k = a
      /\ \A k : ~(k \in (a + 1)..a)
      /\ (a + 1) - 1 = a
  BY <1>1
<1>4. ASSUME OpenAt(fs, a + 1)
      PROVE  Kept(fs[a]) \/ (OpenAt(fs, a) /\ ~Begins(fs[a]))
  <2>1. PICK j \in 1..a : Kept(fs[j]) /\ \A k \in (j + 1)..a : ~Begins(fs[k])
    BY <1>3, <1>4 DEF OpenAt
  <2> QED
    BY <1>3, <2>1 DEF OpenAt
<1>5. ASSUME Kept(fs[a]) \/ (OpenAt(fs, a) /\ ~Begins(fs[a]))
      PROVE  OpenAt(fs, a + 1)
  <2>1. CASE Kept(fs[a])
    BY <1>3, <2>1 DEF OpenAt
  <2>2. CASE OpenAt(fs, a) /\ ~Begins(fs[a])
    <3>1. PICK j \in 1..(a - 1) : Kept(fs[j]) /\ \A k \in (j + 1)..(a - 1) : ~Begins(fs[k])
      BY <2>2 DEF OpenAt
    <3> QED
      BY <1>3, <2>2, <3>1 DEF OpenAt
  <2> QED
    BY <1>5, <2>1, <2>2
<1>6. FirstIn(d, fs, a) => Kept(fs[a]) /\ (d => Begins(fs[a]) \/ ~OpenAt(fs, a))
  BY <1>3 DEF FirstIn, OpenAt
<1>7. Kept(fs[a]) /\ (d => Begins(fs[a]) \/ ~OpenAt(fs, a)) => FirstIn(d, fs, a)
  BY <1>3 DEF FirstIn, OpenAt
<1> QED
  BY <1>2, <1>4, <1>5, <1>6, <1>7

LEMMA FirstPlaces ==
    ASSUME NEW V, NEW t \in Seq(LayersOf(V)), NEW d
    PROVE  /\ \A a \in {0, 1} : \A n, x : ~FirstBefore(d, t, 1, a, n, x)
           /\ \A l \in DOMAIN t : \A n, x : FirstBefore(d, t, l, 1, n, x) <=> FirstBefore(d, t, l, 0, n, x)
           /\ \A l \in DOMAIN t : \A n, x : FirstBefore(d, t, l + 1, 0, n, x)
                                       <=> FirstBefore(d, t, l, Len(t[l].features) + 1, n, x)
           /\ \A l \in DOMAIN t : \A a \in DOMAIN t[l].features : \A n, x :
                 FirstBefore(d, t, l, a + 1, n, x)
                   <=> \/ FirstBefore(d, t, l, a, n, x)
                       \/ t[l].name = n /\ FirstIn(d, t[l].features, a) /\ t[l].features[a].key = x
<1>1. \A a \in {0, 1} : \A n, x : ~FirstBefore(d, t, 1, a, n, x)
  BY Places DEF FirstBefore
<1>2. \A l \in DOMAIN t : \A n, x : FirstBefore(d, t, l, 1, n, x) <=> FirstBefore(d, t, l, 0, n, x)
  BY Places DEF FirstBefore
<1>3. \A l \in DOMAIN t : \A n, x : FirstBefore(d, t, l + 1, 0, n, x)
                               <=> FirstBefore(d, t, l, Len(t[l].features) + 1, n, x)
  BY Places DEF FirstBefore
<1>4. \A l \in DOMAIN t : \A a \in DOMAIN t[l].features : \A n, x :
         FirstBefore(d, t, l, a + 1, n, x)
           <=> \/ FirstBefore(d, t, l, a, n, x)
               \/ t[l].name = n /\ FirstIn(d, t[l].features, a) /\ t[l].features[a].key = x
  BY Places DEF FirstBefore
<1> QED
  BY <1>1, <1>2, <1>3, <1>4

\* What comes from before a place comes from before the next one too, and what comes from the
\* place itself does not come from before.
LEMMA ComingPlaces ==
    ASSUME NEW V, NEW t \in Seq(LayersOf(V)), NEW d, NEW l \in DOMAIN t
    PROVE  /\ \A f : ComesFrom(d, f, t, l, 0) => ComesFrom(d, f, t, l, 1)
           /\ \A f : ComesFrom(d, f, t, l, Len(t[l].features) + 1) => ComesFrom(d, f, t, l + 1, 0)
           /\ \A a \in DOMAIN t[l].features : \A f :
                 /\ ComesFrom(d, f, t, l, a) => ComesFrom(d, f, t, l, a + 1)
                 /\ f.key = t[l].features[a].key /\ (d => f.seq = t[l].features[a].seq)
                      => ComesFrom(d, f, t, l, a + 1)
                 /\ KeysOnce(t) /\ ComesFrom(d, f, t, l, a) => f.key # t[l].features[a].key
<1>1. \A f : ComesFrom(d, f, t, l, 0) => ComesFrom(d, f, t, l, 1)
  BY Places DEF ComesFrom
<1>2. \A f : ComesFrom(d, f, t, l, Len(t[l].features) + 1) => ComesFrom(d, f, t, l + 1, 0)
  BY Places DEF ComesFrom
<1>3. ASSUME NEW a \in DOMAIN t[l].features, NEW f
      PROVE  /\ ComesFrom(d, f, t, l, a) => ComesFrom(d, f, t, l, a + 1)
             /\ f.key = t[l].features[a].key /\ (d => f.seq = t[l].features[a].seq)
                  => ComesFrom(d, f, t, l, a + 1)
  BY Places DEF ComesFrom
<1>4. ASSUME NEW a \in DOMAIN t[l].features, NEW f, KeysOnce(t), ComesFrom(d, f, t, l, a),
             f.key = t[l].features[a].key
      PROVE  FALSE
  <2>1. PICK m \in DOMAIN t : \E i \in DOMAIN t[m].features :
           Earlier(m, i, l, a) /\ t[m].features[i].key = f.key
    BY <1>4 DEF ComesFrom
  <2>2. PICK i \in DOMAIN t[m].features : Earlier(m, i, l, a) /\ t[m].features[i].key = f.key
    BY <2>1
  <2>3. m = l /\ i = a
    BY <1>4, <2>2 DEF KeysOnce
  <2> QED
    BY <2>2, <2>3, Places
<1> QED
  BY <1>1, <1>2, <1>3, <1>4

-----------------------------------------------------------------------------
(* A layer with one more feature, and one in another order. *)

OneMore(u, t, name, f) ==
    /\ \A n, x : HasKey(u, n, x) <=> HasKey(t, n, x) \/ (n = name /\ x = f.key)
    /\ \E m \in DOMAIN u : u[m].name = name
    /\ \A m \in DOMAIN u : u[m].name = name \/ (m \in DOMAIN t /\ u[m] = t[m])
    /\ \A d, s, l, a : AllCome(d, t, s, l, a) /\ ComesFrom(d, f, s, l, a) => AllCome(d, u, s, l, a)
    /\ KeysOnce(t) /\ (\A n : ~HasKey(t, n, f.key)) => KeysOnce(u)

LEMMA OneMoreKey ==
    ASSUME NEW V, NEW t \in Seq(LayersOf(V)), NEW k \in DOMAIN t, NEW f \in FeaturesOf(V),
           NEW u, u = Replaced(t, k, Append(t[k].features, f))
    PROVE  u \in Seq(LayersOf(V)) /\ OneMore(u, t, t[k].name, f)
<1> DEFINE fs == t[k].features
<1>1. fs \in Seq(FeaturesOf(V))
  BY Fields
<1>2. PICK gs : gs = Append(fs, f)
  OBVIOUS
<1>3. /\ gs \in Seq(FeaturesOf(V)) /\ DOMAIN fs = 1..Len(fs) /\ Len(fs) \in Nat
      /\ DOMAIN gs = 1..(Len(fs) + 1) /\ gs[Len(fs) + 1] = f
      /\ \A i \in DOMAIN fs : gs[i] = fs[i]
  BY <1>1, <1>2
<1>4. /\ DOMAIN u = DOMAIN t /\ u[k].features = gs /\ u \in Seq(LayersOf(V))
      /\ \A m \in DOMAIN t : u[m].name = t[m].name /\ (m # k => u[m] = t[m])
  <2>1. u = Replaced(t, k, gs)
    BY <1>2
  <2> QED
    BY <1>3, <2>1, WithFeatures
<1>5. /\ Len(fs) + 1 \in DOMAIN gs /\ DOMAIN fs \subseteq DOMAIN gs /\ Len(fs) + 1 \notin DOMAIN fs
      /\ \A i \in DOMAIN gs : (i \in DOMAIN fs /\ gs[i] = fs[i]) \/ (i = Len(fs) + 1 /\ gs[i] = f)
  BY <1>3
<1>6. \A m \in DOMAIN u : \A i \in DOMAIN u[m].features :
        \/ i \in DOMAIN t[m].features /\ u[m].features[i] = t[m].features[i]
        \/ m = k /\ i = Len(fs) + 1 /\ u[m].features[i] = f
  BY <1>4, <1>5
<1>7. \A m \in DOMAIN t : \A i \in DOMAIN t[m].features :
        i \in DOMAIN u[m].features /\ u[m].features[i] = t[m].features[i]
  <2> SUFFICES ASSUME NEW m \in DOMAIN t, NEW i \in DOMAIN t[m].features
               PROVE  i \in DOMAIN u[m].features /\ u[m].features[i] = t[m].features[i]
    OBVIOUS
  <2>1. CASE m = k
    <3>1. i \in DOMAIN fs /\ t[m].features[i] = fs[i]
      BY <2>1
    <3> HIDE DEF fs
    <3>2. i \in DOMAIN gs /\ gs[i] = fs[i]
      BY <1>3, <1>5, <3>1
    <3> QED
      BY <1>4, <2>1, <3>1, <3>2
  <2>2. CASE m # k
    BY <1>4, <2>2
  <2> QED
    BY <2>1, <2>2
<1>8. k \in DOMAIN u /\ Len(fs) + 1 \in DOMAIN u[k].features /\ u[k].features[Len(fs) + 1] = f
  BY <1>3, <1>4, <1>5
<1> HIDE DEF fs
<1>9. \A n, x : HasKey(u, n, x) <=> HasKey(t, n, x) \/ (n = t[k].name /\ x = f.key)
  <2> TAKE n, x
  <2>1. HasKey(u, n, x) => HasKey(t, n, x) \/ (n = t[k].name /\ x = f.key)
    BY <1>4, <1>6 DEF HasKey
  <2>2. HasKey(t, n, x) => HasKey(u, n, x)
    BY <1>4, <1>7 DEF HasKey
  <2>3. n = t[k].name /\ x = f.key => HasKey(u, n, x)
    BY <1>4, <1>8 DEF HasKey
  <2> QED
    BY <2>1, <2>2, <2>3
<1>10. \A m \in DOMAIN u : u[m].name = t[k].name \/ (m \in DOMAIN t /\ u[m] = t[m])
  BY <1>4
<1>11. \A d, s, l, a : AllCome(d, t, s, l, a) /\ ComesFrom(d, f, s, l, a) => AllCome(d, u, s, l, a)
  <2> TAKE d, s, l, a
  <2> QED
    BY <1>4, <1>6 DEF AllCome
<1>12. ASSUME KeysOnce(t), \A n : ~HasKey(t, n, f.key)
       PROVE  KeysOnce(u)
  <2>1. \A m \in DOMAIN t : \A i \in DOMAIN t[m].features : t[m].features[i].key # f.key
    BY <1>12 DEF HasKey
  <2> SUFFICES ASSUME NEW l \in DOMAIN u, NEW m \in DOMAIN u,
                      NEW i \in DOMAIN u[l].features, NEW j \in DOMAIN u[m].features,
                      u[l].features[i].key = u[m].features[j].key
               PROVE  l = m /\ i = j
    BY DEF KeysOnce
  <2>2. /\ \/ i \in DOMAIN t[l].features /\ u[l].features[i] = t[l].features[i]
           \/ l = k /\ i = Len(fs) + 1 /\ u[l].features[i] = f
        /\ \/ j \in DOMAIN t[m].features /\ u[m].features[j] = t[m].features[j]
           \/ m = k /\ j = Len(fs) + 1 /\ u[m].features[j] = f
    BY <1>6
  <2>3. l \in DOMAIN t /\ m \in DOMAIN t
    BY <1>4
  <2> QED
    BY <1>12, <2>1, <2>2, <2>3 DEF KeysOnce
<1>13. \E m \in DOMAIN u : u[m].name = t[k].name
  BY <1>4
<1> QED
  BY <1>4, <1>9, <1>10, <1>11, <1>12, <1>13 DEF OneMore

SameKeys(u, t) ==
    /\ \A n, x : HasKey(u, n, x) <=> HasKey(t, n, x)
    /\ \A d, s, l, a : AllCome(d, t, s, l, a) => AllCome(d, u, s, l, a)
    /\ KeysOnce(t) => KeysOnce(u)

LEMMA OrderedKeys ==
    ASSUME NEW V, NEW t \in Seq(LayersOf(V)), NEW k \in DOMAIN t, NEW fs \in Restored(t[k].features),
           NEW u, u = Replaced(t, k, fs)
    PROVE  /\ SameKeys(u, t)
           /\ k \in DOMAIN u /\ u[k].name = t[k].name /\ Ascending(u[k].features)
           /\ \A m \in DOMAIN u : m = k \/ (m \in DOMAIN t /\ u[m] = t[m])
<1> DEFINE gs == t[k].features
<1>1. gs \in Seq(FeaturesOf(V)) /\ \A i \in DOMAIN gs : gs[i] \in FeaturesOf(V)
  BY Fields
<1>1a. DOMAIN gs = 1..Len(gs) /\ Len(gs) \in Nat
  BY <1>1
<1>2. PICK p \in [DOMAIN gs -> DOMAIN gs] :
        /\ fs = [i \in DOMAIN gs |-> gs[p[i]]]
        /\ \A i, j \in DOMAIN gs : i < j => Precedes(gs[p[i]], p[i], gs[p[j]], p[j])
  BY DEF Restored
<1>3. \A i \in DOMAIN gs : p[i] \in DOMAIN gs /\ gs[p[i]].seq \in Nat
  <2>1. \A i \in DOMAIN gs : p[i] \in DOMAIN gs /\ gs[p[i]] \in FeaturesOf(V)
    BY <1>1
  <2> QED
    BY <2>1, FeatureFields
<1>4. \A i, j \in DOMAIN gs : i # j => p[i] # p[j]
  <2> SUFFICES ASSUME NEW i \in DOMAIN gs, NEW j \in DOMAIN gs, i < j PROVE p[i] # p[j]
    BY <1>1a
  <2>1. gs[p[i]].seq \in Nat /\ p[i] \in Nat
    <3>1. p[i] \in DOMAIN gs /\ gs[p[i]].seq \in Nat
      BY <1>3
    <3> HIDE DEF gs
    <3> QED
      BY <1>1a, <3>1
  <2>2. ~ Precedes(gs[p[i]], p[i], gs[p[i]], p[i])
    BY <2>1 DEF Precedes
  <2> QED
    BY <1>2, <2>2
<1>5. \A y \in DOMAIN gs : \E i \in DOMAIN gs : p[i] = y
  <2>1. IsFiniteSet(DOMAIN gs)
    BY <1>1a, FS_Interval
  <2>2. p \in Injection(DOMAIN gs, DOMAIN gs)
    BY <1>4 DEF Injection, IsInjective
  <2>3. p \in Surjection(DOMAIN gs, DOMAIN gs)
    BY <2>1, <2>2, FS_Injection
  <2> QED
    BY <2>3 DEF Surjection
<1>6. /\ DOMAIN fs = DOMAIN gs /\ \A i \in DOMAIN gs : fs[i] = gs[p[i]]
      /\ fs \in Seq(FeaturesOf(V))
  <2>1. \A i \in DOMAIN gs : gs[p[i]] \in FeaturesOf(V)
    BY <1>1, <1>3
  <2> QED
    BY <1>1a, <1>2, <2>1
<1>7. Ascending(fs)
  <2> SUFFICES ASSUME NEW i \in DOMAIN gs, NEW j \in DOMAIN gs, i < j
               PROVE  fs[i].seq <= fs[j].seq
    BY <1>6 DEF Ascending
  <2>1. Precedes(gs[p[i]], p[i], gs[p[j]], p[j]) /\ gs[p[i]].seq \in Nat /\ gs[p[j]].seq \in Nat
    BY <1>2, <1>3
  <2>2. gs[p[i]].seq <= gs[p[j]].seq
    BY <2>1 DEF Precedes
  <2> QED
    BY <1>6, <2>2
<1>8. /\ DOMAIN u = DOMAIN t /\ u[k].features = fs
      /\ \A m \in DOMAIN t : u[m].name = t[m].name /\ (m # k => u[m] = t[m])
  BY <1>6, WithFeatures
\* Each place in one tile has its place in the other.
<1>9. \A m \in DOMAIN t : \A i \in DOMAIN u[m].features :
        \E j \in DOMAIN t[m].features : u[m].features[i] = t[m].features[j]
  <2> SUFFICES ASSUME NEW m \in DOMAIN t, NEW i \in DOMAIN u[m].features
               PROVE  \E j \in DOMAIN t[m].features : u[m].features[i] = t[m].features[j]
    OBVIOUS
  <2>1. CASE m = k
    <3>1. i \in DOMAIN gs /\ u[m].features[i] = gs[p[i]] /\ p[i] \in DOMAIN gs
      BY <1>3, <1>6, <1>8, <2>1
    <3> QED
      BY <2>1, <3>1
  <2>2. CASE m # k
    BY <1>8, <2>2
  <2> QED
    BY <2>1, <2>2
<1>10. \A m \in DOMAIN t : \A j \in DOMAIN t[m].features :
        \E i \in DOMAIN u[m].features : u[m].features[i] = t[m].features[j]
  <2> SUFFICES ASSUME NEW m \in DOMAIN t, NEW j \in DOMAIN t[m].features
               PROVE  \E i \in DOMAIN u[m].features : u[m].features[i] = t[m].features[j]
    OBVIOUS
  <2>1. CASE m = k
    <3>1. PICK i \in DOMAIN gs : p[i] = j
      BY <1>5, <2>1
    <3>2. i \in DOMAIN u[m].features /\ u[m].features[i] = gs[j]
      BY <1>6, <1>8, <2>1, <3>1
    <3> QED
      BY <2>1, <3>2
  <2>2. CASE m # k
    BY <1>8, <2>2
  <2> QED
    BY <2>1, <2>2
<1> HIDE DEF gs
<1>11. \A n, x : HasKey(u, n, x) <=> HasKey(t, n, x)
  BY <1>8, <1>9, <1>10 DEF HasKey
<1>12. /\ k \in DOMAIN u /\ u[k].name = t[k].name /\ Ascending(u[k].features)
      /\ \A m \in DOMAIN u : m = k \/ (m \in DOMAIN t /\ u[m] = t[m])
  BY <1>7, <1>8
<1>13. \A d, s, l, a : AllCome(d, t, s, l, a) => AllCome(d, u, s, l, a)
  BY <1>8, <1>9 DEF AllCome
<1>14. ASSUME KeysOnce(t)
       PROVE  KeysOnce(u)
  <2> SUFFICES ASSUME NEW l \in DOMAIN t, NEW m \in DOMAIN t,
                      NEW i \in DOMAIN u[l].features, NEW j \in DOMAIN u[m].features,
                      u[l].features[i].key = u[m].features[j].key
               PROVE  l = m /\ i = j
    BY <1>8 DEF KeysOnce
  <2>1. l = m
    BY <1>9, <1>14 DEF KeysOnce
  <2>2. CASE l = k
    <3>1. /\ i \in DOMAIN gs /\ j \in DOMAIN gs /\ u[l].features[i] = gs[p[i]]
          /\ u[m].features[j] = gs[p[j]]
      BY <1>6, <1>8, <2>1, <2>2
    <3>2. p[i] = p[j]
      BY <1>3, <1>14, <2>1, <2>2, <3>1 DEF KeysOnce, gs
    <3> QED
      BY <1>4, <2>1, <3>1, <3>2
  <2>3. CASE l # k
    BY <1>8, <1>14, <2>1, <2>3 DEF KeysOnce
  <2> QED
    BY <2>2, <2>3
<1> QED
  BY <1>11, <1>12, <1>13, <1>14 DEF SameKeys

\* What is returned of a tile has what the tile has.
LEMMA ReturnedKeys ==
    ASSUME NEW V, NEW t \in Seq(LayersOf(V)), NEW u \in Returned(t)
    PROVE  SameKeys(u, t) /\ \A i \in DOMAIN u : \E k \in DOMAIN t : u[i] = t[k]
<1> DEFINE full == {k \in DOMAIN t : t[k].features # <<>>}
<1>1. PICK n : n = Cardinality(full)
  OBVIOUS
<1>2. PICK p \in [1..n -> full] :
        /\ u = [i \in 1..n |-> t[p[i]]]
        /\ \A i, j \in 1..n : i < j => p[i] < p[j]
        /\ \A k \in full : \E i \in 1..n : p[i] = k
  BY <1>1 DEF Returned
<1>3. /\ DOMAIN u = 1..n
      /\ \A i \in 1..n : p[i] \in DOMAIN t /\ u[i] = t[p[i]]
      /\ \A k \in DOMAIN t : t[k].features # <<>> => \E i \in 1..n : p[i] = k
  BY <1>2
<1>4. \A i, j \in 1..n : i # j => p[i] # p[j]
  <2>1. \A i \in 1..n : p[i] \in Nat
    BY <1>3
  <2> QED
    BY <1>2, <2>1
<1>5. \A k \in DOMAIN t : t[k].features = <<>> => DOMAIN t[k].features = {}
  OBVIOUS
<1>6. \A m, x : HasKey(u, m, x) <=> HasKey(t, m, x)
  <2> TAKE m, x
  <2>1. HasKey(u, m, x) => HasKey(t, m, x)
    BY <1>3 DEF HasKey
  <2>2. ASSUME HasKey(t, m, x)
        PROVE  HasKey(u, m, x)
    <3>1. PICK k \in DOMAIN t : t[k].name = m /\ \E i \in DOMAIN t[k].features : t[k].features[i].key = x
      BY <2>2 DEF HasKey
    <3>2. PICK i \in 1..n : p[i] = k
      BY <1>3, <1>5, <3>1
    <3> QED
      BY <1>3, <3>1, <3>2 DEF HasKey
  <2> QED
    BY <2>1, <2>2
<1>7. \A d, s, l, a : AllCome(d, t, s, l, a) => AllCome(d, u, s, l, a)
  BY <1>3 DEF AllCome
<1>8. KeysOnce(t) => KeysOnce(u)
  BY <1>3, <1>4 DEF KeysOnce
<1> QED
  BY <1>3, <1>6, <1>7, <1>8 DEF SameKeys

\* The same of the tile with what is pending in it.
LEMMA FlushedKeys ==
    ASSUME NEW V, Shaped(V), Counters, HasLayer, layer \in DOMAIN sources, along # 0
    PROVE  /\ \E W : Flushed \in Seq(LayersOf(W))
           /\ \E k \in DOMAIN Flushed : Flushed[k].name = Name
           /\ \A n, x : HasKey(Flushed, n, x)
                <=> \/ HasKey(out, n, x)
                    \/ pending # <<>> /\ ~Duplicate(pending[1]) /\ n = Name /\ x = pending[1].key
           /\ \A m \in DOMAIN Flushed : Flushed[m].name = Name \/ (m \in DOMAIN out /\ Flushed[m] = out[m])
           /\ \A d, s, l, a :
                 AllCome(d, out, s, l, a) /\ (pending # <<>> => ComesFrom(d, pending[1], s, l, a))
                   => AllCome(d, Flushed, s, l, a)
           /\ KeysOnce(out) /\ (pending # <<>> => \A n : ~HasKey(out, n, pending[1].key))
                => KeysOnce(Flushed)
<1>1. PICK k \in DOMAIN out : out[k].name = Name /\ k = In(out, Name)
  BY DEF HasLayer, In
<1>2. CASE pending = <<>>
  BY <1>1, <1>2 DEF Flushed, Shaped
<1>3. CASE pending # <<>> /\ Duplicate(pending[1])
  <2>1. Flushed = out /\ request.dedup
    BY <1>3 DEF Flushed, FeatureOut, Duplicate
  <2> QED
    BY <1>1, <1>3, <2>1 DEF Shaped
<1>4. CASE pending # <<>> /\ ~Duplicate(pending[1])
  <2>1. pending[1] \in FeaturesOf(V)
    BY <1>4 DEF Shaped
  <2> DEFINE W == V \cup {FullValues(pending)}
  <2>2. PICK f : f = [pending[1] EXCEPT !.values = FullValues(pending)]
    OBVIOUS
  <2>3. f \in FeaturesOf(W) /\ f.key = pending[1].key /\ f.seq = pending[1].seq
    BY <2>1, <2>2 DEF FeaturesOf
  <2>4. PICK u : u = Replaced(out, k, Append(out[k].features, f))
    OBVIOUS
  <2>5. Flushed = u
    BY <1>1, <1>4, <2>2, <2>4 DEF Flushed, FeatureOut, Replaced
  <2>6. out \in Seq(LayersOf(W))
    BY Wider DEF Shaped
  <2> HIDE DEF W
  <2>7. u \in Seq(LayersOf(W)) /\ OneMore(u, out, Name, f)
    BY <1>1, <2>3, <2>4, <2>6, OneMoreKey
  <2>8. \A d, s, l, a : ComesFrom(d, pending[1], s, l, a) => ComesFrom(d, f, s, l, a)
    BY <2>3 DEF ComesFrom
  <2> QED
    BY <1>4, <2>3, <2>5, <2>7, <2>8 DEF OneMore
<1> QED
  BY <1>2, <1>3, <1>4

-----------------------------------------------------------------------------
(* Every step keeps the features that are left. *)

LEMMA EmptyKeys ==
    /\ \A n, x : ~HasKey(<<>>, n, x)
    /\ KeysOnce(<<>>)
    /\ \A d, s, l, a : AllCome(d, <<>>, s, l, a)
BY DEF HasKey, KeysOnce, AllCome

LEMMA SourcesOnce ==
    ASSUME FirstInv
    PROVE  KeysOnce(request.layers)
BY KeyAssumption DEF FirstInv, KeysOnce

\* The steps that go on with the same tile, and those after it has been made.
LEMMA GoesOnMaking ==
    ASSUME FirstInv, place = 0, status = "reading", UNCHANGED <<request, place, status>>,
           Gathered', Ascends', Firsts'
    PROVE  FirstInv'
BY DEF FirstInv

LEMMA StaysMade ==
    ASSUME FirstInv, place # 0 \/ status = "done", UNCHANGED <<request, tile>>,
           place' \in 0..4, place' # 0 \/ status' = "done"
    PROVE  FirstInv'
BY DEF FirstInv, TileFirsts, TileAscends

LEMMA StartLayerFirsts == IInv /\ FirstInv /\ StartLayer => FirstInv'
<1> SUFFICES ASSUME IInv, FirstInv, StartLayer PROVE FirstInv'
  OBVIOUS
<1>1. PICK V : Shaped(V)
  BY DEF IInv, Shapes
<1>2. /\ layer \in DOMAIN sources /\ sources \in Seq(LayersOf(V)) /\ along = 0 /\ along' = 1
      /\ layer <= Len(sources) /\ status = "reading"
      /\ UNCHANGED <<request, place, sources, layer, pending, tile, status>>
  BY <1>1 DEF StartLayer, IInv, Counters, Shaped
<1>3. CASE place # 0
  BY <1>2, <1>3, StaysMade DEF FirstInv
<1>4. CASE place = 0
  <2>1. Gathered /\ Ascends /\ Firsts /\ pending = <<>>
    BY <1>2, <1>4 DEF FirstInv, Gathered, NoneWaits
  <2>2. /\ DOMAIN out \subseteq DOMAIN out'
        /\ \A k \in DOMAIN out : out'[k] = out[k]
        /\ \A k \in DOMAIN out' : k \in DOMAIN out \/ (out'[k].name = Name /\ out'[k].features = <<>>)
    BY <1>1, LayerBegun
  <2>3. \A k \in DOMAIN out' : k \in DOMAIN out \/ DOMAIN out'[k].features = {}
    BY <2>2
  <2>4. \A n, x : HasKey(out', n, x) <=> HasKey(out, n, x)
    BY <2>2, <2>3 DEF HasKey
  <2>5. \A d, s, l, a : AllCome(d, out, s, l, a) => AllCome(d, out', s, l, a)
    BY <2>2, <2>3 DEF AllCome
  <2>6. KeysOnce(out) => KeysOnce(out')
    BY <2>2, <2>3 DEF KeysOnce
  <2>7. Gathered'
    <3>1. \A d, f : ComesFrom(d, f, sources, layer, 0) => ComesFrom(d, f, sources, layer, 1)
      BY <1>2, ComingPlaces
    <3>2. AllCome(request.demultiply, out, sources, layer, 1)
      BY <1>2, <2>1, <3>1 DEF Gathered, AllCome
    <3> QED
      BY <1>2, <2>1, <2>5, <3>2 DEF Gathered, NoneWaits
  <2>8. Ascends'
    <3>1. Name' = Name
      BY <1>2 DEF Name
    <3>2. request.ordered => \A k \in DOMAIN out : Ascending(out[k].features)
      BY <1>2, <2>1 DEF Ascends
    <3> QED
      BY <1>2, <2>2, <3>1, <3>2 DEF Ascends, Shaped, IInv, Counters
  <2>9. Firsts'
    <3>1. \A d, n, x : FirstBefore(d, sources, layer, 1, n, x) <=> FirstBefore(d, sources, layer, 0, n, x)
      BY <1>2, FirstPlaces
    <3>2. ~OpenAt(sources[layer].features, 1)
      BY DEF OpenAt
    <3> QED
      BY <1>2, <2>1, <2>4, <2>6, <3>1, <3>2 DEF Firsts, HasFirsts
  <2> QED
    BY <1>2, <1>4, <2>7, <2>8, <2>9, GoesOnMaking
<1> QED
  BY <1>3, <1>4

\* What a feature does to its cluster, when it is at the place that is read next.
LEMMA ReadFirsts ==
    ASSUME NEW V, Shaped(V), Counters, HasLayer, AtFeature
    PROVE  /\ layer \in DOMAIN sources /\ along # 0 /\ along \in Nat /\ layer <= Len(sources)
           /\ Feature \in FeaturesOf(V) /\ Feature = sources[layer].features[along]
           /\ OpenAt(sources[layer].features, along + 1)
                <=> Kept(Feature) \/ (OpenAt(sources[layer].features, along) /\ ~Begins(Feature))
           /\ \A d, n, x : FirstBefore(d, sources, layer, along + 1, n, x)
                <=> \/ FirstBefore(d, sources, layer, along, n, x)
                    \/ /\ Name = n /\ Feature.key = x /\ Kept(Feature)
                       /\ d => Begins(Feature) \/ ~OpenAt(sources[layer].features, along)
           /\ \A d, f :
                 /\ ComesFrom(d, f, sources, layer, along) => ComesFrom(d, f, sources, layer, along + 1)
                 /\ f.key = Feature.key /\ (d => f.seq = Feature.seq)
                      => ComesFrom(d, f, sources, layer, along + 1)
                 /\ KeysOnce(sources) /\ ComesFrom(d, f, sources, layer, along) => f.key # Feature.key
<1>1. /\ layer \in DOMAIN sources /\ along # 0 /\ sources \in Seq(LayersOf(V))
      /\ along \in DOMAIN sources[layer].features /\ layer <= Len(sources)
      /\ Feature \in FeaturesOf(V) /\ along \in Nat /\ Feature = sources[layer].features[along]
  BY AtFeatureKnown DEF AtFeature, Shaped, Counters, Feature
<1>2. PICK fs : fs = sources[layer].features
  OBVIOUS
<1>3. fs \in Seq(FeaturesOf(V))
  BY <1>1, <1>2, Fields
<1>4. DOMAIN fs = 1..Len(fs) /\ Len(fs) \in Nat
  BY <1>3
<1>5. \A d : /\ OpenAt(fs, along + 1) <=> Kept(fs[along]) \/ (OpenAt(fs, along) /\ ~Begins(fs[along]))
             /\ FirstIn(d, fs, along) <=> Kept(fs[along]) /\ (d => Begins(fs[along]) \/ ~OpenAt(fs, along))
  BY <1>1, <1>2, <1>4, Clusters
<1>6. \A d, n, x : FirstBefore(d, sources, layer, along + 1, n, x)
         <=> \/ FirstBefore(d, sources, layer, along, n, x)
             \/ /\ sources[layer].name = n /\ FirstIn(d, sources[layer].features, along)
                /\ sources[layer].features[along].key = x
  <2> TAKE d
  <2>1. \A l \in DOMAIN sources : \A a \in DOMAIN sources[l].features : \A n, x :
           FirstBefore(d, sources, l, a + 1, n, x)
             <=> \/ FirstBefore(d, sources, l, a, n, x)
                 \/ sources[l].name = n /\ FirstIn(d, sources[l].features, a) /\ sources[l].features[a].key = x
    BY <1>1, FirstPlaces
  <2> QED
    BY <1>1, <2>1
<1>7. \A d, f :
         /\ ComesFrom(d, f, sources, layer, along) => ComesFrom(d, f, sources, layer, along + 1)
         /\ f.key = Feature.key /\ (d => f.seq = Feature.seq)
              => ComesFrom(d, f, sources, layer, along + 1)
         /\ KeysOnce(sources) /\ ComesFrom(d, f, sources, layer, along) => f.key # Feature.key
  <2> TAKE d
  <2>1. \A a \in DOMAIN sources[layer].features : \A f :
           /\ ComesFrom(d, f, sources, layer, a) => ComesFrom(d, f, sources, layer, a + 1)
           /\ f.key = sources[layer].features[a].key /\ (d => f.seq = sources[layer].features[a].seq)
                => ComesFrom(d, f, sources, layer, a + 1)
           /\ KeysOnce(sources) /\ ComesFrom(d, f, sources, layer, a)
                => f.key # sources[layer].features[a].key
    BY <1>1, ComingPlaces
  <2> QED
    BY <1>1, <2>1
<1>8. \A d, n, x : FirstBefore(d, sources, layer, along + 1, n, x)
         <=> \/ FirstBefore(d, sources, layer, along, n, x)
             \/ /\ Name = n /\ Feature.key = x /\ Kept(Feature)
                /\ d => Begins(Feature) \/ ~OpenAt(sources[layer].features, along)
  BY <1>1, <1>2, <1>5, <1>6 DEF Name
<1> QED
  BY <1>1, <1>2, <1>5, <1>7, <1>8

LEMMA ClipFirsts == IInv /\ FirstInv /\ Clip => FirstInv'
<1> SUFFICES ASSUME IInv, FirstInv, Clip PROVE FirstInv'
  OBVIOUS
<1>1. PICK V : Shaped(V)
  BY DEF IInv, Shapes
<1>2. /\ AtFeature /\ ~Visible(Feature) /\ along' = along + 1 /\ status = "reading"
      /\ UNCHANGED <<request, place, sources, layer, pending, out, tile, status>>
  BY DEF Clip, AtFeature
<1>3. CASE place # 0
  BY <1>2, <1>3, StaysMade DEF FirstInv
<1>4. CASE place = 0
  <2>1. Gathered /\ Ascends /\ Firsts
    BY <1>2, <1>4 DEF FirstInv
  <2>2. /\ layer <= Len(sources) /\ along # 0 /\ along \in Nat /\ layer \in Nat /\ Len(sources) \in Nat
        /\ OpenAt(sources[layer].features, along + 1)
             <=> Kept(Feature) \/ (OpenAt(sources[layer].features, along) /\ ~Begins(Feature))
        /\ \A d, n, x : FirstBefore(d, sources, layer, along + 1, n, x)
             <=> \/ FirstBefore(d, sources, layer, along, n, x)
                 \/ /\ Name = n /\ Feature.key = x /\ Kept(Feature)
                    /\ d => Begins(Feature) \/ ~OpenAt(sources[layer].features, along)
        /\ \A d, f :
              ComesFrom(d, f, sources, layer, along) => ComesFrom(d, f, sources, layer, along + 1)
    BY <1>1, <1>2, ReadFirsts DEF IInv, Counters, Shaped
  <2>3. ~Kept(Feature) /\ ~Begins(Feature)
    BY <1>2, <1>4 DEF Visible, Kept, Begins
  <2>4. Gathered'
    <3>1. AllCome(request.demultiply, out, sources, layer, along + 1)
      BY <2>1, <2>2 DEF Gathered, AllCome
    <3> QED
      BY <1>2, <2>1, <2>2, <3>1 DEF Gathered, NoneWaits
  <2>5. Ascends'
    BY <1>2, <2>1, <2>2 DEF Ascends, Name
  <2>6. Firsts'
    BY <1>2, <2>1, <2>2, <2>3 DEF Firsts, HasFirsts
  <2> QED
    BY <1>2, <1>4, <2>4, <2>5, <2>6, GoesOnMaking
<1> QED
  BY <1>3, <1>4

\* What is flushed has all its features from before the place that is read next, and none of
\* them is the one at that place.
LEMMA FlushedFirsts ==
    ASSUME NEW V, Shaped(V), Counters, HasLayer, FirstInv, AtFeature, Gathered, Ascends
    PROVE  /\ AllCome(request.demultiply, Flushed, sources, layer, along + 1)
           /\ \A n : ~HasKey(Flushed, n, Feature.key)
           /\ request.ordered =>
                 \A k \in DOMAIN Flushed : Flushed[k].name = Name \/ Ascending(Flushed[k].features)
<1> DEFINE d == request.demultiply
<1>1. /\ layer \in DOMAIN sources /\ along # 0
      /\ \A f : /\ ComesFrom(d, f, sources, layer, along) => ComesFrom(d, f, sources, layer, along + 1)
                /\ KeysOnce(sources) /\ ComesFrom(d, f, sources, layer, along) => f.key # Feature.key
  BY ReadFirsts
<1>2. KeysOnce(sources)
  BY SourcesOnce DEF Gathered
<1>3. /\ \A m \in DOMAIN Flushed : Flushed[m].name = Name \/ (m \in DOMAIN out /\ Flushed[m] = out[m])
      /\ AllCome(d, out, sources, layer, along)
           /\ (pending # <<>> => ComesFrom(d, pending[1], sources, layer, along))
             => AllCome(d, Flushed, sources, layer, along)
  BY <1>1, FlushedKeys
<1>4. AllCome(d, Flushed, sources, layer, along)
  BY <1>3 DEF Gathered
<1>5. AllCome(d, Flushed, sources, layer, along + 1)
  BY <1>1, <1>4 DEF AllCome
<1>6. \A n : ~HasKey(Flushed, n, Feature.key)
  BY <1>1, <1>2, <1>4 DEF AllCome, HasKey
<1>7. request.ordered => \A k \in DOMAIN Flushed : Flushed[k].name = Name \/ Ascending(Flushed[k].features)
  BY <1>3 DEF Ascends
<1> QED
  BY <1>5, <1>6, <1>7

LEMMA ReadKeepsFirsts == IInv /\ FirstInv /\ Read => FirstInv'
<1> SUFFICES ASSUME IInv, FirstInv, Read PROVE FirstInv'
  OBVIOUS
<1>1. PICK V : Shaped(V)
  BY DEF IInv, Shapes
<1>2. /\ AtFeature /\ Visible(Feature) /\ along' = along + 1 /\ status = "reading"
      /\ UNCHANGED <<request, place, sources, layer, tile, status>>
      /\ out' = AfterFlush(Feature).out
      /\ \/ Feature.fate = "kept" /\ pending' = Append(AfterFlush(Feature).pending, Untagged(Feature))
         \/ Feature.fate # "kept" /\ pending' = AfterFlush(Feature).pending
  BY DEF Read, AtFeature
<1>3. CASE place # 0
  BY <1>2, <1>3, StaysMade DEF FirstInv
<1> SUFFICES ASSUME place = 0 PROVE FirstInv'
  BY <1>3
<1>4. Gathered /\ Ascends /\ Firsts
  BY <1>2 DEF FirstInv
<1>5. /\ layer \in DOMAIN sources /\ layer <= Len(sources) /\ along # 0 /\ along \in Nat
      /\ layer \in Nat /\ Len(sources) \in Nat /\ Feature \in FeaturesOf(V)
      /\ OpenAt(sources[layer].features, along + 1)
           <=> Kept(Feature) \/ (OpenAt(sources[layer].features, along) /\ ~Begins(Feature))
      /\ \A d, n, x : FirstBefore(d, sources, layer, along + 1, n, x)
           <=> \/ FirstBefore(d, sources, layer, along, n, x)
               \/ /\ Name = n /\ Feature.key = x /\ Kept(Feature)
                  /\ d => Begins(Feature) \/ ~OpenAt(sources[layer].features, along)
      /\ \A d, f :
            /\ ComesFrom(d, f, sources, layer, along) => ComesFrom(d, f, sources, layer, along + 1)
            /\ f.key = Feature.key /\ (d => f.seq = Feature.seq)
                 => ComesFrom(d, f, sources, layer, along + 1)
  BY <1>1, <1>2, ReadFirsts DEF IInv, Counters, Shaped
<1>6. /\ Begins(Feature) <=> Feature.first
      /\ Kept(Feature) <=> Feature.fate = "kept"
  BY <1>2 DEF Visible, Begins, Kept
<1>7. Name' = Name
  BY <1>2 DEF Name
\* The feature goes on with a cluster that has one already.
<1>8. CASE pending # <<>> /\ request.demultiply /\ ~Feature.first
  <2>1. out' = out /\ pending' # <<>> /\ pending'[1] = pending[1]
    <3>1. AfterFlush(Feature) = [out |-> out, seen |-> seen, pending |-> pending]
      BY <1>8 DEF AfterFlush, Flushes
    <3>2. pending \in Seq(FeaturesOf(V)) /\ pending # <<>>
      BY <1>1, <1>8 DEF Shaped
    <3>3. \A f : Append(pending, f) # <<>> /\ Append(pending, f)[1] = pending[1]
      BY <3>2
    <3> QED
      BY <1>2, <3>1, <3>2, <3>3
  <2>2. Gathered'
    <3>1. AllCome(request.demultiply, out, sources, layer, along + 1)
      BY <1>4, <1>5 DEF Gathered, AllCome
    <3>2. ComesFrom(request.demultiply, pending[1], sources, layer, along + 1)
      BY <1>4, <1>5, <1>8 DEF Gathered
    <3>3. NoneWaits'
      BY <1>2, <1>5 DEF NoneWaits
    <3> QED
      BY <1>2, <1>4, <2>1, <3>1, <3>2, <3>3 DEF Gathered
  <2>3. Ascends'
    BY <1>2, <1>4, <1>5, <1>7, <2>1 DEF Ascends
  <2>4. Firsts'
    <3> SUFFICES ASSUME ~request.dedup
                 PROVE  /\ HasFirsts(request.demultiply, out, pending, sources, layer, along)'
                        /\ KeysOnce(out) /\ \A n : ~HasKey(out, n, pending[1].key)
                        /\ OpenAt(sources[layer].features, along + 1)
      BY <1>2, <2>1 DEF Firsts
    <3>1. /\ HasFirsts(request.demultiply, out, pending, sources, layer, along)
          /\ KeysOnce(out) /\ \A n : ~HasKey(out, n, pending[1].key)
          /\ OpenAt(sources[layer].features, along)
      BY <1>4, <1>5, <1>8 DEF Firsts
    <3>2. HasFirsts(request.demultiply, out, pending, sources, layer, along)'
      <4>1. \A n, x : FirstBefore(request.demultiply, sources, layer, along + 1, n, x)
               <=> FirstBefore(request.demultiply, sources, layer, along, n, x)
        BY <1>5, <1>6, <1>8, <3>1
      <4> SUFFICES ASSUME NEW n \in Names, NEW x
                   PROVE  HasKey(out, n, x) \/ (Name = n /\ pending[1].key = x)
                            <=> FirstBefore(request.demultiply, sources, layer, along + 1, n, x)
        BY <1>2, <2>1 DEF HasFirsts, Name
      <4> QED
        BY <1>8, <3>1, <4>1 DEF HasFirsts, Name
    <3> QED
      BY <1>5, <1>6, <1>8, <3>1, <3>2
  <2> QED
    BY <1>2, <2>2, <2>3, <2>4, GoesOnMaking
\* It begins a cluster, or there is none to go on with.
<1>9. CASE pending = <<>> \/ ~request.demultiply \/ Feature.first
  <2>1. /\ out' = Flushed
        /\ pending' = IF Feature.fate = "kept" THEN <<Untagged(Feature)>> ELSE <<>>
    <3>1. AfterFlush(Feature).out = Flushed /\ AfterFlush(Feature).pending = <<>>
      BY <1>9 DEF AfterFlush, Flushes, Flushed
    <3> QED
      BY <1>2, <3>1
  <2>2. /\ pending' # <<>> <=> Kept(Feature)
        /\ pending' # <<>> => pending'[1].key = Feature.key
        /\ pending' # <<>> /\ request.demultiply => pending'[1].seq = Feature.seq
    BY <1>5, <1>6, <2>1 DEF Untagged, FeaturesOf
  <2>3. /\ AllCome(request.demultiply, Flushed, sources, layer, along + 1)
        /\ \A n : ~HasKey(Flushed, n, Feature.key)
        /\ request.ordered =>
              \A k \in DOMAIN Flushed : Flushed[k].name = Name \/ Ascending(Flushed[k].features)
    BY <1>1, <1>2, <1>4, FlushedFirsts DEF IInv
  <2>4. Gathered'
    <3>1. pending' # <<>> => ComesFrom(request.demultiply, pending'[1], sources, layer, along + 1)
      BY <1>5, <2>2
    <3>2. NoneWaits'
      BY <1>2, <1>5 DEF NoneWaits
    <3> QED
      BY <1>2, <1>4, <2>1, <2>3, <3>1, <3>2 DEF Gathered
  <2>5. Ascends'
    BY <1>2, <1>5, <1>7, <2>1, <2>3 DEF Ascends
  <2>6. Firsts'
    <3> SUFFICES ASSUME ~request.dedup
                 PROVE  /\ HasFirsts(request.demultiply, out, pending, sources, layer, along)'
                        /\ KeysOnce(Flushed)
                        /\ request.demultiply =>
                              (Kept(Feature) <=> OpenAt(sources[layer].features, along + 1))
      BY <1>2, <2>1, <2>2, <2>3 DEF Firsts
    <3>1. /\ HasFirsts(request.demultiply, out, pending, sources, layer, along)
          /\ KeysOnce(out)
          /\ pending # <<>> => \A n : ~HasKey(out, n, pending[1].key)
          /\ request.demultiply => (pending # <<>> <=> OpenAt(sources[layer].features, along))
      BY <1>4, <1>5 DEF Firsts
    <3>2. /\ \A n, x : HasKey(Flushed, n, x)
                <=> HasKey(out, n, x) \/ (pending # <<>> /\ n = Name /\ x = pending[1].key)
          /\ KeysOnce(Flushed)
      <4>1. /\ \A n, x : HasKey(Flushed, n, x)
                 <=> \/ HasKey(out, n, x)
                     \/ pending # <<>> /\ ~Duplicate(pending[1]) /\ n = Name /\ x = pending[1].key
            /\ KeysOnce(out) /\ (pending # <<>> => \A n : ~HasKey(out, n, pending[1].key))
                 => KeysOnce(Flushed)
        BY <1>1, <1>5, FlushedKeys DEF IInv
      <4> QED
        BY <3>1, <4>1 DEF Duplicate
    <3>3. request.demultiply => Begins(Feature) \/ ~OpenAt(sources[layer].features, along)
      BY <1>6, <1>9, <3>1
    <3>4. HasFirsts(request.demultiply, out, pending, sources, layer, along)'
      <4>1. \A n, x : FirstBefore(request.demultiply, sources, layer, along + 1, n, x)
               <=> \/ FirstBefore(request.demultiply, sources, layer, along, n, x)
                   \/ Name = n /\ Feature.key = x /\ Kept(Feature)
        BY <1>5, <3>3
      <4> SUFFICES ASSUME NEW n \in Names, NEW x
                   PROVE  HasKey(out', n, x) \/ (pending' # <<>> /\ Name = n /\ pending'[1].key = x)
                            <=> FirstBefore(request.demultiply, sources, layer, along + 1, n, x)
        BY <1>2 DEF HasFirsts, Name
      <4>2. HasKey(out, n, x) \/ (pending # <<>> /\ Name = n /\ pending[1].key = x)
              <=> FirstBefore(request.demultiply, sources, layer, along, n, x)
        BY <3>1 DEF HasFirsts, Name
      <4> QED
        BY <2>1, <2>2, <3>2, <4>1, <4>2
    <3>5. request.demultiply => (Kept(Feature) <=> OpenAt(sources[layer].features, along + 1))
      BY <1>5, <3>3
    <3> QED
      BY <3>2, <3>4, <3>5
  <2> QED
    BY <1>2, <2>4, <2>5, <2>6, GoesOnMaking
<1> QED
  BY <1>8, <1>9

\* The limit is only ever reached when the tile has been made.
LEMMA LimitFirsts == FirstInv /\ (FlushToLimit \/ EndAtLimit) => FirstInv'
<1> SUFFICES ASSUME FirstInv, FlushToLimit \/ EndAtLimit PROVE FirstInv'
  OBVIOUS
<1>1. place # 0 /\ UNCHANGED <<request, place, tile>>
  BY DEF FlushToLimit, EndAtLimit, ReachesLimit, Full
<1> QED
  BY <1>1, StaysMade DEF FirstInv

LEMMA EndLayerFirsts == IInv /\ FirstInv /\ EndLayer => FirstInv'
<1> SUFFICES ASSUME IInv, FirstInv, EndLayer PROVE FirstInv'
  OBVIOUS
<1>1. PICK V : Shaped(V)
  BY DEF IInv, Shapes
<1>2. /\ status = "reading" /\ UNCHANGED <<request, place, sources, tile, status>>
      /\ layer' = layer + 1 /\ along' = 0 /\ pending' = <<>>
      /\ along = Len(sources[layer].features) + 1
  BY DEF EndLayer, AtEnd
<1>3. CASE place # 0
  BY <1>2, <1>3, StaysMade DEF FirstInv
<1> SUFFICES ASSUME place = 0 PROVE FirstInv'
  BY <1>3
<1>4. layer \in DOMAIN sources /\ sources \in Seq(LayersOf(V))
  BY <1>1 DEF EndLayer, AtEnd, Shaped, IInv, Counters
<1>5. along # 0
  <2>1. sources[layer].features \in Seq(FeaturesOf(V))
    BY <1>1, <1>4, Fields DEF Shaped
  <2> QED
    BY <1>2, <2>1
<1>6. Gathered /\ Ascends /\ Firsts
  BY <1>2 DEF FirstInv
<1>7. PICK W : Flushed \in Seq(LayersOf(W))
  BY <1>1, <1>4, <1>5, FlushedKeys DEF IInv
<1>8. PICK k \in DOMAIN Flushed : Flushed[k].name = Name /\ k = In(Flushed, Name)
  <2>1. \E k \in DOMAIN Flushed : Flushed[k].name = Name
    BY <1>1, <1>4, <1>5, FlushedKeys DEF IInv
  <2> QED
    BY <2>1 DEF In
<1>9. IF request.ordered
      THEN \E fs \in Restored(Flushed[k].features) : out' = Replaced(Flushed, k, fs)
      ELSE out' = Flushed
  <2>1. PICK ended : /\ ended.out = Flushed
                     /\ IF request.ordered
                        THEN \E fs \in Restored(ended.out[In(ended.out, Name)].features) :
                                out' = [ended.out EXCEPT ![In(ended.out, Name)].features = fs]
                        ELSE out' = ended.out
    BY DEF EndLayer, Flushed
  <2> QED
    BY <1>8, <2>1 DEF Replaced
<1>10. SameKeys(out', Flushed)
  <2>1. SameKeys(Flushed, Flushed)
    BY DEF SameKeys
  <2> QED
    BY <1>7, <1>8, <1>9, <2>1, OrderedKeys
<1>11. Gathered'
  <2>1. AllCome(request.demultiply, Flushed, sources, layer, along)
    <3>1. AllCome(request.demultiply, out, sources, layer, along)
            /\ (pending # <<>> => ComesFrom(request.demultiply, pending[1], sources, layer, along))
              => AllCome(request.demultiply, Flushed, sources, layer, along)
      BY <1>1, <1>4, <1>5, FlushedKeys DEF IInv
    <3> QED
      BY <1>6, <3>1 DEF Gathered
  <2>2. \A f : ComesFrom(request.demultiply, f, sources, layer, along)
                 => ComesFrom(request.demultiply, f, sources, layer + 1, 0)
    BY <1>2, <1>4, ComingPlaces
  <2>3. AllCome(request.demultiply, out', sources, layer, along)
    BY <1>10, <2>1 DEF SameKeys
  <2>4. AllCome(request.demultiply, out', sources, layer + 1, 0)
    BY <2>2, <2>3 DEF AllCome
  <2> QED
    BY <1>2, <1>6, <2>4 DEF Gathered, NoneWaits
<1>12. Ascends'
  <2> SUFFICES ASSUME request.ordered, NEW m \in DOMAIN out'
               PROVE  Ascending(out'[m].features)
    BY <1>2 DEF Ascends
  <2>1. /\ k \in DOMAIN out' /\ out'[k].name = Name /\ Ascending(out'[k].features)
        /\ m = k \/ (m \in DOMAIN Flushed /\ out'[m] = Flushed[m])
    BY <1>7, <1>8, <1>9, OrderedKeys
  <2>2. CASE m = k
    BY <2>1, <2>2
  <2>3. CASE m # k
    <3>1. OneLayerEach(out')
      <4>1. IInv'
        BY EndLayerKeeps
      <4> QED
        BY <4>1 DEF IInv, Good
    <3>2. out'[m].name # Name
      BY <2>1, <2>3, <3>1 DEF OneLayerEach
    <3>3. m \in DOMAIN out /\ out'[m] = out[m]
      <4>1. \A i \in DOMAIN Flushed : Flushed[i].name = Name \/ (i \in DOMAIN out /\ Flushed[i] = out[i])
        BY <1>1, <1>4, <1>5, FlushedKeys DEF IInv
      <4> QED
        BY <2>1, <2>3, <3>2, <4>1
    <3> QED
      BY <1>6, <3>2, <3>3 DEF Ascends
  <2> QED
    BY <2>2, <2>3
<1>13. Firsts'
  <2> SUFFICES ASSUME ~request.dedup
               PROVE  KeysOnce(out') /\ HasFirsts(request.demultiply, out, pending, sources, layer, along)'
    BY <1>2 DEF Firsts
  <2>1. /\ HasFirsts(request.demultiply, out, pending, sources, layer, along)
        /\ KeysOnce(out)
        /\ pending # <<>> => \A n : ~HasKey(out, n, pending[1].key)
    BY <1>6 DEF Firsts
  <2>2. /\ \A n, x : HasKey(Flushed, n, x)
              <=> HasKey(out, n, x) \/ (pending # <<>> /\ n = Name /\ x = pending[1].key)
        /\ KeysOnce(Flushed)
    <3>1. /\ \A n, x : HasKey(Flushed, n, x)
               <=> \/ HasKey(out, n, x)
                   \/ pending # <<>> /\ ~Duplicate(pending[1]) /\ n = Name /\ x = pending[1].key
          /\ KeysOnce(out) /\ (pending # <<>> => \A n : ~HasKey(out, n, pending[1].key))
               => KeysOnce(Flushed)
      BY <1>1, <1>4, <1>5, FlushedKeys DEF IInv
    <3> QED
      BY <2>1, <3>1 DEF Duplicate
  <2>3. \A n, x : FirstBefore(request.demultiply, sources, layer + 1, 0, n, x)
                    <=> FirstBefore(request.demultiply, sources, layer, along, n, x)
    BY <1>2, <1>4, FirstPlaces
  <2>4. HasFirsts(request.demultiply, out, pending, sources, layer, along)'
    <3> SUFFICES ASSUME NEW n \in Names, NEW x
                 PROVE  HasKey(out', n, x) <=> FirstBefore(request.demultiply, sources, layer + 1, 0, n, x)
      BY <1>2 DEF HasFirsts
    <3>1. HasKey(out', n, x) <=> HasKey(Flushed, n, x)
      BY <1>10 DEF SameKeys
    <3> QED
      BY <2>1, <2>2, <2>3, <3>1 DEF HasFirsts, Name
  <2> QED
    BY <1>10, <2>2, <2>4 DEF SameKeys
<1> QED
  BY <1>2, <1>11, <1>12, <1>13, GoesOnMaking

LEMMA FinishTileFirsts == IInv /\ FirstInv /\ FinishTile => FirstInv'
<1> SUFFICES ASSUME IInv, FirstInv, FinishTile PROVE FirstInv'
  OBVIOUS
<1>1. PICK V : Shaped(V)
  BY DEF IInv, Shapes
<1>2. /\ status = "reading" /\ place = 0 /\ layer > Len(sources) /\ layer \in Nat
      /\ UNCHANGED request
      /\ sources \in Seq(LayersOf(V)) /\ out \in Seq(LayersOf(V))
      /\ place' \in 0..4 /\ (place' # 0 \/ status' = "done")
  BY <1>1 DEF FinishTile, AtTileEnd, LookAt, IInv, Counters, Shaped
<1>3. /\ Gathered /\ Ascends /\ Firsts /\ pending = <<>> /\ along = 0 /\ sources = request.layers
  BY <1>2 DEF FirstInv, Gathered, NoneWaits, Ascends
<1>4. /\ SameKeys(tile', out)
      /\ \A i \in DOMAIN tile' : \E k \in DOMAIN out : tile'[i] = out[k]
  <2>1. tile' \in Returned(out)
    BY DEF FinishTile
  <2> QED
    BY <1>2, <2>1, ReturnedKeys
<1>5. TileFirsts'
  <2> SUFFICES ASSUME ~request.dedup
               PROVE  /\ \A n \in Names : \A x :
                            HasKey(tile', n, x)
                              <=> \E m \in DOMAIN request.layers :
                                     /\ request.layers[m].name = n
                                     /\ \E i \in DOMAIN request.layers[m].features :
                                           /\ FirstIn(request.demultiply, request.layers[m].features, i)
                                           /\ request.layers[m].features[i].key = x
                      /\ KeysOnce(tile')
    BY <1>2 DEF TileFirsts
  <2>1. HasFirsts(request.demultiply, out, pending, sources, layer, along) /\ KeysOnce(out)
    BY <1>3 DEF Firsts
  <2>2. \A n, x : FirstBefore(request.demultiply, sources, layer, along, n, x)
          <=> \E m \in DOMAIN sources : sources[m].name = n /\ \E i \in DOMAIN sources[m].features :
                 FirstIn(request.demultiply, sources[m].features, i) /\ sources[m].features[i].key = x
    <3>1. \A m \in DOMAIN sources : \A i \in DOMAIN sources[m].features : Earlier(m, i, layer, along)
      BY <1>2, Places
    <3> QED
      BY <3>1 DEF FirstBefore
  <2>3. KeysOnce(tile')
    BY <1>4, <2>1 DEF SameKeys
  <2>4. \A n, x : HasKey(tile', n, x) <=> HasKey(out, n, x)
    BY <1>4 DEF SameKeys
  <2>5. \A n \in Names : \A x : HasKey(out, n, x)
           <=> FirstBefore(request.demultiply, sources, layer, along, n, x)
    BY <1>3, <2>1 DEF HasFirsts
  <2> QED
    BY <1>3, <2>2, <2>3, <2>4, <2>5
<1>6. TileAscends'
  <2> SUFFICES ASSUME request.ordered
               PROVE  /\ \A k \in DOMAIN tile' : Ascending(tile'[k].features)
                      /\ AllCome(request.demultiply, tile', sources, Len(sources) + 1, 0)
    BY <1>2, <1>3 DEF TileAscends
  <2>1. AllCome(request.demultiply, out, sources, layer, along)
    BY <1>3 DEF Gathered
  <2>2. \A f : ComesFrom(request.demultiply, f, sources, layer, along)
                 => ComesFrom(request.demultiply, f, sources, Len(sources) + 1, 0)
    <3>1. Len(sources) + 1 \in Nat /\ Len(sources) + 1 > Len(sources)
      BY <1>2
    <3>2. \A m \in DOMAIN sources : \A i \in DOMAIN sources[m].features :
             Earlier(m, i, Len(sources) + 1, 0)
      BY <1>2, <3>1, Places
    <3> QED
      BY <3>2 DEF ComesFrom
  <2>3. AllCome(request.demultiply, tile', sources, layer, along)
    BY <1>4, <2>1 DEF SameKeys
  <2>4. AllCome(request.demultiply, tile', sources, Len(sources) + 1, 0)
    BY <2>2, <2>3 DEF AllCome
  <2>5. \A k \in DOMAIN out : Ascending(out[k].features)
    BY <1>3 DEF Ascends
  <2> QED
    BY <1>4, <2>4, <2>5
<1> QED
  BY <1>2, <1>5, <1>6 DEF FirstInv

LEMMA InitFirsts == Init => FirstInv
<1> SUFFICES ASSUME Init PROVE FirstInv
  OBVIOUS
<1>1. PICK V : Shaped(V)
  BY InitKnown DEF IInv, Shapes
<1>2. /\ request \in Requests /\ sources = request.layers /\ place = 0 /\ layer = 1 /\ along = 0
      /\ pending = <<>> /\ out = <<>> /\ status = "reading"
  BY DEF Init
<1>3. \A d, n, x : ~FirstBefore(d, sources, layer, along, n, x)
  BY <1>1, <1>2, FirstPlaces DEF Shaped
<1>4. Gathered /\ Ascends
  BY <1>2, EmptyKeys DEF Gathered, NoneWaits, Ascends
<1>5. Firsts
  BY <1>2, <1>3, EmptyKeys DEF Firsts, HasFirsts
<1> QED
  BY <1>2, <1>4, <1>5 DEF FirstInv

LEMMA NextFirsts == IInv /\ FirstInv /\ [Next]_vars => FirstInv'
<1> SUFFICES ASSUME IInv, FirstInv, [Next]_vars PROVE FirstInv'
  OBVIOUS
<1>1. CASE Exit
  <2>1. status = "reading" /\ status' = "exited" /\ UNCHANGED <<request, place, tile>>
    BY <1>1 DEF Exit, AtFeature, AtEnd
  <2>2. place # 0 => FirstInv'
    BY <2>1, StaysMade DEF FirstInv
  <2>3. place = 0 => FirstInv'
    BY <2>1 DEF FirstInv
  <2> QED
    BY <2>2, <2>3
<1>2. CASE FinishChild
  <2>1. place # 0 /\ UNCHANGED <<request, tile>> /\ (place' = place \/ (place < 4 /\ place' = place + 1))
    BY <1>2 DEF FinishChild, LookAt
  <2>2. place' \in 0..4 /\ place' # 0
    BY <2>1 DEF FirstInv
  <2> QED
    BY <2>1, <2>2, StaysMade
<1>3. CASE UNCHANGED vars
  BY <1>3 DEF vars, FirstInv, Gathered, NoneWaits, Ascends, Name, Firsts, TileFirsts, TileAscends
<1> QED
  BY <1>1, <1>2, <1>3, StartLayerFirsts, ClipFirsts, ReadKeepsFirsts, LimitFirsts, EndLayerFirsts,
     FinishTileFirsts DEF Next

\* Of every cluster one feature is left, the first that is kept, and of nothing else
\* (clip.cpp:1591-1618).
THEOREM KeepsFirsts == Spec => []FirstOfEach
<1>1. FirstInv => FirstOfEach
  <2> SUFFICES ASSUME FirstInv, status = "done", ~request.dedup, NEW n \in Names
               PROVE  /\ UNION {Keys(tile[k].features) : k \in Made(n)} =
                         UNION {{request.layers[l].features[i].key :
                                    i \in {j \in DOMAIN request.layers[l].features :
                                              IsFirst(request.layers[l].features, j)}} :
                                l \in Source(n)}
                      /\ \A k \in Made(n) : \A i, j \in DOMAIN tile[k].features :
                            i # j => tile[k].features[i].key # tile[k].features[j].key
    BY DEF FirstOfEach, Plain
  <2>1. /\ \A x : HasKey(tile, n, x)
              <=> \E m \in DOMAIN request.layers :
                     /\ request.layers[m].name = n
                     /\ \E i \in DOMAIN request.layers[m].features :
                           /\ FirstIn(request.demultiply, request.layers[m].features, i)
                           /\ request.layers[m].features[i].key = x
        /\ KeysOnce(tile)
    BY DEF FirstInv, TileFirsts
  <2>2. \A x : x \in UNION {Keys(tile[k].features) : k \in Made(n)} <=> HasKey(tile, n, x)
    BY DEF Keys, Made, HasKey
  <2>3. \A fs, i : IsFirst(fs, i) <=> FirstIn(request.demultiply, fs, i)
    BY DEF IsFirst, FirstIn, Begins
  <2> DEFINE F(l) == {request.layers[l].features[i].key :
                         i \in {j \in DOMAIN request.layers[l].features :
                                   IsFirst(request.layers[l].features, j)}}
  <2>4. \A l, x : x \in F(l) <=> \E i \in DOMAIN request.layers[l].features :
                                   /\ FirstIn(request.demultiply, request.layers[l].features, i)
                                   /\ request.layers[l].features[i].key = x
    BY <2>3
  <2> HIDE DEF F
  <2>5. \A x : x \in UNION {F(l) : l \in Source(n)} <=> HasKey(tile, n, x)
    BY <2>1, <2>4 DEF Source
  <2>6. UNION {Keys(tile[k].features) : k \in Made(n)} = UNION {F(l) : l \in Source(n)}
    BY <2>2, <2>5
  <2>7. \A k \in Made(n) : \A i, j \in DOMAIN tile[k].features :
           i # j => tile[k].features[i].key # tile[k].features[j].key
    BY <2>1 DEF KeysOnce, Made
  <2> QED
    BY <2>6, <2>7 DEF F
<1> QED
  BY <1>1, InitKnown, NextKeeps, InitFirsts, NextFirsts, PTL DEF Spec

\* The features of every layer come in the order of the input, if that is what was asked for,
\* whichever tiles they were read from (clip.cpp:1691-1693).
THEOREM RestoresOrder == Spec => []OrderRestored
<1>1. FirstInv => OrderRestored
  <2> SUFFICES ASSUME FirstInv, status = "done", request.ordered, request.demultiply,
                      NEW k \in DOMAIN tile, NEW i \in DOMAIN tile[k].features,
                      NEW j \in DOMAIN tile[k].features, i < j
               PROVE  Sequence(tile[k].features[i].key) <= Sequence(tile[k].features[j].key)
    BY DEF OrderRestored
  <2> DEFINE ts == request.layers
             At == UNION {{l} \X DOMAIN ts[l].features : l \in DOMAIN ts}
  <2>1. KeysOnce(ts)
    BY SourcesOnce
  <2>2. TileAscends
    BY DEF FirstInv
  <2>3. ASSUME NEW f, ComesFrom(TRUE, f, ts, Len(ts) + 1, 0)
        PROVE  Sequence(f.key) = f.seq
    <3>1. PICK m \in DOMAIN ts : \E a \in DOMAIN ts[m].features :
             ts[m].features[a].key = f.key /\ ts[m].features[a].seq = f.seq
      BY <2>3 DEF ComesFrom
    <3>2. PICK a \in DOMAIN ts[m].features :
             ts[m].features[a].key = f.key /\ ts[m].features[a].seq = f.seq
      BY <3>1
    <3>3. \A at \in At : ts[at[1]].features[at[2]].key = f.key => at[1] = m /\ at[2] = a
      BY <2>1, <3>2 DEF KeysOnce
    <3>4. <<m, a>> \in At /\ ts[<<m, a>>[1]].features[<<m, a>>[2]].key = f.key
      BY <3>2
    <3>5. PICK c : c = CHOOSE at \in At : ts[at[1]].features[at[2]].key = f.key
      OBVIOUS
    <3>6. c[1] = m /\ c[2] = a
      <4> HIDE DEF At, ts
      <4> QED
        BY <3>3, <3>4, <3>5
    <3>7. Sequence(f.key) = ts[c[1]].features[c[2]].seq
      BY <3>5 DEF Sequence
    <3> QED
      BY <3>2, <3>6, <3>7
  <2>4. \A b \in DOMAIN tile[k].features :
           Sequence(tile[k].features[b].key) = tile[k].features[b].seq
    <3>1. \A b \in DOMAIN tile[k].features : ComesFrom(TRUE, tile[k].features[b], ts, Len(ts) + 1, 0)
      BY <2>2 DEF TileAscends, AllCome
    <3> QED
      BY <2>3, <3>1
  <2>5. tile[k].features[i].seq <= tile[k].features[j].seq
    BY <2>2 DEF TileAscends, Ascending
  <2> QED
    BY <2>4, <2>5
<1> QED
  BY <1>1, InitKnown, NextKeeps, InitFirsts, NextFirsts, PTL DEF Spec

-----------------------------------------------------------------------------
(***************************************************************************)
(* Identifiers.  What is pending begins with the leader that waits, and     *)
(* what was seen is what was clipped or filtered away and the leaders of    *)
(* the clusters that were put out.  So the identifier of a leader has been  *)
(* seen when it is put out just if it is taken, wherever by, and the tile   *)
(* has the leaders whose identifiers were not.                              *)
(***************************************************************************)

\* A feature that is visible puts out what is pending, or goes on with its cluster.
Turns(d, f) == f.at # {} /\ (d => f.first)

\* What is pending there begins with that feature of the layer, if a was not passed.
WaitsAt(d, fs, a, i) ==
    /\ i \in DOMAIN fs /\ i < a /\ FirstIn(d, fs, i)
    /\ \A k \in (i + 1)..(a - 1) : ~Turns(d, fs[k])

\* The cluster that the feature leads was put out before that place.
PutOut(d, t, m, i, l, a) ==
    m < l \/ (m = l /\ \E k \in (i + 1)..(a - 1) : Turns(d, t[m].features[k]))

\* The identifiers that a layer of that name has been asked to remember there.
SeenAt(d, t, l, a, n, x) ==
    \E m \in DOMAIN t : t[m].name = n /\ \E i \in DOMAIN t[m].features :
        /\ t[m].features[i].id = x
        /\ \/ Earlier(m, i, l, a) /\ ~Kept(t[m].features[i])
           \/ FirstIn(d, t[m].features, i) /\ PutOut(d, t, m, i, l, a)

TakenIn(d, t, l, j) ==
    LET f == t[l].features[j]
    IN  /\ f.id # NoId
        /\ \E m \in DOMAIN t : t[m].name = t[l].name /\ \E i \in DOMAIN t[m].features :
              /\ t[m].features[i].id = f.id
              /\ \/ /\ ~Kept(t[m].features[i])
                    /\ m < l \/ (m = l /\ \A k \in (j + 1)..i : ~Turns(d, t[l].features[k]))
                 \/ FirstIn(d, t[m].features, i) /\ Earlier(m, i, l, j)

\* The leaders of clusters whose identifiers were not taken.
LeftAt(d, t, l, a, n, x) ==
    \E m \in DOMAIN t : t[m].name = n /\ \E i \in DOMAIN t[m].features :
        /\ FirstIn(d, t[m].features, i) /\ PutOut(d, t, m, i, l, a) /\ ~TakenIn(d, t, m, i)
        /\ t[m].features[i].key = x

\* Between two leaders a cluster is put out.
LEMMA LeadersApart ==
    ASSUME NEW fs, NEW n \in Nat, DOMAIN fs = 1..n, NEW d, NEW i \in DOMAIN fs, NEW j \in DOMAIN fs,
           i < j, Kept(fs[i]), FirstIn(d, fs, j)
    PROVE  \E k \in (i + 1)..j : Turns(d, fs[k])
<1>1. i \in 1..(j - 1) /\ j \in (i + 1)..j
  OBVIOUS
<1>2. CASE d
  BY <1>1, <1>2 DEF FirstIn, Turns, Begins
<1>3. CASE ~d
  BY <1>1, <1>3 DEF FirstIn, Turns, Kept
<1> QED
  BY <1>2, <1>3

\* One leader at most waits at a place.
LEMMA OneWaits ==
    ASSUME NEW fs, NEW n \in Nat, DOMAIN fs = 1..n, NEW d, NEW a \in 0..(n + 1),
           NEW i, NEW j, WaitsAt(d, fs, a, i), WaitsAt(d, fs, a, j)
    PROVE  i = j
<1>1. i \in DOMAIN fs /\ j \in DOMAIN fs /\ i < a /\ j < a /\ FirstIn(d, fs, i) /\ FirstIn(d, fs, j)
  BY DEF WaitsAt
<1>2. \A p, q \in DOMAIN fs : WaitsAt(d, fs, a, p) /\ FirstIn(d, fs, q) /\ p < q => ~(q < a)
  <2> SUFFICES ASSUME NEW p \in DOMAIN fs, NEW q \in DOMAIN fs, WaitsAt(d, fs, a, p), FirstIn(d, fs, q),
                      p < q, q < a
               PROVE  FALSE
    OBVIOUS
  <2>1. Kept(fs[p])
    BY DEF WaitsAt, FirstIn
  <2>2. PICK k \in (p + 1)..q : Turns(d, fs[k])
    BY <2>1, LeadersApart
  <2>3. k \in (p + 1)..(a - 1)
    OBVIOUS
  <2> QED
    BY <2>2, <2>3 DEF WaitsAt
<1> QED
  BY <1>1, <1>2

\* Who waits at the next place.
LEMMA WaitPlaces ==
    ASSUME NEW fs, NEW n \in Nat, DOMAIN fs = 1..n, NEW d, NEW a \in DOMAIN fs
    PROVE  /\ \A i : ~WaitsAt(d, fs, 1, i)
           /\ \A i : WaitsAt(d, fs, a + 1, i)
                       <=> \/ WaitsAt(d, fs, a, i) /\ ~Turns(d, fs[a])
                           \/ i = a /\ FirstIn(d, fs, a)
<1>1. \A i : ~WaitsAt(d, fs, 1, i)
  BY DEF WaitsAt
<1>2. ASSUME NEW i \in DOMAIN fs
      PROVE  WaitsAt(d, fs, a + 1, i) <=> \/ WaitsAt(d, fs, a, i) /\ ~Turns(d, fs[a])
                                          \/ i = a /\ FirstIn(d, fs, a)
  <2>1. CASE i < a
    <3>1. \A k : k \in (i + 1)..((a + 1) - 1) <=> k \in (i + 1)..(a - 1) \/ k = a
      BY <2>1
    <3> QED
      BY <2>1, <3>1 DEF WaitsAt
  <2>2. CASE i = a
    <3>1. \A k : ~(k \in (i + 1)..((a + 1) - 1))
      BY <2>2
    <3> QED
      BY <2>2, <3>1 DEF WaitsAt
  <2>3. CASE i > a
    BY <2>3 DEF WaitsAt
  <2> QED
    BY <2>1, <2>2, <2>3
<1> QED
  BY <1>1, <1>2 DEF WaitsAt

\* A leader that was passed in its layer has been put out or waits, and not both.
LEMMA WaitsOrOut ==
    ASSUME NEW V, NEW t \in Seq(LayersOf(V)), NEW d, NEW l \in DOMAIN t, NEW i \in DOMAIN t[l].features,
           NEW a \in 1..(Len(t[l].features) + 1), FirstIn(d, t[l].features, i)
    PROVE  /\ PutOut(d, t, l, i, l, a) => i < a /\ ~WaitsAt(d, t[l].features, a, i)
           /\ i < a => PutOut(d, t, l, i, l, a) \/ WaitsAt(d, t[l].features, a, i)
<1>1. t[l].features \in Seq(FeaturesOf(V)) /\ l \in Nat
  BY Fields
<1>2. DOMAIN t[l].features = 1..Len(t[l].features) /\ Len(t[l].features) \in Nat
  BY <1>1
<1> QED
  BY <1>1, <1>2 DEF PutOut, WaitsAt

LEMMA OutPlaces ==
    ASSUME NEW V, NEW t \in Seq(LayersOf(V)), NEW d, NEW m \in DOMAIN t, NEW i \in DOMAIN t[m].features
    PROVE  /\ \A l \in Nat : \A a : l > Len(t) => PutOut(d, t, m, i, l, a)
           /\ ~PutOut(d, t, m, i, 1, 0)
           /\ \A l \in DOMAIN t : PutOut(d, t, m, i, l, 1) <=> PutOut(d, t, m, i, l, 0)
           /\ \A l \in DOMAIN t : PutOut(d, t, m, i, l + 1, 0)
                                    <=> PutOut(d, t, m, i, l, Len(t[l].features) + 1) \/ m = l
           /\ \A l \in DOMAIN t : \A a \in DOMAIN t[l].features :
                 PutOut(d, t, m, i, l, a + 1)
                   <=> \/ PutOut(d, t, m, i, l, a)
                       \/ m = l /\ i < a /\ Turns(d, t[l].features[a])
<1>1. /\ DOMAIN t = 1..Len(t) /\ Len(t) \in Nat
      /\ \A l \in DOMAIN t : /\ DOMAIN t[l].features = 1..Len(t[l].features)
                            /\ Len(t[l].features) \in Nat
  BY Fields
<1>2. m \in Nat \ {0} /\ i \in Nat \ {0} /\ m <= Len(t) /\ i <= Len(t[m].features)
  BY <1>1
<1>3. ASSUME NEW l \in DOMAIN t
      PROVE  PutOut(d, t, m, i, l + 1, 0) <=> PutOut(d, t, m, i, l, Len(t[l].features) + 1) \/ m = l
  <2>1. l \in Nat /\ \A k : ~(k \in (i + 1)..(0 - 1))
    BY <1>1, <1>2
  <2> QED
    BY <1>2, <2>1 DEF PutOut
<1>4. ASSUME NEW l \in DOMAIN t, NEW a \in DOMAIN t[l].features
      PROVE  PutOut(d, t, m, i, l, a + 1)
               <=> \/ PutOut(d, t, m, i, l, a)
                   \/ m = l /\ i < a /\ Turns(d, t[l].features[a])
  <2>1. l \in Nat /\ a \in Nat
    BY <1>1
  <2>2. \A k : k \in (i + 1)..((a + 1) - 1) <=> k \in (i + 1)..(a - 1) \/ (k = a /\ i < a)
    BY <1>2, <2>1
  <2> QED
    BY <1>2, <2>1, <2>2 DEF PutOut
<1>5. \A l \in Nat : \A a : l > Len(t) => PutOut(d, t, m, i, l, a)
  BY <1>1, <1>2 DEF PutOut
<1>6. \A k : ~(k \in (i + 1)..(0 - 1)) /\ ~(k \in (i + 1)..(1 - 1))
  BY <1>2
<1>7. \A l \in DOMAIN t : PutOut(d, t, m, i, l, 1) <=> PutOut(d, t, m, i, l, 0)
  BY <1>6 DEF PutOut
<1>8. ~PutOut(d, t, m, i, 1, 0)
  BY <1>2, <1>6 DEF PutOut
<1> QED
  BY <1>3, <1>4, <1>5, <1>7, <1>8

\* What the cluster that waits at a place adds when it is put out.
IdWaits(d, fs, a, x) == \E i : WaitsAt(d, fs, a, i) /\ fs[i].id = x

LeftWaits(d, t, l, a, x) ==
    \E i : WaitsAt(d, t[l].features, a, i) /\ ~TakenIn(d, t, l, i) /\ t[l].features[i].key = x

LEMMA SeenPlaces ==
    ASSUME NEW V, NEW t \in Seq(LayersOf(V)), NEW d, NEW n, NEW x
    PROVE  /\ ~SeenAt(d, t, 1, 0, n, x)
           /\ \A l \in DOMAIN t : SeenAt(d, t, l, 1, n, x) <=> SeenAt(d, t, l, 0, n, x)
           /\ \A l \in DOMAIN t : SeenAt(d, t, l + 1, 0, n, x)
                <=> \/ SeenAt(d, t, l, Len(t[l].features) + 1, n, x)
                    \/ t[l].name = n /\ IdWaits(d, t[l].features, Len(t[l].features) + 1, x)
           /\ \A l \in DOMAIN t : \A a \in DOMAIN t[l].features :
                 SeenAt(d, t, l, a + 1, n, x)
                   <=> \/ SeenAt(d, t, l, a, n, x)
                       \/ t[l].name = n /\ t[l].features[a].id = x /\ ~Kept(t[l].features[a])
                       \/ t[l].name = n /\ Turns(d, t[l].features[a]) /\ IdWaits(d, t[l].features, a, x)
<1>1. ~SeenAt(d, t, 1, 0, n, x)
  BY Places, OutPlaces DEF SeenAt
<1>2. \A l \in DOMAIN t : SeenAt(d, t, l, 1, n, x) <=> SeenAt(d, t, l, 0, n, x)
  <2> SUFFICES ASSUME NEW l \in DOMAIN t
               PROVE  SeenAt(d, t, l, 1, n, x) <=> SeenAt(d, t, l, 0, n, x)
    OBVIOUS
  <2>1. \A m \in DOMAIN t : \A i \in DOMAIN t[m].features :
          /\ Earlier(m, i, l, 1) <=> Earlier(m, i, l, 0)
          /\ PutOut(d, t, m, i, l, 1) <=> PutOut(d, t, m, i, l, 0)
    BY Places, OutPlaces
  <2> QED
    BY <2>1 DEF SeenAt
<1>3. \A l \in DOMAIN t : DOMAIN t[l].features = 1..Len(t[l].features) /\ Len(t[l].features) \in Nat
  BY Fields
<1>4. ASSUME NEW l \in DOMAIN t
      PROVE  SeenAt(d, t, l + 1, 0, n, x)
               <=> \/ SeenAt(d, t, l, Len(t[l].features) + 1, n, x)
                   \/ t[l].name = n /\ IdWaits(d, t[l].features, Len(t[l].features) + 1, x)
  <2> DEFINE e == Len(t[l].features) + 1
  <2>1. \A m \in DOMAIN t : \A i \in DOMAIN t[m].features :
          /\ Earlier(m, i, l + 1, 0) <=> Earlier(m, i, l, e)
          /\ PutOut(d, t, m, i, l + 1, 0) <=> PutOut(d, t, m, i, l, e) \/ m = l
    BY Places, OutPlaces
  <2>2. e \in 1..(Len(t[l].features) + 1) /\ \A i \in DOMAIN t[l].features : i < e
    BY <1>3
  <2>3. \A i \in DOMAIN t[l].features : FirstIn(d, t[l].features, i)
          => PutOut(d, t, l, i, l, e) \/ WaitsAt(d, t[l].features, e, i)
    BY <2>2, WaitsOrOut
  <2>4. \A i : WaitsAt(d, t[l].features, e, i) => i \in DOMAIN t[l].features /\ FirstIn(d, t[l].features, i)
    BY DEF WaitsAt
  <2> HIDE DEF e
  <2>5. SeenAt(d, t, l + 1, 0, n, x)
          => SeenAt(d, t, l, e, n, x) \/ (t[l].name = n /\ IdWaits(d, t[l].features, e, x))
    BY <2>1, <2>3 DEF SeenAt, IdWaits
  <2>6. SeenAt(d, t, l, e, n, x) => SeenAt(d, t, l + 1, 0, n, x)
    BY <2>1 DEF SeenAt
  <2>7. t[l].name = n /\ IdWaits(d, t[l].features, e, x) => SeenAt(d, t, l + 1, 0, n, x)
    BY <2>1, <2>4 DEF SeenAt, IdWaits
  <2> QED
    BY <2>5, <2>6, <2>7 DEF e
<1>5. ASSUME NEW l \in DOMAIN t, NEW a \in DOMAIN t[l].features
      PROVE  SeenAt(d, t, l, a + 1, n, x)
               <=> \/ SeenAt(d, t, l, a, n, x)
                   \/ t[l].name = n /\ t[l].features[a].id = x /\ ~Kept(t[l].features[a])
                   \/ t[l].name = n /\ Turns(d, t[l].features[a]) /\ IdWaits(d, t[l].features, a, x)
  <2>1. \A m \in DOMAIN t : \A i \in DOMAIN t[m].features :
          /\ Earlier(m, i, l, a + 1) <=> Earlier(m, i, l, a) \/ (m = l /\ i = a)
          /\ PutOut(d, t, m, i, l, a + 1)
               <=> PutOut(d, t, m, i, l, a) \/ (m = l /\ i < a /\ Turns(d, t[l].features[a]))
    BY Places, OutPlaces
  <2>2. a \in 1..(Len(t[l].features) + 1)
    BY <1>3
  <2>3. \A i \in DOMAIN t[l].features : FirstIn(d, t[l].features, i) /\ i < a
          => PutOut(d, t, l, i, l, a) \/ WaitsAt(d, t[l].features, a, i)
    BY <2>2, WaitsOrOut
  <2>4. \A i : WaitsAt(d, t[l].features, a, i)
          => i \in DOMAIN t[l].features /\ FirstIn(d, t[l].features, i) /\ i < a
    BY DEF WaitsAt
  <2>5. SeenAt(d, t, l, a + 1, n, x)
          => \/ SeenAt(d, t, l, a, n, x)
             \/ t[l].name = n /\ t[l].features[a].id = x /\ ~Kept(t[l].features[a])
             \/ t[l].name = n /\ Turns(d, t[l].features[a]) /\ IdWaits(d, t[l].features, a, x)
    BY <2>1, <2>3 DEF SeenAt, IdWaits
  <2>6. SeenAt(d, t, l, a, n, x) => SeenAt(d, t, l, a + 1, n, x)
    BY <2>1 DEF SeenAt
  <2>7. t[l].name = n /\ t[l].features[a].id = x /\ ~Kept(t[l].features[a]) => SeenAt(d, t, l, a + 1, n, x)
    BY <2>1 DEF SeenAt
  <2>8. t[l].name = n /\ Turns(d, t[l].features[a]) /\ IdWaits(d, t[l].features, a, x)
          => SeenAt(d, t, l, a + 1, n, x)
    BY <2>1, <2>4 DEF SeenAt, IdWaits
  <2> QED
    BY <2>5, <2>6, <2>7, <2>8
<1> QED
  BY <1>1, <1>2, <1>4, <1>5

LEMMA LeftPlaces ==
    ASSUME NEW V, NEW t \in Seq(LayersOf(V)), NEW d, NEW n, NEW x
    PROVE  /\ ~LeftAt(d, t, 1, 0, n, x)
           /\ \A l \in DOMAIN t : LeftAt(d, t, l, 1, n, x) <=> LeftAt(d, t, l, 0, n, x)
           /\ \A l \in DOMAIN t : LeftAt(d, t, l + 1, 0, n, x)
                <=> \/ LeftAt(d, t, l, Len(t[l].features) + 1, n, x)
                    \/ t[l].name = n /\ LeftWaits(d, t, l, Len(t[l].features) + 1, x)
           /\ \A l \in DOMAIN t : \A a \in DOMAIN t[l].features :
                 LeftAt(d, t, l, a + 1, n, x)
                   <=> \/ LeftAt(d, t, l, a, n, x)
                       \/ t[l].name = n /\ Turns(d, t[l].features[a]) /\ LeftWaits(d, t, l, a, x)
<1>1. ~LeftAt(d, t, 1, 0, n, x)
  BY OutPlaces DEF LeftAt
<1>2. \A l \in DOMAIN t : LeftAt(d, t, l, 1, n, x) <=> LeftAt(d, t, l, 0, n, x)
  BY OutPlaces DEF LeftAt
<1>3. \A l \in DOMAIN t : DOMAIN t[l].features = 1..Len(t[l].features) /\ Len(t[l].features) \in Nat
  BY Fields
<1>4. ASSUME NEW l \in DOMAIN t
      PROVE  LeftAt(d, t, l + 1, 0, n, x)
               <=> \/ LeftAt(d, t, l, Len(t[l].features) + 1, n, x)
                   \/ t[l].name = n /\ LeftWaits(d, t, l, Len(t[l].features) + 1, x)
  <2> DEFINE e == Len(t[l].features) + 1
  <2>1. \A m \in DOMAIN t : \A i \in DOMAIN t[m].features :
          PutOut(d, t, m, i, l + 1, 0) <=> PutOut(d, t, m, i, l, e) \/ m = l
    BY OutPlaces
  <2>2. e \in 1..(Len(t[l].features) + 1) /\ \A i \in DOMAIN t[l].features : i < e
    BY <1>3
  <2>3. \A i \in DOMAIN t[l].features : FirstIn(d, t[l].features, i)
          => PutOut(d, t, l, i, l, e) \/ WaitsAt(d, t[l].features, e, i)
    BY <2>2, WaitsOrOut
  <2>4. \A i : WaitsAt(d, t[l].features, e, i) => i \in DOMAIN t[l].features /\ FirstIn(d, t[l].features, i)
    BY DEF WaitsAt
  <2> HIDE DEF e
  <2>5. LeftAt(d, t, l + 1, 0, n, x)
          => LeftAt(d, t, l, e, n, x) \/ (t[l].name = n /\ LeftWaits(d, t, l, e, x))
    BY <2>1, <2>3 DEF LeftAt, LeftWaits
  <2>6. LeftAt(d, t, l, e, n, x) => LeftAt(d, t, l + 1, 0, n, x)
    BY <2>1 DEF LeftAt
  <2>7. t[l].name = n /\ LeftWaits(d, t, l, e, x) => LeftAt(d, t, l + 1, 0, n, x)
    BY <2>1, <2>4 DEF LeftAt, LeftWaits
  <2> QED
    BY <2>5, <2>6, <2>7 DEF e
<1>5. ASSUME NEW l \in DOMAIN t, NEW a \in DOMAIN t[l].features
      PROVE  LeftAt(d, t, l, a + 1, n, x)
               <=> \/ LeftAt(d, t, l, a, n, x)
                   \/ t[l].name = n /\ Turns(d, t[l].features[a]) /\ LeftWaits(d, t, l, a, x)
  <2>1. \A m \in DOMAIN t : \A i \in DOMAIN t[m].features :
          PutOut(d, t, m, i, l, a + 1)
            <=> PutOut(d, t, m, i, l, a) \/ (m = l /\ i < a /\ Turns(d, t[l].features[a]))
    BY OutPlaces
  <2>2. a \in 1..(Len(t[l].features) + 1)
    BY <1>3
  <2>3. \A i \in DOMAIN t[l].features : FirstIn(d, t[l].features, i) /\ i < a
          => PutOut(d, t, l, i, l, a) \/ WaitsAt(d, t[l].features, a, i)
    BY <2>2, WaitsOrOut
  <2>4. \A i : WaitsAt(d, t[l].features, a, i)
          => i \in DOMAIN t[l].features /\ FirstIn(d, t[l].features, i) /\ i < a
    BY DEF WaitsAt
  <2>5. LeftAt(d, t, l, a + 1, n, x)
          => \/ LeftAt(d, t, l, a, n, x)
             \/ t[l].name = n /\ Turns(d, t[l].features[a]) /\ LeftWaits(d, t, l, a, x)
    BY <2>1, <2>3 DEF LeftAt, LeftWaits
  <2>6. LeftAt(d, t, l, a, n, x) => LeftAt(d, t, l, a + 1, n, x)
    BY <2>1 DEF LeftAt
  <2>7. t[l].name = n /\ Turns(d, t[l].features[a]) /\ LeftWaits(d, t, l, a, x)
          => LeftAt(d, t, l, a + 1, n, x)
    BY <2>1, <2>4 DEF LeftAt, LeftWaits
  <2> QED
    BY <2>5, <2>6, <2>7
<1> QED
  BY <1>1, <1>2, <1>4, <1>5

\* Whether the identifier of a leader that waits is taken shows in what was seen by then,
\* when it is put out.
LEMMA TakenWhenSeen ==
    ASSUME NEW V, NEW t \in Seq(LayersOf(V)), NEW d, NEW l \in DOMAIN t,
           NEW a \in 1..(Len(t[l].features) + 1), NEW j, WaitsAt(d, t[l].features, a, j),
           a \in DOMAIN t[l].features => Turns(d, t[l].features[a])
    PROVE  TakenIn(d, t, l, j) <=> /\ t[l].features[j].id # NoId
                                   /\ SeenAt(d, t, l, a, t[l].name, t[l].features[j].id)
<1> DEFINE fs == t[l].features
<1>1. /\ \A m \in DOMAIN t : /\ DOMAIN t[m].features = 1..Len(t[m].features)
                            /\ Len(t[m].features) \in Nat
      /\ DOMAIN t = 1..Len(t) /\ Len(t) \in Nat
  BY Fields
<1>2. j \in DOMAIN fs /\ j < a /\ FirstIn(d, fs, j) /\ \A k \in (j + 1)..(a - 1) : ~Turns(d, fs[k])
  BY DEF WaitsAt
<1>3. \A i \in DOMAIN fs : (\A k \in (j + 1)..i : ~Turns(d, fs[k])) <=> i < a
  <2> SUFFICES ASSUME NEW i \in DOMAIN fs
               PROVE  (\A k \in (j + 1)..i : ~Turns(d, fs[k])) <=> i < a
    OBVIOUS
  <2>0. DOMAIN fs = 1..Len(fs) /\ Len(fs) \in Nat
    BY <1>1
  <2> HIDE DEF fs
  <2>1. i < a => \A k \in (j + 1)..i : k \in (j + 1)..(a - 1)
    BY <1>2, <2>0
  <2>2. ~(i < a) => a \in DOMAIN fs /\ a \in (j + 1)..i
    BY <1>2, <2>0
  <2> QED
    BY <1>2, <2>1, <2>2 DEF fs
<1>4. \A m \in DOMAIN t : \A i \in DOMAIN t[m].features :
        (m < l \/ (m = l /\ \A k \in (j + 1)..i : ~Turns(d, fs[k]))) <=> Earlier(m, i, l, a)
  BY <1>1, <1>3 DEF Earlier
<1>5. \A m \in DOMAIN t : \A i \in DOMAIN t[m].features :
        FirstIn(d, t[m].features, i) => (Earlier(m, i, l, j) <=> PutOut(d, t, m, i, l, a))
  <2> SUFFICES ASSUME NEW m \in DOMAIN t, NEW i \in DOMAIN t[m].features, FirstIn(d, t[m].features, i)
               PROVE  Earlier(m, i, l, j) <=> PutOut(d, t, m, i, l, a)
    OBVIOUS
  <2>1. CASE m # l
    BY <2>1 DEF Earlier, PutOut
  <2>2. CASE m = l
    <3>0. m \in Nat /\ ~(m < l)
      BY <1>1, <2>2
    <3>1. /\ PutOut(d, t, l, i, l, a) => i < a /\ ~WaitsAt(d, fs, a, i)
          /\ i < a => PutOut(d, t, l, i, l, a) \/ WaitsAt(d, fs, a, i)
      BY <2>2, WaitsOrOut
    <3>2. WaitsAt(d, fs, a, i) => i = j
      <4>1. a \in 0..(Len(fs) + 1) /\ DOMAIN fs = 1..Len(fs) /\ Len(fs) \in Nat
        BY <1>1
      <4> HIDE DEF fs
      <4> QED
        BY <4>1, OneWaits DEF fs
    <3>3. i < j => i < a
      BY <1>1, <1>2, <2>2
    <3>4. WaitsAt(d, fs, a, j)
      OBVIOUS
    <3>5. i > j => ~(i < a)
      <4> SUFFICES ASSUME i > j, i < a PROVE FALSE
        OBVIOUS
      <4>1. Kept(fs[j])
        BY <1>2 DEF FirstIn
      <4>2. PICK k \in (j + 1)..i : Turns(d, fs[k])
        <5>1. DOMAIN fs = 1..Len(fs) /\ Len(fs) \in Nat /\ i \in DOMAIN fs /\ FirstIn(d, fs, i) /\ j < i
          BY <1>1, <2>2, <1>2
        <5> HIDE DEF fs
        <5> QED
          BY <1>2, <4>1, <5>1, LeadersApart
      <4> QED
        BY <1>3, <2>2, <4>2
    <3> QED
      BY <1>1, <1>2, <2>2, <3>0, <3>1, <3>2, <3>3, <3>4, <3>5 DEF Earlier
  <2> QED
    BY <2>1, <2>2
<1> QED
  BY <1>4, <1>5 DEF TakenIn, SeenAt

-----------------------------------------------------------------------------
(* Every step keeps what is known of identifiers. *)

\* What is pending begins with the leader that waits at the place that is read next.
Leads ==
    /\ request.demultiply => (pending # <<>> <=> OpenAt(sources[layer].features, along))
    /\ pending = <<>> => \A i : ~WaitsAt(request.demultiply, sources[layer].features, along, i)
    /\ pending # <<>> =>
          \E i : /\ WaitsAt(request.demultiply, sources[layer].features, along, i)
                 /\ pending[1].key = sources[layer].features[i].key
                 /\ pending[1].id = sources[layer].features[i].id

HasSeen(s, d, t, l, a) == \A n \in Names : \A x \in Ids : x \in s[n] <=> SeenAt(d, t, l, a, n, x)

HasLeft(u, d, t, l, a) == \A n \in Names : \A x : HasKey(u, n, x) <=> LeftAt(d, t, l, a, n, x)

Merging ==
    /\ HasSeen(seen, request.demultiply, sources, layer, along)
    /\ HasLeft(out, request.demultiply, sources, layer, along)
    /\ layer \in DOMAIN sources /\ along # 0 => Leads

IdInv ==
    request.dedup =>
        /\ place = 0
        /\ status = "reading" => Merging
        /\ status = "done" => HasLeft(tile, request.demultiply, request.layers, Len(request.layers) + 1, 0)

LEMMA WithIdHas ==
    ASSUME Name \in Names, NEW s \in [Names -> SUBSET Ids], NEW f, f.id \in Ids \cup {NoId}, request.dedup
    PROVE  \A n \in Names : \A x \in Ids : x \in WithId(s, f)[n] <=> x \in s[n] \/ (n = Name /\ x = f.id)
<1>1. CASE f.id # NoId
  <2>1. WithId(s, f) = [s EXCEPT ![Name] = @ \cup {f.id}]
    BY <1>1 DEF WithId
  <2> QED
    BY <2>1
<1>2. CASE f.id = NoId
  <2>1. WithId(s, f) = s
    BY <1>2 DEF WithId
  <2> QED
    BY <1>2, <2>1, IdAssumption
<1> QED
  BY <1>1, <1>2

FlushedSeen == IF pending = <<>> THEN seen ELSE FeatureOut(pending).seen

\* The leader that waits is put out, if its identifier is not taken.
LEMMA FlushedIds ==
    ASSUME NEW V, Shaped(V), Counters, HasLayer, Merging, request.dedup, layer \in DOMAIN sources,
           along \in 1..(Len(sources[layer].features) + 1),
           pending # <<>> /\ along \in DOMAIN sources[layer].features
             => Turns(request.demultiply, sources[layer].features[along])
    PROVE  /\ FlushedSeen \in [Names -> SUBSET Ids]
           /\ \A n \in Names : \A x \in Ids :
                 x \in FlushedSeen[n]
                   <=> \/ SeenAt(request.demultiply, sources, layer, along, n, x)
                       \/ Name = n /\ IdWaits(request.demultiply, sources[layer].features, along, x)
           /\ \A n \in Names : \A x :
                 HasKey(Flushed, n, x)
                   <=> \/ LeftAt(request.demultiply, sources, layer, along, n, x)
                       \/ Name = n /\ LeftWaits(request.demultiply, sources, layer, along, x)
<1> DEFINE d == request.demultiply
           fs == sources[layer].features
<1>1. sources \in Seq(LayersOf(V)) /\ along # 0 /\ Leads
  BY DEF Shaped, Merging
<1>2. Name \in Names /\ fs \in Seq(FeaturesOf(V))
  BY <1>1, Fields DEF Name
<1>3. \A n, x : HasKey(Flushed, n, x)
        <=> \/ HasKey(out, n, x)
            \/ pending # <<>> /\ ~Duplicate(pending[1]) /\ n = Name /\ x = pending[1].key
  BY <1>1, FlushedKeys
<1>4. seen \in [Names -> SUBSET Ids] /\ DOMAIN fs = 1..Len(fs) /\ Len(fs) \in Nat
  BY <1>2 DEF Counters
<1>5. /\ \A n \in Names : \A x \in Ids : x \in seen[n] <=> SeenAt(d, sources, layer, along, n, x)
      /\ \A n \in Names : \A x : HasKey(out, n, x) <=> LeftAt(d, sources, layer, along, n, x)
  BY DEF Merging, HasSeen, HasLeft
<1>6. CASE pending = <<>>
  <2>1. \A i : ~WaitsAt(d, fs, along, i)
    BY <1>1, <1>6 DEF Leads
  <2>2. \A x : ~IdWaits(d, fs, along, x) /\ ~LeftWaits(d, sources, layer, along, x)
    BY <2>1 DEF IdWaits, LeftWaits
  <2>3. FlushedSeen = seen
    BY <1>6 DEF FlushedSeen
  <2> QED
    BY <1>3, <1>4, <1>5, <1>6, <2>2, <2>3
<1>7. CASE pending # <<>>
  <2>1. PICK j : /\ WaitsAt(d, fs, along, j)
                 /\ pending[1].key = fs[j].key /\ pending[1].id = fs[j].id
    BY <1>1, <1>7 DEF Leads
  <2>2. \A i : WaitsAt(d, fs, along, i) => i = j
    <3>1. along \in 0..(Len(fs) + 1)
      OBVIOUS
    <3> HIDE DEF fs
    <3> QED
      BY <1>4, <2>1, <3>1, OneWaits
  <2>3. \A x : /\ IdWaits(d, fs, along, x) <=> fs[j].id = x
               /\ LeftWaits(d, sources, layer, along, x) <=> ~TakenIn(d, sources, layer, j) /\ fs[j].key = x
    BY <2>1, <2>2 DEF IdWaits, LeftWaits
  <2>4. TakenIn(d, sources, layer, j)
          <=> fs[j].id # NoId /\ SeenAt(d, sources, layer, along, Name, fs[j].id)
    BY <1>1, <1>7, <2>1, TakenWhenSeen DEF Name
  <2>5. fs[j].id \in Ids \cup {NoId}
    <3>1. j \in DOMAIN fs
      BY <2>1 DEF WaitsAt
    <3>2. fs[j] \in FeaturesOf(V)
      BY <1>2, <3>1
    <3> QED
      BY <3>2, FeatureFields
  <2>6. Duplicate(pending[1]) <=> TakenIn(d, sources, layer, j)
    BY <1>2, <1>5, <2>1, <2>4, <2>5 DEF Duplicate
  <2>7. \A n \in Names : \A x \in Ids :
          x \in FlushedSeen[n] <=> x \in seen[n] \/ (n = Name /\ x = fs[j].id)
    <3>1. CASE Duplicate(pending[1])
      <4>1. FlushedSeen = seen
        BY <1>7, <3>1 DEF FlushedSeen, FeatureOut
      <4>2. fs[j].id \in seen[Name]
        BY <2>1, <3>1 DEF Duplicate
      <4> QED
        BY <4>1, <4>2
    <3>2. CASE ~Duplicate(pending[1])
      <4>1. FlushedSeen = WithId(seen, pending[1])
        BY <1>7, <3>2 DEF FlushedSeen, FeatureOut
      <4> QED
        BY <1>2, <1>4, <2>1, <2>5, <4>1, WithIdHas
    <3> QED
      BY <3>1, <3>2
  <2>8. FlushedSeen \in [Names -> SUBSET Ids]
    <3>1. FlushedSeen = seen \/ FlushedSeen = WithId(seen, pending[1])
      BY <1>7 DEF FlushedSeen, FeatureOut
    <3> QED
      BY <1>2, <1>4, <2>1, <2>5, <3>1, WithIdSees
  <2>9. \A n \in Names : \A x \in Ids :
          x \in FlushedSeen[n]
            <=> SeenAt(d, sources, layer, along, n, x) \/ (Name = n /\ IdWaits(d, fs, along, x))
    <3> HIDE DEF fs, d
    <3> QED
      BY <1>5, <2>3, <2>7
  <2>10. \A n \in Names : \A x :
           HasKey(Flushed, n, x)
             <=> \/ LeftAt(d, sources, layer, along, n, x)
                 \/ Name = n /\ LeftWaits(d, sources, layer, along, x)
    <3> HIDE DEF fs, d
    <3> QED
      BY <1>3, <1>5, <1>7, <2>1, <2>3, <2>6
  <2> QED
    BY <2>8, <2>9, <2>10
<1> QED
  BY <1>6, <1>7

\* Requests with identifiers to be merged have no children asked for.
LEMMA GoesOnMerging ==
    ASSUME IdInv, UNCHANGED <<request, place>>, status' = "reading", request.dedup => Merging'
    PROVE  IdInv'
BY DEF IdInv

LEMMA StartLayerIds == IInv /\ FirstInv /\ IdInv /\ StartLayer => IdInv'
<1> SUFFICES ASSUME IInv, FirstInv, IdInv, StartLayer, request.dedup PROVE Merging'
  BY GoesOnMerging DEF StartLayer, IdInv
<1>1. PICK V : Shaped(V)
  BY DEF IInv, Shapes
<1>2. /\ layer \in DOMAIN sources /\ sources \in Seq(LayersOf(V)) /\ along = 0 /\ along' = 1
      /\ UNCHANGED <<request, sources, layer, pending, seen>> /\ pending = <<>> /\ Merging
  BY <1>1 DEF StartLayer, IInv, Counters, Shaped, IdInv, FirstInv, Gathered, NoneWaits
<1>3. \A n, x : HasKey(out', n, x) <=> HasKey(out, n, x)
  <2>1. /\ DOMAIN out \subseteq DOMAIN out'
        /\ \A k \in DOMAIN out : out'[k] = out[k]
        /\ \A k \in DOMAIN out' : k \in DOMAIN out \/ (out'[k].name = Name /\ out'[k].features = <<>>)
    BY <1>1, LayerBegun
  <2>2. \A k \in DOMAIN out' : k \in DOMAIN out \/ DOMAIN out'[k].features = {}
    BY <2>1
  <2> QED
    BY <2>1, <2>2 DEF HasKey
<1>4. \A d, n, x : /\ SeenAt(d, sources, layer, 1, n, x) <=> SeenAt(d, sources, layer, 0, n, x)
                   /\ LeftAt(d, sources, layer, 1, n, x) <=> LeftAt(d, sources, layer, 0, n, x)
  BY <1>2, SeenPlaces, LeftPlaces
<1>5. Leads'
  <2>1. PICK fs : fs = sources[layer].features
    OBVIOUS
  <2>2. ~OpenAt(fs, 1)
    BY DEF OpenAt
  <2>3. \A d, i : ~WaitsAt(d, fs, 1, i)
    <3>1. fs \in Seq(FeaturesOf(V))
      BY <1>2, <2>1, Fields
    <3> QED
      BY <3>1 DEF WaitsAt
  <2> QED
    BY <1>2, <2>1, <2>2, <2>3 DEF Leads
<1> QED
  BY <1>2, <1>3, <1>4, <1>5 DEF Merging, HasSeen, HasLeft

\* What a feature at the place that is read next does to what waits.
LEMMA ReadIds ==
    ASSUME NEW V, Shaped(V), Counters, HasLayer, AtFeature, NEW fs, fs = sources[layer].features
    PROVE  /\ layer \in DOMAIN sources /\ along # 0 /\ along \in DOMAIN fs
           /\ along \in 1..(Len(fs) + 1) /\ Feature = fs[along]
           /\ Feature.id \in Ids \cup {NoId} /\ Name \in Names
           /\ OpenAt(fs, along + 1) <=> Kept(Feature) \/ (OpenAt(fs, along) /\ ~Begins(Feature))
           /\ \A d : /\ FirstIn(d, fs, along) <=> Kept(Feature) /\ (d => Begins(Feature) \/ ~OpenAt(fs, along))
                     /\ \A i : WaitsAt(d, fs, along + 1, i)
                          <=> \/ WaitsAt(d, fs, along, i) /\ ~Turns(d, Feature)
                              \/ i = along /\ FirstIn(d, fs, along)
           /\ \A d, n, x :
                 /\ SeenAt(d, sources, layer, along + 1, n, x)
                      <=> \/ SeenAt(d, sources, layer, along, n, x)
                          \/ Name = n /\ Feature.id = x /\ ~Kept(Feature)
                          \/ Name = n /\ Turns(d, Feature) /\ IdWaits(d, fs, along, x)
                 /\ LeftAt(d, sources, layer, along + 1, n, x)
                      <=> \/ LeftAt(d, sources, layer, along, n, x)
                          \/ Name = n /\ Turns(d, Feature) /\ LeftWaits(d, sources, layer, along, x)
<1>1. /\ layer \in DOMAIN sources /\ along # 0 /\ sources \in Seq(LayersOf(V))
      /\ along \in DOMAIN sources[layer].features /\ Feature = sources[layer].features[along]
      /\ Feature.id \in Ids \cup {NoId} /\ Name \in Names /\ Name = sources[layer].name
  BY AtFeatureKnown DEF AtFeature, Shaped, Feature, Name
<1>2. DOMAIN fs = 1..Len(fs) /\ Len(fs) \in Nat /\ along \in DOMAIN fs
  <2>1. fs \in Seq(FeaturesOf(V))
    BY <1>1, Fields
  <2> QED
    BY <1>1, <2>1
<1>3. /\ OpenAt(fs, along + 1) <=> Kept(fs[along]) \/ (OpenAt(fs, along) /\ ~Begins(fs[along]))
      /\ \A d : FirstIn(d, fs, along) <=> Kept(fs[along]) /\ (d => Begins(fs[along]) \/ ~OpenAt(fs, along))
  BY <1>2, Clusters
<1>4. \A d, i : WaitsAt(d, fs, along + 1, i)
        <=> \/ WaitsAt(d, fs, along, i) /\ ~Turns(d, fs[along])
            \/ i = along /\ FirstIn(d, fs, along)
  <2> TAKE d
  <2>1. PICK n \in Nat : DOMAIN fs = 1..n
    BY <1>2
  <2>2. PICK a \in DOMAIN fs : a = along
    BY <1>2
  <2>3. \A i : WaitsAt(d, fs, a + 1, i)
                 <=> (WaitsAt(d, fs, a, i) /\ ~Turns(d, fs[a])) \/ (i = a /\ FirstIn(d, fs, a))
    BY <2>1, WaitPlaces
  <2> QED
    BY <2>2, <2>3
<1>5. \A d, n, x :
        /\ SeenAt(d, sources, layer, along + 1, n, x)
             <=> \/ SeenAt(d, sources, layer, along, n, x)
                 \/ sources[layer].name = n /\ fs[along].id = x /\ ~Kept(fs[along])
                 \/ sources[layer].name = n /\ Turns(d, fs[along]) /\ IdWaits(d, fs, along, x)
        /\ LeftAt(d, sources, layer, along + 1, n, x)
             <=> \/ LeftAt(d, sources, layer, along, n, x)
                 \/ sources[layer].name = n /\ Turns(d, fs[along]) /\ LeftWaits(d, sources, layer, along, x)
  <2> TAKE d, n, x
  <2>1. \A l \in DOMAIN sources : \A a \in DOMAIN sources[l].features :
          SeenAt(d, sources, l, a + 1, n, x)
            <=> \/ SeenAt(d, sources, l, a, n, x)
                \/ /\ sources[l].name = n /\ sources[l].features[a].id = x
                   /\ ~Kept(sources[l].features[a])
                \/ /\ sources[l].name = n /\ Turns(d, sources[l].features[a])
                   /\ IdWaits(d, sources[l].features, a, x)
    BY <1>1, SeenPlaces
  <2>2. \A l \in DOMAIN sources : \A a \in DOMAIN sources[l].features :
          LeftAt(d, sources, l, a + 1, n, x)
            <=> \/ LeftAt(d, sources, l, a, n, x)
                \/ /\ sources[l].name = n /\ Turns(d, sources[l].features[a])
                   /\ LeftWaits(d, sources, l, a, x)
    BY <1>1, LeftPlaces
  <2> QED
    BY <1>1, <2>1, <2>2
<1>6. along \in 1..(Len(fs) + 1)
  BY <1>2
<1>7. \A d : /\ FirstIn(d, fs, along) <=> Kept(Feature) /\ (d => Begins(Feature) \/ ~OpenAt(fs, along))
             /\ \A i : WaitsAt(d, fs, along + 1, i)
                  <=> \/ WaitsAt(d, fs, along, i) /\ ~Turns(d, Feature)
                      \/ i = along /\ FirstIn(d, fs, along)
  BY <1>1, <1>3, <1>4
<1>8. \A d, n, x :
         /\ SeenAt(d, sources, layer, along + 1, n, x)
              <=> \/ SeenAt(d, sources, layer, along, n, x)
                  \/ Name = n /\ Feature.id = x /\ ~Kept(Feature)
                  \/ Name = n /\ Turns(d, Feature) /\ IdWaits(d, fs, along, x)
         /\ LeftAt(d, sources, layer, along + 1, n, x)
              <=> \/ LeftAt(d, sources, layer, along, n, x)
                  \/ Name = n /\ Turns(d, Feature) /\ LeftWaits(d, sources, layer, along, x)
  BY <1>1, <1>5
<1> QED
  BY <1>1, <1>2, <1>3, <1>6, <1>7, <1>8

LEMMA ClipIds == IInv /\ FirstInv /\ IdInv /\ Clip => IdInv'
<1> SUFFICES ASSUME IInv, FirstInv, IdInv, Clip, request.dedup PROVE Merging'
  BY GoesOnMerging DEF Clip, AtFeature, IdInv
<1> DEFINE d == request.demultiply
<1>1. PICK V : Shaped(V)
  BY DEF IInv, Shapes
<1>2. PICK fs : fs = sources[layer].features
  OBVIOUS
<1>3. /\ AtFeature /\ ~Visible(Feature) /\ along' = along + 1 /\ seen' = WithId(seen, Feature)
      /\ UNCHANGED <<request, place, sources, layer, pending, out>> /\ place = 0 /\ Merging
  BY DEF Clip, AtFeature, IdInv
<1>4. /\ layer \in DOMAIN sources /\ along # 0 /\ Feature.id \in Ids \cup {NoId} /\ Name \in Names
      /\ OpenAt(fs, along + 1) <=> Kept(Feature) \/ (OpenAt(fs, along) /\ ~Begins(Feature))
      /\ FirstIn(d, fs, along) => Kept(Feature)
      /\ \A i : WaitsAt(d, fs, along + 1, i)
           <=> \/ WaitsAt(d, fs, along, i) /\ ~Turns(d, Feature)
               \/ i = along /\ FirstIn(d, fs, along)
      /\ \A n, x :
            /\ SeenAt(d, sources, layer, along + 1, n, x)
                 <=> \/ SeenAt(d, sources, layer, along, n, x)
                     \/ Name = n /\ Feature.id = x /\ ~Kept(Feature)
                     \/ Name = n /\ Turns(d, Feature) /\ IdWaits(d, fs, along, x)
            /\ LeftAt(d, sources, layer, along + 1, n, x)
                 <=> \/ LeftAt(d, sources, layer, along, n, x)
                     \/ Name = n /\ Turns(d, Feature) /\ LeftWaits(d, sources, layer, along, x)
  BY <1>1, <1>2, <1>3, ReadIds DEF IInv
<1>5. ~Kept(Feature) /\ ~Begins(Feature) /\ ~Turns(d, Feature)
  BY <1>3 DEF Visible, Kept, Begins, Turns
<1>6. HasSeen(seen', d, sources, layer, along + 1)
  <2>1. \A n \in Names : \A x \in Ids : x \in seen'[n] <=> x \in seen[n] \/ (n = Name /\ x = Feature.id)
    BY <1>3, <1>4, WithIdHas DEF IInv, Counters
  <2> QED
    BY <1>3, <1>4, <1>5, <2>1 DEF Merging, HasSeen
<1>7. HasLeft(out, d, sources, layer, along + 1)
  BY <1>3, <1>4, <1>5 DEF Merging, HasLeft
<1>8. Leads'
  BY <1>2, <1>3, <1>4, <1>5 DEF Merging, Leads
<1> QED
  BY <1>3, <1>6, <1>7, <1>8 DEF Merging

LEMMA ReadKeepsIds == IInv /\ FirstInv /\ IdInv /\ Read => IdInv'
<1> SUFFICES ASSUME IInv, FirstInv, IdInv, Read, request.dedup PROVE Merging'
  BY GoesOnMerging DEF Read, AtFeature, IdInv
<1>1. PICK V : Shaped(V)
  BY DEF IInv, Shapes
<1>2. PICK fs, d : fs = sources[layer].features /\ d = request.demultiply
  OBVIOUS
<1>3. /\ AtFeature /\ Visible(Feature) /\ along' = along + 1
      /\ UNCHANGED <<request, place, sources, layer>> /\ place = 0 /\ Merging
      /\ out' = AfterFlush(Feature).out
      /\ \/ /\ Feature.fate = "kept" /\ pending' = Append(AfterFlush(Feature).pending, Untagged(Feature))
            /\ seen' = AfterFlush(Feature).seen
         \/ /\ Feature.fate # "kept" /\ pending' = AfterFlush(Feature).pending
            /\ seen' = WithId(AfterFlush(Feature).seen, Feature)
  BY DEF Read, AtFeature, IdInv
<1>4. /\ layer \in DOMAIN sources /\ along # 0 /\ Feature.id \in Ids \cup {NoId} /\ Name \in Names
      /\ along \in 1..(Len(fs) + 1) /\ Feature = fs[along] /\ along \in DOMAIN fs
      /\ OpenAt(fs, along + 1) <=> Kept(Feature) \/ (OpenAt(fs, along) /\ ~Begins(Feature))
      /\ FirstIn(d, fs, along) <=> Kept(Feature) /\ (d => Begins(Feature) \/ ~OpenAt(fs, along))
      /\ \A i : WaitsAt(d, fs, along + 1, i)
           <=> \/ WaitsAt(d, fs, along, i) /\ ~Turns(d, Feature)
               \/ i = along /\ FirstIn(d, fs, along)
      /\ \A n, x :
            /\ SeenAt(d, sources, layer, along + 1, n, x)
                 <=> \/ SeenAt(d, sources, layer, along, n, x)
                     \/ Name = n /\ Feature.id = x /\ ~Kept(Feature)
                     \/ Name = n /\ Turns(d, Feature) /\ IdWaits(d, fs, along, x)
            /\ LeftAt(d, sources, layer, along + 1, n, x)
                 <=> \/ LeftAt(d, sources, layer, along, n, x)
                     \/ Name = n /\ Turns(d, Feature) /\ LeftWaits(d, sources, layer, along, x)
  BY <1>1, <1>2, <1>3, ReadIds DEF IInv
<1>5. /\ Begins(Feature) <=> Feature.first
      /\ Kept(Feature) <=> Feature.fate = "kept"
      /\ Turns(d, Feature) <=> (d => Feature.first)
  BY <1>3 DEF Visible, Begins, Kept, Turns
<1>6. /\ d => (pending # <<>> <=> OpenAt(fs, along))
      /\ pending = <<>> => \A i : ~WaitsAt(d, fs, along, i)
      /\ pending # <<>> => \E i : /\ WaitsAt(d, fs, along, i)
                                  /\ pending[1].key = fs[i].key /\ pending[1].id = fs[i].id
  BY <1>2, <1>3, <1>4 DEF Merging, Leads
<1>7. /\ \A n \in Names : \A x \in Ids : x \in seen[n] <=> SeenAt(d, sources, layer, along, n, x)
      /\ \A n \in Names : \A x : HasKey(out, n, x) <=> LeftAt(d, sources, layer, along, n, x)
  BY <1>2, <1>3 DEF Merging, HasSeen, HasLeft
\* What is seen of the feature itself, after a flush or none.
<1>8. ASSUME NEW s \in [Names -> SUBSET Ids],
             seen' = IF Kept(Feature) THEN s ELSE WithId(s, Feature)
      PROVE  \A n \in Names : \A x \in Ids :
               x \in seen'[n] <=> x \in s[n] \/ (n = Name /\ x = Feature.id /\ ~Kept(Feature))
  <2>1. \A n \in Names : \A x \in Ids : x \in WithId(s, Feature)[n] <=> x \in s[n] \/ (n = Name /\ x = Feature.id)
    BY <1>4, WithIdHas
  <2> QED
    BY <1>8, <2>1
<1>9. seen' = IF Kept(Feature) THEN AfterFlush(Feature).seen ELSE WithId(AfterFlush(Feature).seen, Feature)
  BY <1>3, <1>5
\* The feature goes on with a cluster that has one already.
<1>10. CASE pending # <<>> /\ d /\ ~Feature.first
  <2>1. AfterFlush(Feature) = [out |-> out, seen |-> seen, pending |-> pending]
    BY <1>2, <1>10 DEF AfterFlush, Flushes
  <2>2. pending' # <<>> /\ pending'[1] = pending[1]
    <3>1. pending \in Seq(FeaturesOf(V)) /\ pending # <<>>
      BY <1>1, <1>10 DEF Shaped
    <3>2. \A f : Append(pending, f) # <<>> /\ Append(pending, f)[1] = pending[1]
      BY <3>1
    <3> QED
      BY <1>3, <1>10, <2>1, <3>2
  <2>3. HasSeen(seen', d, sources, layer, along + 1)
    <3>1. seen \in [Names -> SUBSET Ids]
      BY DEF IInv, Counters
    <3>2. \A n \in Names : \A x \in Ids :
            x \in seen'[n] <=> x \in seen[n] \/ (n = Name /\ x = Feature.id /\ ~Kept(Feature))
      BY <1>8, <1>9, <2>1, <3>1
    <3> QED
      BY <1>4, <1>5, <1>7, <1>10, <3>2 DEF HasSeen
  <2>4. HasLeft(out', d, sources, layer, along + 1)
    <3>1. out' = out
      BY <1>3, <2>1
    <3>2. ~Turns(d, Feature)
      BY <1>5, <1>10
    <3>3. \A n, x : LeftAt(d, sources, layer, along + 1, n, x) <=> LeftAt(d, sources, layer, along, n, x)
      BY <1>4, <3>2
    <3> QED
      BY <1>7, <3>1, <3>3 DEF HasLeft
  <2>5. Leads'
    <3>1. OpenAt(fs, along + 1)
      BY <1>4, <1>5, <1>6, <1>10
    <3>2. \E i : /\ WaitsAt(d, fs, along + 1, i)
                 /\ pending'[1].key = fs[i].key /\ pending'[1].id = fs[i].id
      BY <1>4, <1>5, <1>6, <1>10, <2>2
    <3> QED
      BY <1>2, <1>3, <2>2, <3>1, <3>2 DEF Leads
  <2> QED
    BY <1>2, <1>3, <2>3, <2>4, <2>5 DEF Merging
\* It begins a cluster, or there is none to go on with.
<1>11. CASE pending = <<>> \/ ~d \/ Feature.first
  <2>1. /\ AfterFlush(Feature).out = Flushed /\ AfterFlush(Feature).seen = FlushedSeen
        /\ AfterFlush(Feature).pending = <<>>
    BY <1>2, <1>11 DEF AfterFlush, Flushes, Flushed, FlushedSeen
  <2>2. /\ FlushedSeen \in [Names -> SUBSET Ids]
        /\ \A n \in Names : \A x \in Ids :
              x \in FlushedSeen[n]
                <=> SeenAt(d, sources, layer, along, n, x) \/ (Name = n /\ IdWaits(d, fs, along, x))
        /\ \A n \in Names : \A x :
              HasKey(Flushed, n, x)
                <=> \/ LeftAt(d, sources, layer, along, n, x)
                    \/ Name = n /\ LeftWaits(d, sources, layer, along, x)
    <3>1. pending # <<>> /\ along \in DOMAIN fs => Turns(d, fs[along])
      BY <1>4, <1>5, <1>11
    <3> QED
      BY <1>1, <1>2, <1>3, <1>4, <3>1, FlushedIds DEF IInv
  <2>3. \A x : /\ IdWaits(d, fs, along, x) => Turns(d, Feature)
               /\ LeftWaits(d, sources, layer, along, x) => Turns(d, Feature)
    BY <1>2, <1>5, <1>6, <1>11 DEF IdWaits, LeftWaits
  <2>4. HasSeen(seen', d, sources, layer, along + 1)
    <3>1. \A n \in Names : \A x \in Ids :
            x \in seen'[n] <=> x \in FlushedSeen[n] \/ (n = Name /\ x = Feature.id /\ ~Kept(Feature))
      BY <1>8, <1>9, <2>1, <2>2
    <3> QED
      BY <1>4, <2>2, <2>3, <3>1 DEF HasSeen
  <2>5. HasLeft(out', d, sources, layer, along + 1)
    BY <1>3, <1>4, <2>1, <2>2, <2>3 DEF HasLeft
  <2>6. /\ pending' # <<>> <=> Kept(Feature)
        /\ pending' # <<>> => pending'[1].key = Feature.key /\ pending'[1].id = Feature.id
    <3>1. pending' = IF Feature.fate = "kept" THEN <<Untagged(Feature)>> ELSE <<>>
      BY <1>3, <2>1
    <3>2. Feature \in FeaturesOf(V)
      BY <1>1, <1>3, AtFeatureKnown DEF IInv
    <3>3. Untagged(Feature).key = Feature.key /\ Untagged(Feature).id = Feature.id
      BY <3>2 DEF Untagged, FeaturesOf
    <3> QED
      BY <1>5, <3>1, <3>3
  <2>7. Leads'
    <3>1. d => (Begins(Feature) \/ ~OpenAt(fs, along))
      BY <1>5, <1>6, <1>11
    <3>2. d => (pending' # <<>> <=> OpenAt(fs, along + 1))
      BY <1>4, <2>6, <3>1
    <3>3. pending' = <<>> => \A i : ~WaitsAt(d, fs, along + 1, i)
      BY <1>4, <1>5, <1>6, <1>11, <2>6
    <3>4. pending' # <<>> => /\ WaitsAt(d, fs, along + 1, along)
                             /\ pending'[1].key = fs[along].key /\ pending'[1].id = fs[along].id
      BY <1>4, <2>6, <3>1
    <3> QED
      BY <1>2, <1>3, <3>2, <3>3, <3>4 DEF Leads
  <2> QED
    BY <1>2, <1>3, <2>4, <2>5, <2>7 DEF Merging
<1> QED
  BY <1>10, <1>11

LEMMA EndLayerIds == IInv /\ FirstInv /\ IdInv /\ EndLayer => IdInv'
<1> SUFFICES ASSUME IInv, FirstInv, IdInv, EndLayer, request.dedup PROVE Merging'
  BY GoesOnMerging DEF EndLayer, AtEnd, IdInv
<1>1. PICK V : Shaped(V)
  BY DEF IInv, Shapes
<1>2. PICK fs, d, e : fs = sources[layer].features /\ d = request.demultiply /\ e = Len(fs) + 1
  OBVIOUS
<1>3. /\ UNCHANGED <<request, place, sources>> /\ layer' = layer + 1 /\ along' = 0 /\ Merging
      /\ layer \in DOMAIN sources /\ sources \in Seq(LayersOf(V)) /\ along = e
  BY <1>1, <1>2 DEF EndLayer, AtEnd, Shaped, IInv, Counters, IdInv
<1>4. fs \in Seq(FeaturesOf(V)) /\ along \in 1..(Len(fs) + 1) /\ along # 0 /\ along \notin DOMAIN fs
  <2>1. fs \in Seq(FeaturesOf(V))
    BY <1>2, <1>3, Fields
  <2> QED
    BY <1>2, <1>3, <2>1
<1>5. PICK ended : /\ ended.out = Flushed /\ ended.seen = FlushedSeen
                   /\ IF request.ordered
                      THEN \E gs \in Restored(ended.out[In(ended.out, Name)].features) :
                              out' = [ended.out EXCEPT ![In(ended.out, Name)].features = gs]
                      ELSE out' = ended.out
                   /\ seen' = ended.seen
  BY DEF EndLayer, Flushed, FlushedSeen
<1>6. /\ \A n \in Names : \A x \in Ids :
            x \in FlushedSeen[n]
              <=> SeenAt(d, sources, layer, along, n, x) \/ (Name = n /\ IdWaits(d, fs, along, x))
      /\ \A n \in Names : \A x :
            HasKey(Flushed, n, x)
              <=> \/ LeftAt(d, sources, layer, along, n, x)
                  \/ Name = n /\ LeftWaits(d, sources, layer, along, x)
  BY <1>1, <1>2, <1>3, <1>4, FlushedIds DEF IInv
<1>7. \A n, x : HasKey(out', n, x) <=> HasKey(Flushed, n, x)
  <2>1. PICK W : Flushed \in Seq(LayersOf(W))
    BY <1>1, <1>3, <1>4, FlushedKeys DEF IInv
  <2>2. PICK k \in DOMAIN Flushed : Flushed[k].name = Name /\ k = In(Flushed, Name)
    <3>1. \E k \in DOMAIN Flushed : Flushed[k].name = Name
      BY <1>1, <1>3, <1>4, FlushedKeys DEF IInv
    <3> QED
      BY <3>1 DEF In
  <2>3. IF request.ordered
        THEN \E gs \in Restored(Flushed[k].features) : out' = Replaced(Flushed, k, gs)
        ELSE out' = Flushed
    BY <1>5, <2>2 DEF Replaced
  <2>4. request.ordered => SameKeys(out', Flushed)
    BY <2>1, <2>2, <2>3, OrderedKeys
  <2> QED
    BY <2>3, <2>4 DEF SameKeys
<1>8. \A n, x :
        /\ SeenAt(d, sources, layer + 1, 0, n, x)
             <=> SeenAt(d, sources, layer, e, n, x) \/ (Name = n /\ IdWaits(d, fs, e, x))
        /\ LeftAt(d, sources, layer + 1, 0, n, x)
             <=> LeftAt(d, sources, layer, e, n, x) \/ (Name = n /\ LeftWaits(d, sources, layer, e, x))
  <2> TAKE n, x
  <2>1. \A l \in DOMAIN sources : SeenAt(d, sources, l + 1, 0, n, x)
          <=> \/ SeenAt(d, sources, l, Len(sources[l].features) + 1, n, x)
              \/ /\ sources[l].name = n
                 /\ IdWaits(d, sources[l].features, Len(sources[l].features) + 1, x)
    BY <1>3, SeenPlaces
  <2>2. \A l \in DOMAIN sources : LeftAt(d, sources, l + 1, 0, n, x)
          <=> \/ LeftAt(d, sources, l, Len(sources[l].features) + 1, n, x)
              \/ sources[l].name = n /\ LeftWaits(d, sources, l, Len(sources[l].features) + 1, x)
    BY <1>3, LeftPlaces
  <2> QED
    BY <1>2, <1>3, <2>1, <2>2 DEF Name
<1>9. HasSeen(seen', d, sources, layer + 1, 0)
  BY <1>3, <1>5, <1>6, <1>8 DEF HasSeen
<1>10. HasLeft(out', d, sources, layer + 1, 0)
  BY <1>3, <1>6, <1>7, <1>8 DEF HasLeft
<1> QED
  BY <1>2, <1>3, <1>9, <1>10 DEF Merging

LEMMA FinishTileIds == IInv /\ FirstInv /\ IdInv /\ FinishTile => IdInv'
<1> SUFFICES ASSUME IInv, FirstInv, IdInv, FinishTile, request.dedup PROVE IdInv'
  BY DEF FinishTile, IdInv
<1>1. PICK V : Shaped(V)
  BY DEF IInv, Shapes
<1>2. ~request.next
  BY ChildAssumption DEF FirstInv
<1>3. /\ UNCHANGED <<request, place>> /\ status' = "done" /\ tile' \in Returned(out)
      /\ layer > Len(sources) /\ layer \in Nat /\ out \in Seq(LayersOf(V)) /\ sources \in Seq(LayersOf(V))
      /\ sources = request.layers /\ Merging /\ place = 0
  BY <1>1, <1>2 DEF FinishTile, AtTileEnd, IdInv, FirstInv, Gathered, IInv, Counters, Shaped
<1>4. \A n, x : HasKey(tile', n, x) <=> HasKey(out, n, x)
  BY <1>3, ReturnedKeys DEF SameKeys
<1>5. \A d, n, x : LeftAt(d, sources, layer, along, n, x) <=> LeftAt(d, sources, Len(sources) + 1, 0, n, x)
  <2> TAKE d
  <2>1. Len(sources) + 1 \in Nat /\ Len(sources) + 1 > Len(sources)
    BY <1>3
  <2>2. \A m \in DOMAIN sources : \A i \in DOMAIN sources[m].features :
          PutOut(d, sources, m, i, layer, along) /\ PutOut(d, sources, m, i, Len(sources) + 1, 0)
    BY <1>3, <2>1, OutPlaces
  <2> QED
    BY <2>2 DEF LeftAt
<1> QED
  BY <1>3, <1>4, <1>5 DEF IdInv, Merging, HasLeft

LEMMA InitIds == Init => IdInv
<1> SUFFICES ASSUME Init, request.dedup PROVE IdInv
  BY DEF IdInv
<1>1. PICK V : Shaped(V)
  BY InitKnown DEF IInv, Shapes
<1>2. /\ place = 0 /\ layer = 1 /\ along = 0 /\ out = <<>> /\ seen = NothingSeen /\ status = "reading"
  BY DEF Init
<1>3. \A d, n, x : ~SeenAt(d, sources, 1, 0, n, x) /\ ~LeftAt(d, sources, 1, 0, n, x)
  BY <1>1, SeenPlaces, LeftPlaces DEF Shaped
<1> QED
  BY <1>2, <1>3, EmptyKeys DEF IdInv, Merging, HasSeen, HasLeft, NothingSeen

LEMMA NextIds == IInv /\ FirstInv /\ IdInv /\ [Next]_vars => IdInv'
<1> SUFFICES ASSUME IInv, FirstInv, IdInv, [Next]_vars PROVE IdInv'
  OBVIOUS
<1>1. CASE FlushToLimit \/ EndAtLimit \/ FinishChild
  <2>1. place # 0 /\ UNCHANGED request
    BY <1>1 DEF FlushToLimit, EndAtLimit, ReachesLimit, Full, FinishChild
  <2> QED
    BY <2>1 DEF IdInv
<1>2. CASE Exit
  BY <1>2 DEF Exit, IdInv
<1>3. CASE UNCHANGED vars
  BY <1>3 DEF vars, IdInv, Merging, Leads
<1> QED
  BY <1>1, <1>2, <1>3, StartLayerIds, ClipIds, ReadKeepsIds, EndLayerIds, FinishTileIds DEF Next

\* No layer has an identifier twice, and each has the leaders of its clusters whose
\* identifiers are not taken, by an earlier leader or by one that was clipped or
\* filtered away before they were put out, and no others (clip.cpp:1357-1363).
THEOREM MergesIds == Spec => []IdsMerged
<1>1. IInv /\ FirstInv /\ IdInv => IdsMerged
  <2> SUFFICES ASSUME IInv, IdInv, request.dedup, status = "done", NEW n \in Names
               PROVE  UNION {Keys(tile[k].features) : k \in Made(n)} =
                      UNION {{request.layers[l].features[i].key :
                                 i \in {j \in DOMAIN request.layers[l].features :
                                           IsFirst(request.layers[l].features, j) /\ ~Taken(l, j)}} :
                             l \in Source(n)}
    BY DEF IdsMerged, IInv, Good
  <2> DEFINE d == request.demultiply
             t == request.layers
             F(l) == {t[l].features[i].key :
                         i \in {j \in DOMAIN t[l].features : IsFirst(t[l].features, j) /\ ~Taken(l, j)}}
  <2>1. \A fs, i : IsFirst(fs, i) <=> FirstIn(d, fs, i)
    BY DEF IsFirst, FirstIn, Begins
  <2>2. \A f : PutsOut(f) <=> Turns(d, f)
    BY DEF PutsOut, Turns
  <2>3. \A l \in DOMAIN t : \A j : Taken(l, j) <=> TakenIn(d, t, l, j)
    BY <2>1, <2>2 DEF Taken, TakenIn, ReadBy, Source, Earlier
  <2>4. \A m \in DOMAIN t : \A i \in DOMAIN t[m].features : PutOut(d, t, m, i, Len(t) + 1, 0)
    <3>1. t \in Tiles
      BY DEF IInv, Counters, AllRequests
    <3>2. Len(t) \in Nat /\ \A m \in DOMAIN t : m < Len(t) + 1
      BY <3>1 DEF Tiles
    <3> QED
      BY <3>2 DEF PutOut
  <2>5. \A x : HasKey(tile, n, x) <=> \E l \in Source(n) : x \in F(l)
    <3>1. \A x : HasKey(tile, n, x) <=> LeftAt(d, t, Len(t) + 1, 0, n, x)
      BY DEF IdInv, HasLeft
    <3>2. \A l \in DOMAIN t : \A x : x \in F(l) <=> \E i \in DOMAIN t[l].features :
             FirstIn(d, t[l].features, i) /\ ~TakenIn(d, t, l, i) /\ t[l].features[i].key = x
      BY <2>1, <2>3
    <3> HIDE DEF F
    <3> QED
      BY <2>4, <3>1, <3>2 DEF LeftAt, Source
  <2>6. \A x : x \in UNION {Keys(tile[k].features) : k \in Made(n)} <=> HasKey(tile, n, x)
    BY DEF Keys, Made, HasKey
  <2> HIDE DEF F
  <2>7. UNION {Keys(tile[k].features) : k \in Made(n)} = UNION {F(l) : l \in Source(n)}
    BY <2>5, <2>6
  <2> QED
    BY <2>7 DEF F
<1> QED
  BY <1>1, InitKnown, NextKeeps, InitFirsts, NextFirsts, InitIds, NextIds, PTL DEF Spec

=============================================================================
