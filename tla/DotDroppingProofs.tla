------------------------- MODULE DotDroppingProofs --------------------------
(***************************************************************************)
(* No zoom level takes more than its share of the features, or much less,   *)
(* and none leaves out what is far from what it took, for every maximum and *)
(* base zoom, every drop rate and any number of features.                   *)
(***************************************************************************)
EXTENDS DotDropping, TLAPS, WellFoundedInduction

(***************************************************************************)
(* The zoom level that is chosen                                           *)
(***************************************************************************)
LEMMA LowestOf ==
    ASSUME NEW S \in SUBSET Nat, S # {}
    PROVE  Lowest(S) \in S /\ \A j \in S : Lowest(S) <= j
<1>1. PICK i \in S : \A j \in S : ~ (<<j, i>> \in OpToRel(<, Nat))
  BY NatLessThanWellFounded, WFMin, Zenon
<1>2. ASSUME NEW j \in S PROVE i <= j
  <2>1. i \in Nat /\ j \in Nat
    OBVIOUS
  <2>2. ~ (<<j, i>> \in OpToRel(<, Nat))
    BY <1>1
  <2> QED
    BY <2>1, <2>2 DEF OpToRel
<1> QED
  BY <1>2 DEF Lowest

LEMMA HighestOf ==
    ASSUME NEW S \in SUBSET Zooms, S # {}
    PROVE  Highest(S) \in S /\ \A j \in S : Highest(S) >= j
<1> USE DropAssumption DEF DropAssumption, Zooms
<1> DEFINE T == {MaxZoom - i : i \in S}
<1>0. \A i \in S : i \in 0 .. MaxZoom /\ MaxZoom \in Nat
  OBVIOUS
<1>1. T \in SUBSET Nat /\ T # {}
  <2>1. \A i \in S : MaxZoom - i \in Nat
    BY <1>0
  <2> QED
    BY <2>1, Zenon
<1>2. Lowest(T) \in T /\ \A j \in T : Lowest(T) <= j
  BY <1>1, LowestOf
<1>3. PICK i \in S : Lowest(T) = MaxZoom - i
  BY <1>2
<1>4. \A j \in S : MaxZoom - j \in T
  OBVIOUS
<1>5. ASSUME NEW j \in S PROVE i >= j
  <2>1. MaxZoom - i <= MaxZoom - j
    BY <1>2, <1>3, <1>4
  <2> QED
    BY <2>1, <1>0
<1> QED
  BY <1>5 DEF Highest

\* Going by the rate alone, a feature is taken from some zoom level on, and each of these
\* zoom levels is due one.
LEMMA ByRateIsDue ==
    ASSUME TypeOK
    PROVE  /\ ByRate(ds) \in 0 .. MaxZoom + 1
           /\ \A i \in Zooms : i >= ByRate(ds) => ds[i].seq + One >= 0
<1> USE DropAssumption DEF DropAssumption, Zooms
<1> DEFINE refusing == {i \in Zooms : ds[i].seq + One < 0}
<1>1. ASSUME NEW i \in Zooms PROVE ds[i].seq + One \in Int
  <2>1. ds[i] \in [seq : Int, previndex : Index]
    BY DEF TypeOK
  <2>2. One \in Int
    BY PowerAssumption DEF PowerAssumption
  <2> QED
    BY <2>1, <2>2
<1>2. CASE refusing = {}
  <2>1. ByRate(ds) = 0
    BY <1>2 DEF ByRate
  <2>2. \A i \in Zooms : ~ (ds[i].seq + One < 0)
    BY <1>2
  <2> QED
    BY <2>1, <2>2, <1>1
<1>3. CASE refusing # {}
  <2>1. Highest(refusing) \in refusing /\ \A j \in refusing : Highest(refusing) >= j
    BY <1>3, HighestOf
  <2>2. ByRate(ds) = Highest(refusing) + 1
    BY <1>3 DEF ByRate
  <2>3. Highest(refusing) \in 0 .. MaxZoom
    BY <2>1
  <2>4. ASSUME NEW i \in Zooms, i >= ByRate(ds) PROVE i \notin refusing
    <3>1. i > Highest(refusing)
      BY <2>2, <2>3, <2>4
    <3>2. refusing \subseteq Zooms /\ \A j \in refusing : Highest(refusing) >= j
      BY <2>1
    <3> HIDE DEF refusing
    <3> QED
      BY <3>1, <3>2, <2>3
  <2>5. ASSUME NEW i \in Zooms, i >= ByRate(ds) PROVE ds[i].seq + One >= 0
    BY <2>4, <2>5, <1>1
  <2>6. ByRate(ds) \in 0 .. MaxZoom + 1
    BY <2>2, <2>3
  <2> QED
    BY <2>5, <2>6
<1> QED
  BY <1>2, <1>3

LEMMA FeatureMinzoomType ==
    ASSUME TypeOK, NEW ix \in Index
    PROVE  FeatureMinzoom(ds, ix) \in 0 .. MaxZoom + 1
<1> USE DropAssumption DEF DropAssumption
<1>1. ByRate(ds) \in 0 .. MaxZoom + 1
  BY ByRateIsDue
<1>2. FarAt(ds, ix) \subseteq 0 .. ByRate(ds) - 1
  BY DEF FarAt
<1>3. CASE FarAt(ds, ix) # {}
  <2>1. Lowest(FarAt(ds, ix)) \in FarAt(ds, ix)
    BY <1>1, <1>2, <1>3, LowestOf
  <2> QED
    BY <2>1, <1>1, <1>2, <1>3 DEF FeatureMinzoom
<1> QED
  BY <1>1, <1>3 DEF FeatureMinzoom

-----------------------------------------------------------------------------
(***************************************************************************)
(* Type correctness                                                        *)
(***************************************************************************)
LEMMA AfterFeatureType ==
    ASSUME TypeOK, NEW ix \in Index
    PROVE  AfterFeature(ds, ix) \in [Zooms -> [seq : Int, previndex : Index]]
<1>1. AfterRate(ds, ix) \in [Zooms -> [seq : Int, previndex : Index]]
  <2>1. \A i \in Zooms : One \in Int /\ Interval(i) \in Int
    BY PowerAssumption DEF PowerAssumption
  <2> QED
    BY <2>1 DEF AfterRate, TypeOK
<1> DEFINE far(i) == [AfterRate(ds, ix)[i] EXCEPT !.previndex =
                        IF i >= FeatureMinzoom(ds, ix) THEN ix ELSE @]
<1>2. \A i \in Zooms : far(i) \in [seq : Int, previndex : Index]
  BY <1>1
<1>3. AfterFeature(ds, ix) = AfterRate(ds, ix) \/ AfterFeature(ds, ix) = [i \in Zooms |-> far(i)]
  BY DEF AfterFeature
<1> QED
  BY <1>1, <1>2, <1>3

\* The drop states and the counts stay what they are meant to be: calc_feature_minzoom()
\* returns a zoom level, or the one past the last where no zoom level takes the feature.
THEOREM TypeCorrect == Spec => []TypeOK
<1>1. Init => TypeOK
  BY DropAssumption, PowerAssumption
     DEF Init, TypeOK, Fresh, DropAssumption, PowerAssumption, Index
<1>2. TypeOK /\ [Next]_vars => TypeOK'
  <2> SUFFICES ASSUME TypeOK, [Next]_vars PROVE TypeOK'
    OBVIOUS
  <2>1. CASE UNCHANGED vars
    BY <2>1 DEF vars, TypeOK
  <2>2. ASSUME NEW ix \in Index, Dot(ix) PROVE TypeOK'
    <3>1. FeatureMinzoom(ds, ix) \in 0 .. MaxZoom + 1
      BY FeatureMinzoomType
    <3>2. ds' \in [Zooms -> [seq : Int, previndex : Index]]
      BY <2>2, AfterFeatureType DEF Dot
    <3>3. taken' \in [all : Nat, of : [Zooms -> Nat]]
      BY <2>2 DEF Dot, TypeOK
    <3>4. recent' \in [Zooms -> Index] /\ at' \in Index /\ latest' \in 0 .. MaxZoom + 1
      BY <2>2, <3>1 DEF Dot, TypeOK
    <3> QED
      BY <3>2, <3>3, <3>4 DEF TypeOK
  <2> QED
    BY <2>1, <2>2 DEF Next
<1> QED
  BY <1>1, <1>2, PTL DEF Spec

-----------------------------------------------------------------------------
(***************************************************************************)
(* The rate.  NoMoreThanRate says nothing of the drop states, so it is not  *)
(* inductive.  The inductive invariant is that what each state has left     *)
(* over is the difference between the share of the zoom level and what it   *)
(* took, and that no zoom level takes a feature on more credit than one.    *)
(***************************************************************************)
Balanced(i) ==
    /\ ds[i].seq = taken.all * One - Interval(i) * taken.of[i]
    /\ ds[i].seq >= 0 - Interval(i)

RateInv == TypeOK /\ \A i \in Zooms : Balanced(i)

LEMMA Distribute ==
    ASSUME NEW a \in Int, NEW b \in Int
    PROVE  a * (b + 1) = a * b + a /\ (b + 1) * a = b * a + a
OBVIOUS

\* A feature is one more for every zoom level, and costs those that take it an interval.
LEMMA SeqStep ==
    ASSUME TypeOK, NEW ix \in Index, Dot(ix), NEW i \in Zooms
    PROVE  ds'[i].seq = IF i >= ByRate(ds) THEN ds[i].seq + One - Interval(i)
                                           ELSE ds[i].seq + One
<1>1. AfterRate(ds, ix)[i] =
        [seq       |-> IF i >= ByRate(ds) THEN ds[i].seq + One - Interval(i) ELSE ds[i].seq + One,
         previndex |-> IF i >= ByRate(ds) /\ ByRate(ds) # 0 THEN ix ELSE ds[i].previndex]
  BY DEF AfterRate
<1>2. ds'[i].seq = AfterRate(ds, ix)[i].seq
  <2>1. CASE FarAt(ds, ix) = {}
    BY <2>1 DEF Dot, AfterFeature
  <2>2. CASE FarAt(ds, ix) # {}
    <3>1. ds'[i] = [AfterRate(ds, ix)[i] EXCEPT !.previndex =
                      IF i >= FeatureMinzoom(ds, ix) THEN ix ELSE @]
      BY <2>2 DEF Dot, AfterFeature
    <3> QED
      BY <3>1, <1>1
  <2> QED
    BY <2>1, <2>2
<1> QED
  BY <1>1, <1>2

LEMMA RateStep ==
    ASSUME TypeOK, NEW ix \in Index, Dot(ix), NEW i \in Zooms, Balanced(i)
    PROVE  Balanced(i)'
<1> DEFINE I == Interval(i)
           seq == ds[i].seq
           of == taken.of[i]
<1>1. I \in Nat /\ One \in Nat
  BY PowerAssumption DEF PowerAssumption
<1>2. seq \in Int /\ of \in Nat /\ taken.all \in Nat
  <2>1. ds[i] \in [seq : Int, previndex : Index]
    BY DEF TypeOK
  <2> QED
    BY <2>1 DEF TypeOK
<1>5. ds'[i].seq = IF i >= ByRate(ds) THEN seq + One - I ELSE seq + One
  BY SeqStep
<1>6. /\ taken'.all = taken.all + 1
      /\ taken'.of[i] = of + IF i >= ByRate(ds) THEN 1 ELSE 0
  BY DEF Dot
<1>7. (taken.all + 1) * One = taken.all * One + One /\ I * (of + 1) = I * of + I
  BY <1>1, <1>2, Distribute
<1>8. taken.all * One \in Int /\ I * of \in Int
  BY <1>1, <1>2
<1>9. seq = taken.all * One - I * of /\ seq >= 0 - I
  BY DEF Balanced
<1>10. i >= ByRate(ds) => seq + One >= 0
  BY ByRateIsDue
<1>11. ds'[i].seq = taken'.all * One - I * taken'.of[i] /\ ds'[i].seq >= 0 - I
  <2> HIDE DEF I, seq, of
  <2>1. CASE i >= ByRate(ds)
    <3>1. taken'.of[i] = of + 1 /\ ds'[i].seq = seq + One - I
      BY <2>1, <1>5, <1>6
    <3>2. taken'.all * One = taken.all * One + One /\ I * taken'.of[i] = I * of + I
      BY <3>1, <1>6, <1>7
    <3> QED
      BY <3>1, <3>2, <2>1, <1>1, <1>2, <1>8, <1>9, <1>10
  <2>2. CASE ~ (i >= ByRate(ds))
    <3>1. taken'.of[i] = of /\ ds'[i].seq = seq + One
      BY <2>2, <1>2, <1>5, <1>6
    <3>2. taken'.all * One = taken.all * One + One /\ I * taken'.of[i] = I * of
      BY <3>1, <1>6, <1>7
    <3> QED
      BY <3>1, <3>2, <1>1, <1>2, <1>8, <1>9
  <2> QED
    BY <2>1, <2>2
<1> QED
  BY <1>11 DEF Balanced

LEMMA RateInvInit == Init => RateInv
<1> SUFFICES ASSUME Init PROVE RateInv
  OBVIOUS
<1>1. TypeOK
  BY DropAssumption, PowerAssumption
     DEF Init, TypeOK, Fresh, DropAssumption, PowerAssumption, Index
<1>2. ASSUME NEW i \in Zooms PROVE Balanced(i)
  <2>1. Interval(i) \in Nat /\ One \in Nat
    BY PowerAssumption DEF PowerAssumption
  <2>2. ds[i].seq = 0 /\ taken.all = 0 /\ taken.of[i] = 0
    BY DEF Init, Fresh
  <2> QED
    BY <2>1, <2>2 DEF Balanced
<1> QED
  BY <1>1, <1>2 DEF RateInv

LEMMA RateInvStep == TypeOK /\ TypeOK' /\ RateInv /\ [Next]_vars => RateInv'
<1> SUFFICES ASSUME TypeOK, TypeOK', RateInv, [Next]_vars PROVE RateInv'
  OBVIOUS
<1>1. CASE UNCHANGED vars
  BY <1>1 DEF RateInv, Balanced, vars
<1>2. ASSUME NEW ix \in Index, Dot(ix), NEW i \in Zooms PROVE Balanced(i)'
  BY <1>2, RateStep DEF RateInv
<1> QED
  BY <1>1, <1>2 DEF Next, RateInv

\* No zoom level ever has more of the features than its share of them, rounded up: the
\* fractions that calc_feature_minzoom() carries on from feature to feature never add up
\* to one too many, for any drop rate.  The features that only the density keeps do not
\* count.
THEOREM RateHolds == Spec => []NoMoreThanRate
<1>3. RateInv => NoMoreThanRate
  <2> SUFFICES ASSUME RateInv, NEW i \in Zooms
               PROVE  Interval(i) * taken.of[i] <= taken.all * One + Interval(i)
    BY DEF NoMoreThanRate
  <2>1. Interval(i) \in Nat /\ One \in Nat /\ taken.of[i] \in Nat /\ taken.all \in Nat
    BY PowerAssumption DEF PowerAssumption, RateInv, TypeOK
  <2>2. Interval(i) * taken.of[i] \in Int /\ taken.all * One \in Int
    BY <2>1
  <2> QED
    BY <2>1, <2>2 DEF RateInv, Balanced
<1> QED
  BY <1>3, RateInvInit, RateInvStep, TypeCorrect, PTL DEF Spec

-----------------------------------------------------------------------------
(***************************************************************************)
(* How far behind.  What the states have left over says it: the highest of  *)
(* the zoom levels with a rate is never left with anything, and each of the *)
(* others with at most one interval of the level above more than that one.  *)
(* When a level refuses a feature that the level above takes, it is due     *)
(* nothing and that one is, so it is not ahead of it before.                *)
(***************************************************************************)
HasNext(i) == i < MaxZoom /\ i + 1 < BaseZoom

Waits(i) ==
    i < BaseZoom => IF HasNext(i) THEN ds[i].seq - ds[i + 1].seq <= Interval(i + 1)
                                  ELSE ds[i].seq <= 0

WaitInv == RateInv /\ (RateNum >= RateDen => \A i \in Zooms : Waits(i))

\* The level below the lowest that takes the feature is one that refuses it.
LEMMA ByRateRefuses ==
    ASSUME TypeOK, NEW i \in Zooms, i + 1 = ByRate(ds)
    PROVE  ds[i].seq + One < 0
<1> USE DropAssumption DEF DropAssumption, Zooms
<1> DEFINE refusing == {j \in Zooms : ds[j].seq + One < 0}
<1>1. refusing # {}
  <2>1. i + 1 # 0
    OBVIOUS
  <2> QED
    BY <2>1 DEF ByRate
<1>2. Highest(refusing) \in refusing
  BY <1>1, HighestOf
<1>3. ByRate(ds) = Highest(refusing) + 1
  BY <1>1 DEF ByRate
<1>4. Highest(refusing) \in 0 .. MaxZoom
  BY <1>2
<1>5. i = Highest(refusing)
  BY <1>3, <1>4
<1> QED
  BY <1>2, <1>5

LEMMA WaitStep ==
    ASSUME RateInv, NEW ix \in Index, Dot(ix), RateNum >= RateDen,
           NEW i \in Zooms, i < BaseZoom, Waits(i)
    PROVE  Waits(i)'
<1> USE DropAssumption DEF DropAssumption
<1>0. TypeOK
  BY DEF RateInv
<1> DEFINE m == ByRate(ds)
<1>1. /\ m \in 0 .. MaxZoom + 1
      /\ \A j \in Zooms : j >= m => ds[j].seq + One >= 0
  BY <1>0, ByRateIsDue
<1>2. \A j \in Zooms : j + 1 = m => ds[j].seq + One < 0
  BY <1>0, ByRateRefuses
<1> HIDE DEF m
<1>3. \A j \in Zooms : ds'[j].seq = IF j >= m THEN ds[j].seq + One - Interval(j)
                                              ELSE ds[j].seq + One
  BY <1>0, SeqStep DEF m
<1>4. One \in Nat /\ \A j \in Zooms : ds[j].seq \in Int /\ Interval(j) \in Nat
  <2>1. \A j \in Zooms : ds[j] \in [seq : Int, previndex : Index]
    BY <1>0 DEF TypeOK
  <2> QED
    BY <2>1, PowerAssumption DEF PowerAssumption
<1>5. i \in 0 .. MaxZoom /\ Interval(i) >= One /\ (i < MaxZoom => Interval(i) >= Interval(i + 1))
  BY PowerAssumption DEF PowerAssumption, Zooms
<1>6. CASE HasNext(i)
  <2> DEFINE a == ds[i].seq
             b == ds[i + 1].seq
             I == Interval(i)
             J == Interval(i + 1)
  <2>1. i + 1 \in Zooms
    BY <1>5, <1>6 DEF Zooms, HasNext
  <2>2. {a, b, I, J, One} \subseteq Int /\ J >= 0 /\ I >= J
    BY <1>4, <1>5, <1>6, <2>1 DEF HasNext
  <2>3. a - b <= J
    BY <1>6 DEF Waits
  <2>4. /\ ds'[i].seq = IF i >= m THEN a + One - I ELSE a + One
        /\ ds'[i + 1].seq = IF i + 1 >= m THEN b + One - J ELSE b + One
    BY <1>3, <2>1
  <2>5. (i + 1 >= m => b + One >= 0) /\ (i + 1 = m => a + One < 0)
    BY <1>1, <1>2, <2>1
  <2>6. ds'[i].seq - ds'[i + 1].seq <= J
    <3> HIDE DEF a, b, I, J
    <3>1. CASE i >= m
      BY <3>1, <1>1, <1>5, <2>2, <2>3, <2>4
    <3>2. CASE i + 1 = m
      BY <3>2, <1>1, <1>5, <2>2, <2>3, <2>4, <2>5
    <3>3. CASE i + 1 < m
      BY <3>3, <1>1, <1>5, <2>2, <2>3, <2>4
    <3> QED
      BY <3>1, <3>2, <3>3, <1>1, <1>5
  <2> QED
    BY <1>6, <2>6 DEF Waits, HasNext
<1>7. CASE ~HasNext(i)
  <2> DEFINE a == ds[i].seq
             I == Interval(i)
  <2>1. {a, I, One} \subseteq Int /\ I >= One
    BY <1>4, <1>5
  <2>2. a <= 0
    BY <1>7 DEF Waits
  <2>3. ds'[i].seq = IF i >= m THEN a + One - I ELSE a + One
    BY <1>3
  <2>4. i >= m \/ i + 1 = m
    <3>1. CASE i = MaxZoom
      BY <3>1, <1>1
    <3>2. CASE i < MaxZoom /\ m > i + 1
      <4>1. PICK j \in Zooms : j + 1 = m
        BY <3>2, <1>1, <1>5 DEF Zooms
      <4>2. j >= BaseZoom
        BY <1>1, <1>5, <1>7, <3>2, <4>1 DEF HasNext, Zooms
      <4>3. Interval(j) = 0
        BY <4>2 DEF Interval, Zooms
      <4>4. taken.all \in Nat /\ taken.of[j] \in Nat
        BY <1>0 DEF TypeOK
      <4>5. ds[j].seq = taken.all * One
        <5>1. ds[j].seq = taken.all * One - Interval(j) * taken.of[j]
          BY DEF RateInv, Balanced
        <5>2. taken.all * One \in Nat
          BY <1>4, <4>4
        <5> QED
          BY <5>1, <5>2, <4>3, <4>4
      <4>6. ds[j].seq >= 0
        BY <1>4, <4>4, <4>5
      <4> QED
        BY <1>2, <1>4, <4>1, <4>6
    <3> QED
      BY <3>1, <3>2, <1>1, <1>5
  <2>5. i + 1 = m => a + One < 0
    BY <1>2
  <2>6. ds'[i].seq <= 0
    <3> HIDE DEF a, I
    <3> QED
      BY <1>1, <1>5, <2>1, <2>2, <2>3, <2>4, <2>5
  <2> QED
    BY <1>7, <2>6 DEF Waits, HasNext
<1> QED
  BY <1>6, <1>7

\* A zoom level has no less of the features than its share of what the level above has, by
\* more than the one it may be waiting for, and the highest that has a rate no less than its
\* share of all: waiting for each other never starves a level.
THEOREM LessHolds == Spec => []NoLessThanRate
<1>1. Init => WaitInv
  <2> SUFFICES ASSUME Init, NEW i \in Zooms PROVE Waits(i)
    BY RateInvInit DEF WaitInv
  <2> USE DropAssumption DEF DropAssumption
  <2>1. \A j \in Zooms : ds[j].seq = 0 /\ Interval(j) \in Nat
    BY PowerAssumption DEF PowerAssumption, Init, Fresh
  <2>2. HasNext(i) => i + 1 \in Zooms
    BY DEF Zooms, HasNext
  <2>3. HasNext(i) => ds[i].seq = 0 /\ ds[i + 1].seq = 0 /\ Interval(i + 1) \in Nat
    BY <2>1, <2>2
  <2>4. HasNext(i) => ds[i].seq - ds[i + 1].seq <= Interval(i + 1)
    BY <2>3
  <2> QED
    BY <2>1, <2>4 DEF Waits
<1>2. TypeOK /\ TypeOK' /\ WaitInv /\ [Next]_vars => WaitInv'
  <2> SUFFICES ASSUME TypeOK, TypeOK', WaitInv, [Next]_vars PROVE WaitInv'
    OBVIOUS
  <2>1. RateInv'
    BY RateInvStep DEF WaitInv
  <2>2. CASE UNCHANGED vars
    BY <2>1, <2>2 DEF WaitInv, Waits, HasNext, vars
  <2>3. ASSUME NEW ix \in Index, Dot(ix), RateNum >= RateDen, NEW i \in Zooms PROVE Waits(i)'
    <3>1. CASE i < BaseZoom
      BY <2>3, <3>1, WaitStep DEF WaitInv
    <3>2. CASE ~(i < BaseZoom)
      BY <3>2 DEF Waits
    <3> QED
      BY <3>1, <3>2
  <2> QED
    BY <2>1, <2>2, <2>3 DEF Next, WaitInv
<1>3. WaitInv => NoLessThanRate
  <2> SUFFICES ASSUME WaitInv, RateNum >= RateDen, NEW i \in Zooms, i < BaseZoom
               PROVE  IF HasNext(i)
                      THEN Interval(i + 1) * taken.of[i + 1]
                             <= Interval(i) * taken.of[i] + Interval(i + 1)
                      ELSE taken.all * One <= Interval(i) * taken.of[i]
    BY DEF NoLessThanRate, HasNext
  <2> USE DropAssumption DEF DropAssumption
  <2>1. ASSUME NEW j \in Zooms
        PROVE  /\ {Interval(j), Interval(j) * taken.of[j], taken.all * One} \subseteq Int
               /\ ds[j].seq = taken.all * One - Interval(j) * taken.of[j]
    <3>1. Interval(j) \in Nat /\ One \in Nat /\ taken.of[j] \in Nat /\ taken.all \in Nat
      BY PowerAssumption DEF PowerAssumption, WaitInv, RateInv, TypeOK
    <3>2. Interval(j) * taken.of[j] \in Int /\ taken.all * One \in Int
      BY <3>1
    <3> QED
      BY <3>1, <3>2 DEF WaitInv, RateInv, Balanced
  <2>2. Waits(i)
    BY DEF WaitInv
  <2>3. CASE HasNext(i)
    <3>1. i + 1 \in Zooms
      BY <2>3 DEF HasNext, Zooms
    <3> DEFINE all == taken.all * One
               p == Interval(i) * taken.of[i]
               J == Interval(i + 1)
               q == J * taken.of[i + 1]
    <3>2. {all, p, q, J} \subseteq Int /\ ds[i].seq = all - p /\ ds[i + 1].seq = all - q
      BY <2>1, <3>1
    <3>3. ds[i].seq - ds[i + 1].seq <= J
      BY <2>2, <2>3 DEF Waits
    <3>4. q <= p + J
      <4> HIDE DEF all, p, q, J
      <4> QED
        BY <3>2, <3>3
    <3> QED
      BY <2>3, <3>4
  <2>4. CASE ~HasNext(i)
    <3> DEFINE all == taken.all * One
               p == Interval(i) * taken.of[i]
    <3>1. {all, p} \subseteq Int /\ ds[i].seq = all - p /\ ds[i].seq <= 0
      BY <2>1, <2>2, <2>4 DEF Waits
    <3>2. all <= p
      <4> HIDE DEF all, p
      <4> QED
        BY <3>1
    <3> QED
      BY <2>4, <3>2
  <2> QED
    BY <2>3, <2>4
<1> QED
  BY <1>1, <1>2, <1>3, TypeCorrect, PTL DEF Spec

-----------------------------------------------------------------------------
(***************************************************************************)
(* The density.  What a state remembers as the index of the feature taken   *)
(* before is never ahead of the one its zoom level really took, nor is that *)
(* ahead of the latest feature, so the distances the code measures do not   *)
(* wrap around, and are no less than those to the feature really taken.     *)
(***************************************************************************)
Behind == \A i \in Zooms : ds[i].previndex <= recent[i] /\ recent[i] <= at

DensityInv == TypeOK /\ Behind /\ NowhereSparse

LEMMA StateTypes ==
    ASSUME TypeOK
    PROVE  /\ at \in Int /\ 0 <= at /\ at < 4^Side /\ 4^Side \in Nat
           /\ \A i \in Zooms : /\ ds[i].previndex \in Int /\ 0 <= ds[i].previndex
                               /\ recent[i] \in Int /\ 0 <= recent[i]
<1>1. 4^Side \in Nat
  BY PowerAssumption DEF PowerAssumption
<1> DEFINE N == 4^Side
<1>2. Index = 0 .. N - 1
  BY DEF Index
<1>3. \A i \in Zooms : ds[i].previndex \in Index /\ recent[i] \in Index
  BY DEF TypeOK
<1>4. at \in Index
  BY DEF TypeOK
<1> HIDE DEF N
<1>5. \A x \in Index : x \in Int /\ 0 <= x /\ x < N
  BY <1>1, <1>2 DEF N
<1> QED
  BY <1>1, <1>3, <1>4, <1>5 DEF N

LEMMA ThresholdType ==
    ASSUME NEW i \in Zooms, Density > 0
    PROVE  Threshold(i) \in Int
<1> DEFINE p == 2^(Side - i)
           N == 4^Side
           d == p \div Density
<1>1. p \in Nat /\ N \in Nat \ {0} /\ Density \in Nat
  BY PowerAssumption, DropAssumption DEF PowerAssumption, DropAssumption
<1>2. Threshold(i) = (d * d) % N
  BY DEF Threshold, SquareOf
<1> HIDE DEF p, N
<1>3. d \in Int
  BY <1>1
<1> HIDE DEF d
<1>4. d * d \in Int
  BY <1>3
<1> QED
  BY <1>1, <1>2, <1>4

\* A zoom level that does not take the feature is near to the one it took before.
LEMMA NearEnough ==
    ASSUME TypeOK, Behind, NEW ix \in Index, ix >= at, Density > 0,
           NEW i \in Zooms, i < MaxZoom, i < FeatureMinzoom(ds, ix)
    PROVE  ix - recent[i] <= Threshold(i)
<1> USE DropAssumption DEF DropAssumption
<1>1. ByRate(ds) \in 0 .. MaxZoom + 1 /\ FarAt(ds, ix) \subseteq Nat
  <2>1. ByRate(ds) \in 0 .. MaxZoom + 1
    BY ByRateIsDue
  <2> QED
    BY <2>1 DEF FarAt
<1>2. i < ByRate(ds) /\ i \notin FarAt(ds, ix)
  <2>1. CASE FarAt(ds, ix) = {}
    BY <2>1 DEF FeatureMinzoom
  <2>2. CASE FarAt(ds, ix) # {}
    <3> DEFINE m == Lowest(FarAt(ds, ix))
    <3>1. m \in FarAt(ds, ix) /\ \A j \in FarAt(ds, ix) : m <= j
      BY <1>1, <2>2, LowestOf
    <3>2. i < m
      BY <2>2 DEF FeatureMinzoom
    <3>3. m \in 0 .. ByRate(ds) - 1
      BY <3>1 DEF FarAt
    <3> HIDE DEF m
    <3>4. i \in 0 .. MaxZoom
      BY DEF Zooms
    <3>5. i < ByRate(ds)
      BY <1>1, <3>2, <3>3, <3>4
    <3>6. ~(m <= i)
      BY <3>2, <3>3, <3>4, <1>1
    <3> QED
      BY <3>1, <3>5, <3>6
  <2> QED
    BY <2>1, <2>2
<1> DEFINE N == 4^Side
           prev == ds[i].previndex
<1>3. ~((ix - prev) % N > Threshold(i))
  <2>1. i \in 0 .. ByRate(ds) - 1
    BY <1>1, <1>2 DEF Zooms
  <2> QED
    BY <1>2, <2>1 DEF FarAt
<1>4. /\ prev \in Int /\ 0 <= prev /\ recent[i] \in Int /\ prev <= recent[i] /\ recent[i] <= at
      /\ at \in Int /\ N \in Nat /\ Threshold(i) \in Int
  BY StateTypes, ThresholdType DEF Behind
<1>5. ix \in Int /\ ix < N
  BY <1>4 DEF Index
<1> HIDE DEF N, prev
<1>6. ix - prev \in Int /\ 0 <= ix - prev /\ ix - prev < N
  BY <1>4, <1>5
<1>7. (ix - prev) % N = ix - prev
  BY <1>4, <1>6
<1> QED
  BY <1>3, <1>4, <1>5, <1>7

LEMMA DensityStep ==
    ASSUME DensityInv, TypeOK', NEW ix \in Index, Dot(ix)
    PROVE  DensityInv'
<1> DEFINE m == FeatureMinzoom(ds, ix)
<1>1. /\ TypeOK /\ Behind /\ ix >= at /\ at' = ix /\ ds' = AfterFeature(ds, ix)
      /\ latest' = m /\ recent' = [i \in Zooms |-> IF i >= m THEN ix ELSE recent[i]]
  BY DEF DensityInv, Dot
<1>2. ASSUME NEW i \in Zooms
      PROVE  /\ recent'[i] = IF i >= m THEN ix ELSE recent[i]
             /\ \/ ds'[i].previndex = ds[i].previndex
                \/ ds'[i].previndex = ix /\ i >= m
  <2> DEFINE r == AfterRate(ds, ix)[i]
  <2>1. /\ r = [seq |-> r.seq, previndex |-> r.previndex]
        /\ r.previndex = IF i >= ByRate(ds) /\ ByRate(ds) # 0 THEN ix ELSE ds[i].previndex
    BY DEF AfterRate
  <2> DEFINE Kept == ds'[i].previndex = ds[i].previndex
             Set  == ds'[i].previndex = ix /\ i >= m
  <2>2. ASSUME FarAt(ds, ix) = {}
        PROVE  Kept \/ Set
    <3>1. ds'[i] = r /\ m = ByRate(ds)
      BY <1>1, <2>2 DEF AfterFeature, FeatureMinzoom
    <3> HIDE DEF r, m
    <3> QED
      BY <2>1, <3>1
  <2>3. ASSUME FarAt(ds, ix) # {}
        PROVE  Kept \/ Set
    <3>1. ds'[i] = [r EXCEPT !.previndex = IF i >= m THEN ix ELSE r.previndex]
      BY <1>1, <2>3 DEF AfterFeature
    <3>2. ds'[i].previndex = IF i >= m THEN ix ELSE r.previndex
      <4> HIDE DEF r, m
      <4> QED
        BY <2>1, <3>1
    <3>3. i >= ByRate(ds) => i >= m
      <4>0. ByRate(ds) \in 0 .. MaxZoom + 1
        BY <1>1, ByRateIsDue
      <4>1. ByRate(ds) \in 0 .. MaxZoom + 1 /\ FarAt(ds, ix) \subseteq Nat
        BY <4>0, DropAssumption DEF FarAt, DropAssumption
      <4>2. m \in FarAt(ds, ix)
        BY <2>3, <4>1, LowestOf DEF FeatureMinzoom
      <4>3. m \in 0 .. ByRate(ds) - 1
        BY <4>2 DEF FarAt
      <4> HIDE DEF m
      <4> QED
        BY <4>1, <4>3, DropAssumption DEF DropAssumption, Zooms
    <3> HIDE DEF r, m
    <3> QED
      BY <2>1, <3>2, <3>3
  <2>4. recent'[i] = IF i >= m THEN ix ELSE recent[i]
    BY <1>1
  <2> QED
    BY <2>2, <2>3, <2>4
<1> HIDE DEF m
<1>3. /\ at \in Int /\ ix \in Int
      /\ \A i \in Zooms : ds[i].previndex \in Int /\ recent[i] \in Int
  BY <1>1, StateTypes, TypeOK' DEF Index
<1>4. Behind'
  BY <1>1, <1>2, <1>3 DEF Behind
<1>5. m \in 0 .. MaxZoom + 1
  BY <1>1, FeatureMinzoomType DEF m
<1>6. NowhereSparse'
  <2> SUFFICES ASSUME Density > 0, NEW i \in Zooms, i < MaxZoom, i < m
               PROVE  ix - recent'[i] <= Threshold(i)
    BY <1>1 DEF NowhereSparse
  <2>1. recent'[i] = recent[i]
    BY <1>2, <1>5, DropAssumption DEF DropAssumption, Zooms
  <2> QED
    BY <1>1, <2>1, NearEnough DEF m
<1> QED
  BY <1>4, <1>6 DEF DensityInv

\* A feature that a zoom level leaves out is near to one that it took: however the drop
\* states carry the fractions on, the density that was asked for is kept (README.md:484).
THEOREM DensityHolds == Spec => []NowhereSparse
<1>1. Init => DensityInv
  <2> SUFFICES ASSUME Init PROVE DensityInv
    OBVIOUS
  <2>1. TypeOK
    BY DropAssumption, PowerAssumption
       DEF Init, TypeOK, Fresh, DropAssumption, PowerAssumption, Index
  <2>2. Behind
    BY DEF Init, Behind, Fresh
  <2>3. NowhereSparse
    BY DEF Init, NowhereSparse, Zooms
  <2> QED
    BY <2>1, <2>2, <2>3 DEF DensityInv
<1>2. TypeOK' /\ DensityInv /\ [Next]_vars => DensityInv'
  <2> SUFFICES ASSUME TypeOK', DensityInv, [Next]_vars PROVE DensityInv'
    OBVIOUS
  <2>1. CASE UNCHANGED vars
    BY <2>1 DEF DensityInv, Behind, NowhereSparse, vars
  <2>2. ASSUME NEW ix \in Index, Dot(ix) PROVE DensityInv'
    BY <2>2, DensityStep
  <2> QED
    BY <2>1, <2>2 DEF Next
<1>3. DensityInv => NowhereSparse
  BY DEF DensityInv
<1> QED
  BY <1>1, <1>2, <1>3, TypeCorrect, PTL DEF Spec
=============================================================================
