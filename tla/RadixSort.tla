----------------------------- MODULE RadixSort ------------------------------
(***************************************************************************)
(* Sorting the features of all the readers by index, out of memory: each    *)
(* call of radix1() splits its inputs by the next bits of the index into as *)
(* many temporary files as may be open.  A file that is small enough is     *)
(* sorted in units by the threads and merged, a larger one is split by      *)
(* another call.  What comes out goes to the drop states on the way.        *)
(***************************************************************************)
EXTENDS DropStates, Sequences, SequencesExt

CONSTANTS
    Inputs,         \* what the readers have: sequences of features for each
    MostFeatures,   \* bounds the number of features that they have
    Available,      \* availfiles at the start: set of numbers of files
    Memory,         \* mem, in features
    CPUS,           \* CPUS
    Page,           \* get_page_size(), in features
    MaxUnit         \* max_unit, in features

Feature == [ix : Index, seq : Nat]

ASSUME RadixAssumption ==
    /\ Inputs \subseteq Seq(Seq(Feature)) /\ MostFeatures \in Nat
    /\ \A input \in Inputs : Len(FlattenSeq(input)) <= MostFeatures
    /\ Available \subseteq Int
    /\ {CPUS, Page, MaxUnit} \subseteq Nat \ {0} /\ Memory \in Nat

VARIABLES
    readers,    \* readers
    pc,         \* where the call of radix1() is
    calls,      \* the calls of radix1(), the innermost last
    units,      \* a file being sorted: the units of it, and which one each thread is at
    merging,    \* the list of units being merged, as far as they are not yet merged
    availfiles, \* availfiles
    before,     \* availfiles_before
    ds,         \* ds
    out         \* the merged index, and the minimum zooms that went into the geometry

vars == <<readers, pc, calls, units, merging, availfiles, before, ds, out>>

Threads == 0 .. CPUS - 1
Bits    == 2 * Side
Call    == calls[Len(calls)]
Lesser(a, b) == IF a < b THEN a ELSE b

\* The largest power of 2 that is as many as there are to be, but at least 2
Log2(n) == CHOOSE k \in 0 .. n : 2^k <= n /\ n < 2^(k + 1)
SplitBits(splits) == IF splits > 1 THEN Log2(splits) ELSE 1

Beginning(inputs, prefix, splits) ==
    [inputs |-> inputs, prefix |-> prefix, bits |-> SplitBits(splits), buckets |-> <<>>, at |-> 1]
SetCall(call) == calls' = [calls EXCEPT ![Len(calls)] = call]

Init ==
    /\ readers \in Inputs
    /\ availfiles \in Available
    /\ before = availfiles
    /\ pc = "open"
    /\ calls = <<Beginning(readers, 0, availfiles \div 4)>>
    /\ units = [file |-> <<>>, at |-> [a \in Threads |-> a]]
    /\ merging = <<>>
    /\ ds = Fresh
    /\ out = <<>>

(***************************************************************************)
(* Splitting                                                               *)
(***************************************************************************)
\* Each bucket has a geometry and an index file, each open to read and to write.
OpenBuckets ==
    /\ pc = "open"
    /\ availfiles' = availfiles - 4 * 2^Call.bits
    /\ pc' = "distribute"
    /\ UNCHANGED <<readers, before, calls, units, merging, ds, out>>

\* Wrong: the first bits of the index again.
BucketOfTop(ix) == ix \div 2^(Bits - Call.bits)

\* The next bits of the index
Bucket(ix) == ((ix * 2^Call.prefix) % 2^Bits) \div 2^(Bits - Call.bits)

\* Then its inputs are closed, and the buckets to write.
Distribute ==
    /\ pc = "distribute"
    /\ LET all == FlattenSeq(Call.inputs)
       IN SetCall([Call EXCEPT !.buckets =
            [b \in 1 .. 2^Call.bits |-> SelectSeq(all, LAMBDA f : Bucket(f.ix) = b - 1)]])
    /\ availfiles' = availfiles + 2 * Len(Call.inputs) + 2 * 2^Call.bits
    /\ pc' = "bucket"
    /\ UNCHANGED <<readers, before, units, merging, ds, out>>

(***************************************************************************)
(* Sorting a bucket in memory                                              *)
(***************************************************************************)
File == Call.buckets[Call.at]
CanSubdivide == availfiles \div 4 > 1
AtBucket == pc = "bucket" /\ Call.at <= Len(Call.buckets)

\* Wrong: another level is begun with whatever files are left.
InMemoryIfSmall == Len(File) < Memory

\* What is too large is sorted in memory too if it cannot be subdivided.
InMemory == Len(File) < Memory \/ ~CanSubdivide

\* Wrong: the files are closed but not counted.
CloseUncounted ==
    /\ SetCall([Call EXCEPT !.at = @ + 1])
    /\ UNCHANGED availfiles

CloseBucket ==
    /\ SetCall([Call EXCEPT !.at = @ + 1])
    /\ availfiles' = availfiles + 2

EmptyBucket ==
    /\ AtBucket /\ File = <<>>
    /\ CloseBucket
    /\ UNCHANGED <<readers, before, pc, units, merging, ds, out>>

\* The units are whole pages, so that there may be fewer than threads, or more.
RoundUp(n, to) == ((n + to - 1) \div to) * to
UnitSize(n) == RoundUp(Lesser(RoundUp(n, CPUS) \div CPUS, MaxUnit), Page)
\* Wrong: only the whole units.
WholeUnits(file) ==
    LET size == UnitSize(Len(file))
    IN [k \in 1 .. Len(file) \div size |-> SubSeq(file, (k - 1) * size + 1, k * size)]

UnitsOf(file) ==
    LET size == UnitSize(Len(file))
    IN [k \in 1 .. RoundUp(Len(file), size) \div size |->
            SubSeq(file, (k - 1) * size + 1, Lesser(k * size, Len(file)))]

StartSort ==
    /\ AtBucket /\ File # <<>> /\ InMemory
    /\ units' = [file |-> UnitsOf(File), at |-> [a \in Threads |-> a]]
    /\ pc' = "sort"
    /\ UNCHANGED <<readers, before, calls, merging, availfiles, ds, out>>

\* Wrong: the index alone.
PrecedesByIndex(f, g) == f.ix < g.ix

\* indexcmp()
Precedes(f, g) == f.ix < g.ix \/ (f.ix = g.ix /\ f.seq < g.seq)

\* run_sort(): every thread sorts each CPUS-th of the units, in a copy of it.
SortUnit(a) ==
    LET k == units.at[a] + 1
    IN /\ pc = "sort" /\ k <= Len(units.file)
       /\ units' = [file |-> [units.file EXCEPT ![k] = SortSeq(@, Precedes)],
                    at   |-> [units.at EXCEPT ![a] = @ + CPUS]]
       /\ UNCHANGED <<readers, before, pc, calls, merging, availfiles, ds, out>>

\* insert(): before the first one in the list whose next feature is no less
Insert(unit, list) ==
    LET lesser == {k \in 1 .. Len(list) : \A j \in 1 .. k : Precedes(list[j][1], unit[1])}
        n == Cardinality(lesser)
    IN SubSeq(list, 1, n) \o <<unit>> \o SubSeq(list, n + 1, Len(list))

\* When every thread has come to the end, the units are merged.
Joined == \A a \in Threads : units.at[a] >= Len(units.file)

StartMerge ==
    /\ pc = "sort" /\ Joined
    /\ merging' = FoldLeft(LAMBDA list, unit : Insert(unit, list), <<>>, units.file)
    /\ units' = [file |-> <<>>, at |-> [a \in Threads |-> a]]
    /\ pc' = "merge"
    /\ UNCHANGED <<readers, before, calls, availfiles, ds, out>>

\* There are no more bits of the index to split by.
Exhausted == Call.prefix + Call.bits >= Bits

\* A bucket of a single feature, or of features that have the same index, is copied.
Copy ==
    /\ AtBucket /\ File # <<>> /\ ~InMemory
    /\ Len(File) = 1 \/ Exhausted
    /\ merging' = <<File>>
    /\ pc' = "merge"
    /\ UNCHANGED <<readers, before, calls, units, availfiles, ds, out>>

\* merge(): the next feature, of the first unit in the list, goes out.
MergeNext ==
    /\ pc = "merge" /\ merging # <<>>
    /\ LET f == merging[1][1]
           rest == Tail(merging[1])
       IN /\ out' = Append(out, [f |-> f, minzoom |-> FeatureMinzoom(ds, f.ix),
                                due |-> ByRate(ds)])
          /\ ds' = AfterFeature(ds, f.ix)
          /\ merging' = IF rest = <<>> THEN Tail(merging) ELSE Insert(rest, Tail(merging))
    /\ UNCHANGED <<readers, before, pc, calls, units, availfiles>>

EndMerge ==
    /\ pc = "merge" /\ merging = <<>>
    /\ CloseBucket
    /\ pc' = "bucket"
    /\ UNCHANGED <<readers, before, units, merging, ds, out>>

(***************************************************************************)
(* Splitting a bucket again                                                *)
(***************************************************************************)
Subdivide ==
    /\ AtBucket /\ ~InMemory
    /\ Len(File) > 1 /\ ~Exhausted
    /\ calls' = Append([calls EXCEPT ![Len(calls)].at = @ + 1],
                       Beginning(<<File>>, Call.prefix + Call.bits, availfiles \div 4))
    /\ pc' = "open"
    /\ UNCHANGED <<readers, before, units, merging, availfiles, ds, out>>

Return ==
    /\ pc = "bucket" /\ Call.at > Len(Call.buckets)
    /\ IF Len(calls) = 1
       THEN pc' = "done" /\ UNCHANGED calls
       ELSE calls' = SubSeq(calls, 1, Len(calls) - 1) /\ UNCHANGED pc
    /\ UNCHANGED <<readers, before, units, merging, availfiles, ds, out>>

Finished == pc = "done" /\ UNCHANGED vars

Sort ==
    \/ OpenBuckets \/ Distribute \/ EmptyBucket
    \/ StartSort \/ (\E a \in Threads : SortUnit(a)) \/ StartMerge
    \/ Copy \/ MergeNext \/ EndMerge
    \/ Subdivide \/ Return

Next == Sort \/ Finished

Spec == Init /\ [][Next]_vars
-----------------------------------------------------------------------------
All == UNION {{readers[r][k] : k \in DOMAIN readers[r]} : r \in DOMAIN readers}

TypeOK ==
    /\ readers \in Seq(Seq(Feature))
    /\ pc \in {"open", "distribute", "bucket", "sort", "merge", "done"}
    /\ \A c \in DOMAIN calls :
        /\ calls[c].inputs \in Seq(Seq(All)) /\ calls[c].buckets \in Seq(Seq(All))
        /\ calls[c].prefix \in 0 .. Bits - 1 /\ calls[c].bits \in 1 .. Bits
        /\ calls[c].at \in 1 .. Len(calls[c].buckets) + 1
    /\ units.file \in Seq(Seq(All))
    /\ units.at \in [Threads -> Nat]
    /\ merging \in Seq(Seq(All))
    /\ {availfiles, before} \subseteq Int
    /\ ds \in [Zooms -> [seq : Int, previndex : Index]]
    /\ out \in Seq([f : All, minzoom : 0 .. MaxZoom + 1, due : 0 .. MaxZoom + 1])

\* What comes out is what the readers had: no feature is lost on the way or doubled.
NothingLost ==
    pc = "done" => {out[k].f : k \in DOMAIN out} = All /\ Len(out) = Cardinality(All)

\* Features with the same index come out in the order of the input, unless there are too
\* many of them to be sorted.
TiesInOrder ==
    \A k \in 2 .. Len(out) :
        out[k - 1].f.ix = out[k].f.ix =>
            \/ out[k - 1].f.seq < out[k].f.seq
            \/ Cardinality({f \in All : f.ix = out[k].f.ix}) >= Memory

\* The sort is stable and a permutation, out of memory as in it.
SortedStably == NothingLost /\ TiesInOrder

\* No more files are open than may be, if there were enough for two buckets to begin with.
FilesSuffice == before >= 8 => availfiles >= 0

\* Every file is closed: the test that radix() makes when it has sorted (main.cpp:1140).
FilesAccounted ==
    pc = "done" => availfiles - 2 * Len(readers) = before

\* The count of available files is right all the time: the calls of radix1() rely on it
\* to decide how far to split.
FilesKept == TypeOK /\ FilesSuffice /\ FilesAccounted

\* The features go to the drop states in the order of their index.
LastTaken(i) == {k \in DOMAIN out : out[k].minzoom <= i}
Dropping == INSTANCE DotDropping WITH
    MaxDots <- MostFeatures,
    at      <- IF out = <<>> THEN 0 ELSE out[Len(out)].f.ix,
    latest  <- IF out = <<>> THEN 0 ELSE out[Len(out)].minzoom,
    taken   <- [all |-> Len(out),
                of  |-> [i \in Zooms |-> Cardinality({k \in DOMAIN out : out[k].due <= i})]],
    recent  <- [i \in Zooms |-> IF LastTaken(i) = {} THEN 0 ELSE out[Max(LastTaken(i))].f.ix]
SortsForDropping == Dropping!Spec
=============================================================================
