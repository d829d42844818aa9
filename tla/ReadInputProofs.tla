-------------------------- MODULE ReadInputProofs --------------------------
(***************************************************************************)
(* Proofs that reading goes on while a batch is parsed without touching     *)
(* what is being parsed, that the sequence numbers are in the order of the  *)
(* input, and that every feature is parsed once, for any sources, any       *)
(* number of threads and any sizes of the buffers and queues.               *)
(*                                                                         *)
(* The second is why each thread of a batch may begin its sequence with its *)
(* offset into the input: it gives out no more numbers than it has items,   *)
(* so that it ends before the thread after it begins.  The third is why a   *)
(* source is only cut in front of a separator or where a batch ends: what a *)
(* thread finds at its beginning is a whole line, and nothing is in two     *)
(* parts or in none.                                                        *)
(***************************************************************************)
EXTENDS ReadInput, FiniteSetTheorems, SequenceTheorems, TLAPS, WellFoundedInduction

T(b, i)   == batches[b].thread[i]
KindOf(b) == input[batches[b].source].kind

\* Every number a thread has yet to give out is less than this.
Bound(b, i) ==
    IF KindOf(b) = "serial" THEN T(b, i).seq
    ELSE T(b, i).seq + (T(b, i).end - T(b, i).pos)

\* Only the first of the threads of a serial batch has anything to do.
Works(b, i) == KindOf(b) = "serial" => i = 0

Before(b, i, c, j) == b < c \/ (b = c /\ i < j)

(***************************************************************************)
(* Where main is                                                           *)
(***************************************************************************)
\* Main is in the middle of a source, and in a part of read_input() for its kind.
MainThere ==
    main.pc # "open" =>
        /\ main.source \in DOMAIN input /\ Kind # "missing"
        /\ main.pc \in {"temp", "batch", "drain", "last"} => Kind = "stream"
        /\ main.pc = "run" => Kind \in Queued
        /\ main.pc = "wait" => Kind # "stream"
        /\ main.created => Kind = "stream"
        /\ main.ahead <= main.pos /\ main.pos <= Len(Items)
        /\ Kind \in {"map", "serial"} => main.pos = 0 /\ main.ahead = 0

\* While main waits for threads, or there is an intermediate thread, the last batch
\* is one of the present source.
LastIsCurrent ==
    main.pc # "open" /\ (main.pc = "wait" \/ main.created) =>
        /\ Last > 0 /\ batches[Last].source = main.source
        /\ main.pc = "wait" => batches[Last].pc = "parse" /\ batches[Last].fd = 0

\* Nobody is parsing, as main has waited for all that it started.
Idle ==
    \/ main.pc \in {"open", "run", "close"}
    \/ main.pc = "read" /\ Kind # "stream"
    \/ main.pc # "wait" /\ Kind = "stream" /\ ~main.created

OnlyLast ==
    \A b \in 1 .. Last : b < Last \/ Idle => batches[b].pc = "ended"

\* The descriptor of a temporary file that is parsed stays open, and main writes to
\* another file.
TempsOpen ==
    /\ \A b \in 1 .. Last :
        batches[b].pc = "parse" /\ batches[b].fd # 0 => batches[b].fd \in fds
    /\ main.pc \in {"read", "batch", "drain"} /\ Kind = "stream" =>
        /\ main.temp \in fds
        /\ \A b \in 1 .. Last : batches[b].pc = "parse" => batches[b].fd # main.temp

(***************************************************************************)
(* What the threads have                                                   *)
(***************************************************************************)
\* Each thread has a part of a source that main has come to.
ThreadOf(b, i) ==
    /\ T(b, i).from <= T(b, i).pos /\ T(b, i).pos <= T(b, i).end
    /\ T(b, i).end <= Len(input[batches[b].source].items)
    /\ ~Works(b, i) => T(b, i).pos = T(b, i).end
ThreadsInside ==
    \A b \in 1 .. Last :
        /\ batches[b].source \in DOMAIN input /\ batches[b].source <= main.source
        /\ KindOf(b) # "missing"
        /\ main.pc = "open" => batches[b].source < main.source
        /\ \A i \in Threads : ThreadOf(b, i)

\* What a batch has of a stream or a queue ends before what is not in a batch yet.
Frontier ==
    main.pc # "open" /\ (main.pc = "read" \/ Kind \notin {"map", "serial"}) =>
        \A b \in 1 .. Last : \A i \in Threads :
            batches[b].source = main.source => T(b, i).end <= main.pos - main.ahead

Safe ==
    /\ TypeOK /\ input \in Inputs /\ IsFiniteSet(out)
    /\ MainThere /\ LastIsCurrent /\ OnlyLast /\ TempsOpen /\ ThreadsInside /\ Frontier

(***************************************************************************)
(* The sequences                                                           *)
(***************************************************************************)
\* The threads and batches have parts of the input that follow each other, and the
\* numbers of one are all less than those of the next.
ThreadsInOrder ==
    \A b, c \in 1 .. Last : \A i, j \in Threads :
        Works(b, i) /\ Works(c, j) /\ Before(b, i, c, j) =>
            /\ batches[b].source <= batches[c].source
            /\ batches[b].source = batches[c].source => T(b, i).end <= T(c, j).from
            /\ Bound(b, i) <= T(c, j).seq

\* Main has gone past the numbers of the batches, except those of the threads that
\* it is waiting for and whose numbers it will take over.
TakesOver(b) == main.pc = "wait" /\ Kind # "map" /\ b = Last
BelowOffset ==
    \A b \in 1 .. Last : \A i \in Threads :
        Works(b, i) =>
            IF TakesOver(b) THEN main.offset <= T(b, i).seq ELSE Bound(b, i) <= main.offset

\* Every feature was parsed by a thread, which has gone past its number.
From(r, b, i) ==
    /\ Works(b, i) /\ r.source = batches[b].source /\ r.seq < T(b, i).seq
    /\ T(b, i).from <= r.pos /\ r.pos < T(b, i).pos
Placed == \A r \in out : \E b \in 1 .. Last : \E i \in Threads : From(r, b, i)

\* Whatever comes after the part that a thread has is numbered after it.
Follows(r, b, i) ==
    \/ r.source > batches[b].source
    \/ r.source = batches[b].source /\ r.pos >= T(b, i).end
BoundedAfter ==
    \A r \in out : \A b \in 1 .. Last : \A i \in Threads :
        Works(b, i) /\ Follows(r, b, i) => Bound(b, i) <= r.seq


-----------------------------------------------------------------------------
(***************************************************************************)
(* How the input is cut up                                                  *)
(***************************************************************************)
\* A thread's share of so many items is among them, and later for a later thread.
LEMMA Share ==
    ASSUME NEW len \in Nat, NEW i \in 0 .. CPUS, NEW j \in i .. CPUS
    PROVE  /\ (len * i) \div CPUS \in 0 .. len
           /\ (len * i) \div CPUS <= (len * j) \div CPUS
<1>1. CPUS \in Nat /\ CPUS > 0
  BY SizeAssumption
<1>2. \A x \in Nat : x \div CPUS \in Nat /\ CPUS * (x \div CPUS) <= x
                     /\ x < CPUS * (x \div CPUS) + CPUS
  BY <1>1
<1>3. \A a, p, q \in Nat : p <= q => a * p <= a * q
  OBVIOUS
<1>4. \A x, y \in Nat : x <= y => x \div CPUS <= y \div CPUS
  <2>1. SUFFICES ASSUME NEW x \in Nat, NEW y \in Nat, x <= y, (y \div CPUS) + 1 <= x \div CPUS
                 PROVE  FALSE
    BY <1>2
  <2>2. CPUS * ((y \div CPUS) + 1) <= CPUS * (x \div CPUS)
    BY <2>1, <1>1, <1>2, <1>3
  <2>3. CPUS * ((y \div CPUS) + 1) = CPUS * (y \div CPUS) + CPUS
    BY <1>1, <1>2
  <2> QED
    BY <2>1, <2>2, <2>3, <1>1, <1>2
<1>5. \A a \in Nat : (a * CPUS) \div CPUS = a
  BY <1>1
<1>6. len * i \in Nat /\ len * j \in Nat /\ len * CPUS \in Nat
      /\ len * i <= len * j /\ len * j <= len * CPUS
  BY <1>1, <1>3
<1> QED
  BY <1>2, <1>4, <1>5, <1>6

\* There is a least number in any set of them.
LEMMA Least ==
    ASSUME NEW S, S \subseteq Nat, S # {}
    PROVE  \E p \in S : \A q \in S : p <= q
<1>1. PICK p \in S : \A q \in S : ~ (<<q, p>> \in OpToRel(<, Nat))
  BY NatLessThanWellFounded, WFMin
<1>2. SUFFICES ASSUME NEW q \in S
               PROVE  p <= q
  OBVIOUS
<1>3. p \in Nat /\ q \in Nat /\ ~ (<<q, p>> \in OpToRel(<, Nat))
  BY <1>1
<1> QED
  BY <1>3 DEF OpToRel

\* Where a thread begins is inside the range, and no later than where the next does.
LEMMA CutInOrder ==
    ASSUME NEW items, NEW from \in Nat, NEW len \in Nat,
           NEW i \in 0 .. CPUS, NEW j \in i .. CPUS
    PROVE  /\ Cut(items, from, len, i) \in from .. from + len
           /\ Cut(items, from, len, i) <= Cut(items, from, len, j)
           /\ Cut(items, from, len, 0) = from
           /\ Cut(items, from, len, CPUS) = from + len
<1>1. CPUS \in Nat /\ CPUS > 0
  BY SizeAssumption
<1> DEFINE Even(k) == from + (len * k) \div CPUS
           Seps(k) == {p \in Even(k) .. from + len - 1 : items[p + 1] = Sep}
           First(k) == CHOOSE p \in Seps(k) : \A q \in Seps(k) : p <= q
<1>2. \A k \in 0 .. CPUS : Even(k) \in from .. from + len
  BY Share, <1>1
<1>3. Even(i) <= Even(j)
  BY Share, <1>1
<1>4. Cut(items, from, len, 0) = from /\ Cut(items, from, len, CPUS) = from + len
  BY <1>1 DEF Cut
<1>5. \A k \in 1 .. CPUS - 1 :
        Cut(items, from, len, k) = IF Seps(k) = {} THEN from + len ELSE First(k)
  BY <1>1 DEF Cut
<1> HIDE DEF Even
<1>6. \A k \in 0 .. CPUS : Seps(k) \subseteq Nat
  BY <1>2
<1>7. \A k \in 0 .. CPUS :
        Seps(k) # {} => First(k) \in Seps(k) /\ \A q \in Seps(k) : First(k) <= q
  <2> SUFFICES ASSUME NEW k \in 0 .. CPUS, Seps(k) # {}
               PROVE  First(k) \in Seps(k) /\ \A q \in Seps(k) : First(k) <= q
    OBVIOUS
  <2>1. \E p \in Seps(k) : \A q \in Seps(k) : p <= q
    BY <1>6, Least
  <2> QED
    BY <2>1
<1>8. Seps(j) \subseteq Seps(i)
  BY <1>2, <1>3
<1>9. \A k \in 0 .. CPUS : Seps(k) \subseteq from .. from + len - 1
  BY <1>2
<1> HIDE DEF Seps, First
<1>10. \A k \in 0 .. CPUS : Cut(items, from, len, k) \in from .. from + len
  BY <1>1, <1>4, <1>5, <1>7, <1>9
<1>11. Cut(items, from, len, i) <= Cut(items, from, len, j)
  <2>1. CASE i = 0 \/ j = CPUS
    BY <2>1, <1>4, <1>10, <1>1
  <2>2. CASE i # 0 /\ j # CPUS
    <3>1. CASE Seps(j) = {}
      BY <3>1, <2>2, <1>5, <1>10, <1>1
    <3>2. CASE Seps(j) # {}
      <4>1. First(j) \in Seps(i) /\ First(i) <= First(j)
        BY <3>2, <1>7, <1>8, <1>1
      <4> QED
        BY <4>1, <3>2, <2>2, <1>5, <1>1
    <3> QED
      BY <3>1, <3>2
  <2> QED
    BY <2>1, <2>2
<1> QED
  BY <1>4, <1>10, <1>11

-----------------------------------------------------------------------------
(***************************************************************************)
(* New batches                                                              *)
(***************************************************************************)
\* A batch of main's source, whose threads have parts of from .. to that follow each
\* other, and sequences that begin at base.
Fits(nb, from, to, base, fd) ==
    /\ nb \in BatchType
    /\ nb.source = main.source /\ nb.fd = fd /\ nb.pc = "parse"
    /\ \A i \in Threads :
        /\ nb.thread[i].pos = nb.thread[i].from
        /\ from <= nb.thread[i].from /\ nb.thread[i].from <= nb.thread[i].end
        /\ nb.thread[i].end <= to
        /\ nb.thread[i].seq = base + (nb.thread[i].from - from)
        /\ Kind = "serial" /\ i # 0 => nb.thread[i].pos = nb.thread[i].end
    /\ Kind # "serial" =>
        \A i, j \in Threads : i < j => nb.thread[i].end <= nb.thread[j].from

ThreadType == [from : Nat, pos : Nat, end : Nat, seq : Nat]

LEMMA TextFits ==
    ASSUME NEW from \in Nat, NEW len \in Nat, NEW base \in Nat,
           NEW fd \in Descriptors \cup {0}, main.source \in Nat \ {0}, Kind # "serial"
    PROVE  Fits(TextBatch(from, len, base, fd), from, from + len, base, fd)
<1> DEFINE nb == TextBatch(from, len, base, fd)
           C(i) == Cut(Items, from, len, i)
<1>1. CPUS \in Nat /\ CPUS > 0
  BY SizeAssumption
<1>2. \A i, j \in 0 .. CPUS : i <= j => C(i) \in from .. from + len /\ C(i) <= C(j)
  BY CutInOrder, <1>1
<1> HIDE DEF C
<1>3. nb.thread = [i \in Threads |-> [from |-> C(i), pos |-> C(i), end |-> C(i + 1),
                                      seq |-> FirstSeq(base, from, C(i))]]
  BY DEF TextBatch, C
<1>4. nb.source = main.source /\ nb.fd = fd /\ nb.pc = "parse"
      /\ nb = [source |-> main.source, fd |-> fd, pc |-> "parse", thread |-> nb.thread]
  BY DEF TextBatch
<1> HIDE DEF nb
<1>5. \A i \in Threads : /\ i \in 0 .. CPUS /\ i + 1 \in 0 .. CPUS /\ i <= i + 1
                         /\ \A j \in Threads : i < j => i + 1 <= j
  BY <1>1 DEF Threads
<1>6. \A i \in Threads : /\ C(i) \in Nat /\ C(i + 1) \in Nat /\ from <= C(i)
                         /\ C(i) <= C(i + 1) /\ C(i + 1) <= from + len
                         /\ \A j \in Threads : i < j => C(i + 1) <= C(j)
  BY <1>2, <1>5
<1>7. \A i \in Threads : /\ nb.thread[i].from = C(i) /\ nb.thread[i].pos = C(i)
                         /\ nb.thread[i].end = C(i + 1)
                         /\ nb.thread[i].seq = base + (C(i) - from)
                         /\ nb.thread[i] \in ThreadType
  BY <1>3, <1>6 DEF FirstSeq, ThreadType
<1>8. nb.thread \in [Threads -> ThreadType]
  BY <1>3, <1>7
<1>9. nb \in BatchType
  BY <1>4, <1>8 DEF BatchType, ThreadType
<1> QED
  BY <1>4, <1>6, <1>7, <1>9 DEF Fits, nb

LEMMA QueueFits ==
    ASSUME NEW from \in Nat, NEW len \in Nat, NEW base \in Nat,
           main.source \in Nat \ {0}, Kind # "serial"
    PROVE  Fits(QueueBatch(from, len, base), from, from + len, base, 0)
<1> DEFINE nb == QueueBatch(from, len, base)
           C(i) == from + (len * i) \div CPUS
<1>1. CPUS \in Nat /\ CPUS > 0
  BY SizeAssumption
<1>2. \A i, j \in 0 .. CPUS : i <= j => C(i) \in from .. from + len /\ C(i) <= C(j)
  BY Share, <1>1
<1> HIDE DEF C
<1>3. nb.thread = [i \in Threads |-> [from |-> C(i), pos |-> C(i), end |-> C(i + 1),
                                      seq |-> base + (C(i) - from)]]
  BY DEF QueueBatch, C
<1>4. nb.source = main.source /\ nb.fd = 0 /\ nb.pc = "parse"
      /\ nb = [source |-> main.source, fd |-> 0, pc |-> "parse", thread |-> nb.thread]
  BY DEF QueueBatch
<1> HIDE DEF nb
<1>5. \A i \in Threads : /\ i \in 0 .. CPUS /\ i + 1 \in 0 .. CPUS /\ i <= i + 1
                         /\ \A j \in Threads : i < j => i + 1 <= j
  BY <1>1 DEF Threads
<1>6. \A i \in Threads : /\ C(i) \in Nat /\ C(i + 1) \in Nat /\ from <= C(i)
                         /\ C(i) <= C(i + 1) /\ C(i + 1) <= from + len
                         /\ \A j \in Threads : i < j => C(i + 1) <= C(j)
  BY <1>2, <1>5
<1>7. \A i \in Threads : /\ nb.thread[i].from = C(i) /\ nb.thread[i].pos = C(i)
                         /\ nb.thread[i].end = C(i + 1)
                         /\ nb.thread[i].seq = base + (C(i) - from)
                         /\ nb.thread[i] \in ThreadType
  BY <1>3, <1>6 DEF ThreadType
<1>8. nb.thread \in [Threads -> ThreadType]
  BY <1>3, <1>7
<1>9. nb \in BatchType
  BY <1>4, <1>8 DEF BatchType, ThreadType
<1> QED
  BY <1>4, <1>6, <1>7, <1>9 DEF Fits, nb

LEMMA SerialFits ==
    ASSUME main.offset \in Nat, main.source \in Nat \ {0}, Len(Items) \in Nat,
           Kind = "serial"
    PROVE  Fits(SerialBatch, 0, Len(Items), main.offset, 0)
<1> DEFINE n == Len(Items)
           nb == SerialBatch
<1>1. nb.thread = [i \in Threads |-> [from |-> 0, pos |-> 0, end |-> IF i = 0 THEN n ELSE 0,
                                      seq |-> main.offset]]
  BY DEF SerialBatch
<1>2. nb.source = main.source /\ nb.fd = 0 /\ nb.pc = "parse"
      /\ nb = [source |-> main.source, fd |-> 0, pc |-> "parse", thread |-> nb.thread]
  BY DEF SerialBatch
<1>3. n \in Nat
  OBVIOUS
<1> HIDE DEF nb, n
<1>4. \A i \in Threads : /\ nb.thread[i].from = 0 /\ nb.thread[i].pos = 0
                         /\ nb.thread[i].end = IF i = 0 THEN n ELSE 0
                         /\ nb.thread[i].seq = main.offset
                         /\ nb.thread[i] \in ThreadType
  BY <1>1, <1>3 DEF ThreadType
<1>5. nb.thread \in [Threads -> ThreadType]
  BY <1>1, <1>4
<1>6. nb \in BatchType
  BY <1>2, <1>5 DEF BatchType, ThreadType, Descriptors
<1>7. \A i \in Threads :
        /\ nb.thread[i].pos = nb.thread[i].from /\ 0 <= nb.thread[i].from
        /\ nb.thread[i].from <= nb.thread[i].end /\ nb.thread[i].end <= n
        /\ nb.thread[i].seq = main.offset + (nb.thread[i].from - 0)
        /\ i # 0 => nb.thread[i].pos = nb.thread[i].end
  BY <1>3, <1>4
<1> QED
  BY <1>2, <1>6, <1>7 DEF Fits, nb, n
-----------------------------------------------------------------------------
(***************************************************************************)
(* What the steps do to the batches                                         *)
(***************************************************************************)
LEMMA Appended ==
    ASSUME TypeOK, NEW nb \in BatchType, batches' = Append(batches, nb)
    PROVE  /\ batches' \in Seq(BatchType) /\ Last' = Last + 1 /\ Last \in Nat
           /\ \A b \in 1 .. Last : batches'[b] = batches[b]
           /\ batches'[Last + 1] = nb
BY AppendProperties, LenProperties DEF TypeOK, Last

\* Only the pc of one batch changes.
EndsBatch(b, pc) ==
    /\ batches' \in Seq(BatchType) /\ Last' = Last /\ Last \in Nat
    /\ \A c \in 1 .. Last :
        /\ batches'[c].source = batches[c].source /\ batches'[c].fd = batches[c].fd
        /\ batches'[c].thread = batches[c].thread
        /\ batches'[c].pc = IF c = b THEN pc ELSE batches[c].pc

LEMMA Ended ==
    ASSUME TypeOK, NEW b \in 1 .. Last, NEW pc \in {"parse", "closed", "ended"},
           batches' = [batches EXCEPT ![b].pc = pc]
    PROVE  EndsBatch(b, pc)
<1> DEFINE new == [batches[b] EXCEPT !.pc = pc]
<1>1. batches \in Seq(BatchType) /\ b \in 1 .. Len(batches)
  BY DEF TypeOK, Last
<1>2. batches[b] \in BatchType
  BY <1>1, ElementOfSeq
<1>3. new \in BatchType /\ new.source = batches[b].source /\ new.fd = batches[b].fd
      /\ new.thread = batches[b].thread /\ new.pc = pc
  BY <1>2 DEF BatchType
<1>4. batches' = [batches EXCEPT ![b] = new]
  OBVIOUS
<1> HIDE DEF new
<1>5. /\ batches' \in Seq(BatchType) /\ Len(batches') = Len(batches)
      /\ \A c \in 1 .. Len(batches) : batches'[c] = IF c = b THEN new ELSE batches[c]
  BY <1>1, <1>3, <1>4, ExceptSeq
<1> QED
  BY <1>1, <1>3, <1>5, LenProperties DEF EndsBatch, Last

\* Thread i of batch b gets past an item that gives it n numbers.
GetsPast(b, i, n) ==
    /\ batches' \in Seq(BatchType) /\ Last' = Last /\ Last \in Nat
    /\ \A c \in 1 .. Last :
        /\ batches'[c].source = batches[c].source /\ batches'[c].fd = batches[c].fd
        /\ batches'[c].pc = batches[c].pc
        /\ \A j \in Threads :
            /\ batches'[c].thread[j].from = T(c, j).from
            /\ batches'[c].thread[j].end = T(c, j).end
            /\ batches'[c].thread[j].pos = T(c, j).pos + (IF c = b /\ j = i THEN 1 ELSE 0)
            /\ batches'[c].thread[j].seq = T(c, j).seq + (IF c = b /\ j = i THEN n ELSE 0)

Number(b, i) == Made(input[batches[b].source].items, KindOf(b), T(b, i))

LEMMA ParseGetsPast ==
    ASSUME TypeOK, NEW b \in 1 .. Last, NEW i \in Threads, NEW n \in Nat,
           batches' = [batches EXCEPT ![b].thread[i] =
                          [T(b, i) EXCEPT !.pos = @ + 1, !.seq = @ + n]]
    PROVE  GetsPast(b, i, n)
<1> DEFINE t == [T(b, i) EXCEPT !.pos = @ + 1, !.seq = @ + n]
           th == [batches[b].thread EXCEPT ![i] = t]
           new == [batches[b] EXCEPT !.thread = th]
<1>1. batches \in Seq(BatchType) /\ b \in 1 .. Len(batches)
  BY DEF TypeOK, Last
<1>2. \A c \in 1 .. Len(batches) : batches[c] \in BatchType
  BY <1>1, ElementOfSeq
<1>3. \A c \in 1 .. Len(batches) :
        /\ batches[c].thread \in [Threads -> ThreadType]
        /\ \A j \in Threads : T(c, j) \in ThreadType
  BY <1>2 DEF BatchType, ThreadType, T
<1>4. /\ t \in ThreadType /\ t.from = T(b, i).from /\ t.end = T(b, i).end
      /\ t.pos = T(b, i).pos + 1 /\ t.seq = T(b, i).seq + n
  <2>1. T(b, i) \in ThreadType
    BY <1>1, <1>3
  <2>2. \A x \in ThreadType :
          LET y == [x EXCEPT !.pos = @ + 1, !.seq = @ + n]
          IN  /\ y \in ThreadType /\ y.from = x.from /\ y.end = x.end
              /\ y.pos = x.pos + 1 /\ y.seq = x.seq + n
    <3> SUFFICES ASSUME NEW x \in ThreadType
                 PROVE  LET y == [x EXCEPT !.pos = @ + 1, !.seq = @ + n]
                        IN  /\ y \in ThreadType /\ y.from = x.from /\ y.end = x.end
                            /\ y.pos = x.pos + 1 /\ y.seq = x.seq + n
      OBVIOUS
    <3>1. x.pos + 1 \in Nat /\ x.seq + n \in Nat
      BY DEF ThreadType
    <3> QED
      BY <3>1 DEF ThreadType
  <2> QED
    BY <2>1, <2>2
<1>5. batches' = [batches EXCEPT ![b] = new]
  BY DEF T
<1> HIDE DEF t
<1>6. th \in [Threads -> ThreadType] /\ \A j \in Threads : th[j] = IF j = i THEN t ELSE T(b, j)
  BY <1>1, <1>3, <1>4 DEF T
<1> HIDE DEF th
<1>7. new \in BatchType /\ new.source = batches[b].source /\ new.fd = batches[b].fd
      /\ new.pc = batches[b].pc /\ new.thread = th
  BY <1>1, <1>2, <1>6 DEF BatchType, ThreadType
<1> HIDE DEF new
<1>8. /\ batches' \in Seq(BatchType) /\ Len(batches') = Len(batches)
      /\ \A c \in 1 .. Len(batches) : batches'[c] = IF c = b THEN new ELSE batches[c]
  <2>1. batches \in Seq(BatchType) /\ b \in 1 .. Len(batches) /\ new \in BatchType
    BY <1>1, <1>7
  <2>2. /\ [batches EXCEPT ![b] = new] \in Seq(BatchType)
        /\ Len([batches EXCEPT ![b] = new]) = Len(batches)
        /\ \A c \in 1 .. Len(batches) :
              [batches EXCEPT ![b] = new][c] = IF c = b THEN new ELSE batches[c]
    BY <2>1, ExceptSeq
  <2> QED
    BY <1>5, <2>2
<1>9. Len(batches) \in Nat
  BY <1>1, LenProperties
<1>10. \A c \in 1 .. Len(batches) : \A j \in Threads :
        batches'[c].thread[j] = IF c = b /\ j = i THEN t ELSE T(c, j)
  <2> SUFFICES ASSUME NEW c \in 1 .. Len(batches), NEW j \in Threads
               PROVE  batches'[c].thread[j] = IF c = b /\ j = i THEN t ELSE T(c, j)
    OBVIOUS
  <2>1. CASE c = b
    BY <2>1, <1>1, <1>6, <1>7, <1>8
  <2>2. CASE c # b
    BY <2>2, <1>8 DEF T
  <2> QED
    BY <2>1, <2>2
<1>11. \A c \in 1 .. Len(batches) : \A j \in Threads :
        T(c, j).from \in Nat /\ T(c, j).end \in Nat /\ T(c, j).pos \in Nat /\ T(c, j).seq \in Nat
  BY <1>3 DEF ThreadType
<1>12. \A c \in 1 .. Last : \A j \in Threads :
        /\ batches'[c].thread[j].from = T(c, j).from
        /\ batches'[c].thread[j].end = T(c, j).end
        /\ batches'[c].thread[j].pos = T(c, j).pos + (IF c = b /\ j = i THEN 1 ELSE 0)
        /\ batches'[c].thread[j].seq = T(c, j).seq + (IF c = b /\ j = i THEN n ELSE 0)
  <2> SUFFICES ASSUME NEW c \in 1 .. Last, NEW j \in Threads
               PROVE  /\ batches'[c].thread[j].from = T(c, j).from
                      /\ batches'[c].thread[j].end = T(c, j).end
                      /\ batches'[c].thread[j].pos = T(c, j).pos + (IF c = b /\ j = i THEN 1 ELSE 0)
                      /\ batches'[c].thread[j].seq = T(c, j).seq + (IF c = b /\ j = i THEN n ELSE 0)
    OBVIOUS
  <2>1. c \in 1 .. Len(batches)
    BY DEF Last
  <2>2. CASE c = b /\ j = i
    BY <2>1, <2>2, <1>4, <1>10
  <2>3. CASE ~ (c = b /\ j = i)
    BY <2>1, <2>3, <1>10, <1>11
  <2> QED
    BY <2>2, <2>3
<1>13. \A c \in 1 .. Last :
        /\ batches'[c].source = batches[c].source /\ batches'[c].fd = batches[c].fd
        /\ batches'[c].pc = batches[c].pc
  BY <1>7, <1>8 DEF Last
<1> QED
  BY <1>8, <1>9, <1>12, <1>13 DEF GetsPast, Last

\* The types of what there is.
LEMMA Types ==
    ASSUME TypeOK
    PROVE  /\ Last \in Nat
           /\ \A b \in 1 .. Last :
                /\ batches[b] \in BatchType
                /\ batches[b].source \in Nat \ {0}
                /\ batches[b].fd \in Descriptors \cup {0}
                /\ batches[b].pc \in {"parse", "closed", "ended"}
                /\ \A i \in Threads : /\ T(b, i) \in ThreadType
                                      /\ T(b, i).from \in Nat /\ T(b, i).pos \in Nat
                                      /\ T(b, i).end \in Nat /\ T(b, i).seq \in Nat
           /\ \A s \in DOMAIN input :
                /\ s \in Nat \ {0} /\ input[s] \in Source
                /\ input[s].items \in Seq(Nat \cup {Sep}) /\ Len(input[s].items) \in Nat
           /\ \A r \in out : /\ r.source \in Nat \ {0} /\ r.pos \in Nat /\ r.part \in Nat
                             /\ r.seq \in Nat /\ r.reader \in Threads
<1>1. Last \in Nat
  BY LenProperties DEF TypeOK, Last
<1>2. \A b \in 1 .. Last : batches[b] \in BatchType
  BY ElementOfSeq DEF TypeOK, Last
<1>3. \A b \in 1 .. Last :
        /\ batches[b].source \in Nat \ {0}
        /\ batches[b].fd \in Descriptors \cup {0}
        /\ batches[b].pc \in {"parse", "closed", "ended"}
        /\ \A i \in Threads : T(b, i) \in ThreadType
  BY <1>2 DEF BatchType, ThreadType, T
<1>4. \A b \in 1 .. Last : \A i \in Threads :
        /\ T(b, i).from \in Nat /\ T(b, i).pos \in Nat
        /\ T(b, i).end \in Nat /\ T(b, i).seq \in Nat
  BY <1>3 DEF ThreadType
<1>5. \A s \in DOMAIN input : s \in Nat \ {0} /\ input[s] \in Source
  BY LenProperties, ElementOfSeq DEF TypeOK
<1>6. \A s \in DOMAIN input : input[s].items \in Seq(Nat \cup {Sep})
  BY <1>5 DEF Source
<1>7. \A s \in DOMAIN input : Len(input[s].items) \in Nat
  BY <1>6, LenProperties
<1>8. \A r \in out : /\ r.source \in Nat \ {0} /\ r.pos \in Nat /\ r.part \in Nat
                     /\ r.seq \in Nat /\ r.reader \in Threads
  BY DEF TypeOK, OutType
<1> QED
  BY <1>1, <1>2, <1>3, <1>4, <1>5, <1>6, <1>7, <1>8

-----------------------------------------------------------------------------
(***************************************************************************)
(* Nobody touches what is being parsed: the steps of main that begin no batch *)
(***************************************************************************)
\* Main moves, and the batches and features stay as they are.
Moves ==
    /\ UNCHANGED <<input, batches, out>>
    /\ main' \in MainType /\ isParsing' \in BOOLEAN /\ fds' \subseteq Descriptors

LEMMA MovesTyped ==
    ASSUME Safe, Moves
    PROVE  /\ TypeOK' /\ (input \in Inputs)' /\ IsFiniteSet(out)' /\ Last' = Last
           /\ Items = input[main.source].items /\ Kind = input[main.source].kind
BY DEF Safe, Moves, TypeOK, Last, Items, Kind

LEMMA OpenSourceSafe == Safe /\ OpenSource => Safe'
<1> SUFFICES ASSUME Safe, OpenSource
             PROVE  Safe'
  OBVIOUS
<1>1. TypeOK /\ MainThere /\ LastIsCurrent /\ OnlyLast /\ TempsOpen /\ ThreadsInside /\ Frontier
  BY DEF Safe
<1>2. main \in MainType /\ fds \subseteq Descriptors /\ isParsing \in BOOLEAN
  BY <1>1 DEF TypeOK
<1>3. /\ Last \in Nat
      /\ main.pc # "open" => Len(Items) \in Nat
  BY <1>1, Types DEF MainThere, Items
<1>4. Moves
  <2>1. /\ main.source \in Nat \ {0} /\ main.pos \in Nat /\ main.offset \in Nat
        /\ main.ahead \in Nat /\ main.area \in Nat
    BY <1>2 DEF MainType
  <2>2. PICK d \in Descriptors :
          /\ fds' = fds \cup {d}
          /\ main' = [main EXCEPT !.pc = IF Kind = "stream" THEN "temp" ELSE "read",
                                  !.fd = d, !.pos = 0, !.ahead = 0, !.created = FALSE]
    BY DEF OpenSource
  <2>3. main' \in MainType
    BY <1>2, <2>1, <2>2 DEF MainType
  <2> QED
    BY <1>2, <2>2, <2>3 DEF OpenSource, Moves
<1>5. TypeOK' /\ (input \in Inputs)' /\ IsFiniteSet(out)' /\ Last' = Last
  BY <1>4, MovesTyped
<1>6. MainThere'
  BY <1>1, <1>2, <1>3, <1>4 DEF OpenSource, Moves, MainType, MainThere, Kind, Items, Queued
<1>7. LastIsCurrent'
  BY <1>1, <1>2, <1>4, <1>5 DEF OpenSource, Moves, MainType, MainThere, LastIsCurrent
<1>8. OnlyLast'
  BY <1>1, <1>2, <1>4, <1>5 DEF OpenSource, Moves, MainType, MainThere, OnlyLast, Idle, Kind, Queued
<1>9. TempsOpen'
  BY <1>1, <1>2, <1>4, <1>5 DEF OpenSource, Moves, MainType, MainThere, TempsOpen, Kind
<1>10. ThreadsInside'
  BY <1>1, <1>2, <1>4, <1>5 DEF OpenSource, Moves, MainType, ThreadsInside, ThreadOf, Works, T, KindOf
<1>11. Frontier'
  BY <1>1, <1>2, <1>3, <1>4, <1>5, Types
     DEF OpenSource, Moves, MainType, ThreadsInside, Frontier
<1> QED
  BY <1>5, <1>6, <1>7, <1>8, <1>9, <1>10, <1>11 DEF Safe

LEMMA PassOverSafe == Safe /\ PassOver => Safe'
<1> SUFFICES ASSUME Safe, PassOver
             PROVE  Safe'
  OBVIOUS
<1>1. TypeOK /\ MainThere /\ LastIsCurrent /\ OnlyLast /\ TempsOpen /\ ThreadsInside /\ Frontier
  BY DEF Safe
<1>2. main \in MainType /\ fds \subseteq Descriptors /\ isParsing \in BOOLEAN
  BY <1>1 DEF TypeOK
<1>3. /\ Last \in Nat
      /\ main.pc # "open" => Len(Items) \in Nat
  BY <1>1, Types DEF MainThere, Items
<1>4. Moves
  BY <1>1, <1>2, <1>3 DEF PassOver, Moves, MainType, MainThere
<1>5. TypeOK' /\ (input \in Inputs)' /\ IsFiniteSet(out)' /\ Last' = Last
  BY <1>4, MovesTyped
<1>6. MainThere'
  BY <1>1, <1>2, <1>3, <1>4 DEF PassOver, Moves, MainType, MainThere, Kind, Items, Queued
<1>7. LastIsCurrent'
  BY <1>1, <1>2, <1>4, <1>5 DEF PassOver, Moves, MainType, MainThere, LastIsCurrent
<1>8. OnlyLast'
  BY <1>1, <1>2, <1>4, <1>5 DEF PassOver, Moves, MainType, MainThere, OnlyLast, Idle, Kind, Queued
<1>9. TempsOpen'
  BY <1>1, <1>2, <1>4, <1>5 DEF PassOver, Moves, MainType, MainThere, TempsOpen, Kind
<1>10. ThreadsInside'
  BY <1>1, <1>2, <1>4, <1>5 DEF PassOver, Moves, MainType, ThreadsInside, ThreadOf, Works, T, KindOf
<1>11. Frontier'
  BY <1>1, <1>2, <1>3, <1>4, <1>5 DEF PassOver, Moves, MainType, MainThere, Frontier, T, Kind, Items
<1> QED
  BY <1>5, <1>6, <1>7, <1>8, <1>9, <1>10, <1>11 DEF Safe

LEMMA CloseSourceSafe == Safe /\ CloseSource => Safe'
<1> SUFFICES ASSUME Safe, CloseSource
             PROVE  Safe'
  OBVIOUS
<1>1. TypeOK /\ MainThere /\ LastIsCurrent /\ OnlyLast /\ TempsOpen /\ ThreadsInside /\ Frontier
  BY DEF Safe
<1>2. main \in MainType /\ fds \subseteq Descriptors /\ isParsing \in BOOLEAN
  BY <1>1 DEF TypeOK
<1>3. /\ Last \in Nat
      /\ main.pc # "open" => Len(Items) \in Nat
  BY <1>1, Types DEF MainThere, Items
<1>4. Moves
  <2>1. /\ main.source \in Nat \ {0} /\ main.pos \in Nat /\ main.offset \in Nat
        /\ main.ahead \in Nat /\ main.area \in Nat
    BY <1>2 DEF MainType
  <2>2. AreaSum \in Nat
    <3>1. \A S \in SUBSET out : Cardinality(S) \in Nat
      BY FS_Subset, FS_CardinalityType DEF Safe
    <3>2. Here(CPUS - 1) \in SUBSET out /\ UNION {Here(i) : i \in Threads} \in SUBSET out
      BY DEF Here
    <3> QED
      BY <2>1, <3>1, <3>2 DEF AreaSum
  <2>3. main' = [main EXCEPT !.pc = "open", !.source = @ + 1, !.area = AreaSum]
        /\ fds' = fds \ {main.fd}
    BY DEF CloseSource
  <2> HIDE DEF AreaSum
  <2>4. main' \in MainType
    <3>1. main.source + 1 \in Nat \ {0}
      BY <2>1
    <3> QED
      BY <1>2, <2>2, <2>3, <3>1 DEF MainType
  <2> QED
    BY <1>2, <2>3, <2>4 DEF CloseSource, Moves
<1>5. TypeOK' /\ (input \in Inputs)' /\ IsFiniteSet(out)' /\ Last' = Last
  BY <1>4, MovesTyped
<1>6. MainThere'
  BY <1>1, <1>2, <1>3, <1>4 DEF CloseSource, Moves, MainType, MainThere, Kind, Items, Queued
<1>7. LastIsCurrent'
  BY <1>1, <1>2, <1>4, <1>5 DEF CloseSource, Moves, MainType, MainThere, LastIsCurrent
<1>8. OnlyLast'
  BY <1>1, <1>2, <1>4, <1>5 DEF CloseSource, Moves, MainType, MainThere, OnlyLast, Idle, Kind, Queued
<1>9. TempsOpen'
  <2>1. \A b \in 1 .. Last : batches[b].pc = "ended"
    BY <1>1 DEF CloseSource, OnlyLast, Idle
  <2>2. main'.pc = "open" /\ batches' = batches
    BY <1>2 DEF CloseSource, MainType
  <2> QED
    BY <1>5, <2>1, <2>2 DEF TempsOpen
<1>10. ThreadsInside'
  <2>1. main'.source = main.source + 1 /\ main.source \in Nat
    BY <1>2 DEF CloseSource, MainType
  <2>2. \A b \in 1 .. Last : batches[b].source \in Nat
    BY <1>1, Types
  <2> QED
    BY <1>1, <1>4, <1>5, <2>1, <2>2 DEF Moves, ThreadsInside, ThreadOf, Works, T, KindOf
<1>11. Frontier'
  BY <1>1, <1>2, <1>3, <1>4, <1>5 DEF CloseSource, Moves, MainType, MainThere, Frontier, T, Kind, Items
<1> QED
  BY <1>5, <1>6, <1>7, <1>8, <1>9, <1>10, <1>11 DEF Safe

LEMMA QueueSafe == Safe /\ Queue => Safe'
<1> SUFFICES ASSUME Safe, Queue
             PROVE  Safe'
  OBVIOUS
<1>1. TypeOK /\ MainThere /\ LastIsCurrent /\ OnlyLast /\ TempsOpen /\ ThreadsInside /\ Frontier
  BY DEF Safe
<1>2. main \in MainType /\ fds \subseteq Descriptors /\ isParsing \in BOOLEAN
  BY <1>1 DEF TypeOK
<1>3. /\ Last \in Nat
      /\ main.pc # "open" => Len(Items) \in Nat
  BY <1>1, Types DEF MainThere, Items
<1>4. Moves
  <2>1. /\ main.source \in Nat \ {0} /\ main.pos \in Nat /\ main.offset \in Nat
        /\ main.ahead \in Nat /\ main.area \in Nat
    BY <1>2 DEF MainType
  <2>2. main' \in MainType
    <3>1. main.pos + 1 \in Nat /\ main.ahead + 1 \in Nat
      BY <2>1
    <3> QED
      BY <1>2, <3>1 DEF Queue, MainType
  <2> QED
    BY <1>2, <2>2 DEF Queue, Moves
<1>5. TypeOK' /\ (input \in Inputs)' /\ IsFiniteSet(out)' /\ Last' = Last
  BY <1>4, MovesTyped
<1>6. MainThere'
  BY <1>1, <1>2, <1>3, <1>4 DEF Queue, Moves, MainType, MainThere, Kind, Items, Queued
<1>7. LastIsCurrent'
  BY <1>1, <1>2, <1>4, <1>5 DEF Queue, Moves, MainType, MainThere, LastIsCurrent
<1>8. OnlyLast'
  BY <1>1, <1>2, <1>4, <1>5 DEF Queue, Moves, MainType, MainThere, OnlyLast, Idle, Kind, Queued
<1>9. TempsOpen'
  BY <1>1, <1>2, <1>4, <1>5 DEF Queue, Moves, MainType, MainThere, TempsOpen, Kind
<1>10. ThreadsInside'
  BY <1>1, <1>2, <1>4, <1>5 DEF Queue, Moves, MainType, ThreadsInside, ThreadOf, Works, T, KindOf
<1>11. Frontier'
  BY <1>1, <1>2, <1>3, <1>4, <1>5 DEF Queue, Moves, MainType, MainThere, Frontier, T, Kind, Items
<1> QED
  BY <1>5, <1>6, <1>7, <1>8, <1>9, <1>10, <1>11 DEF Safe

LEMMA LastOfQueueSafe == Safe /\ LastOfQueue => Safe'
<1> SUFFICES ASSUME Safe, LastOfQueue
             PROVE  Safe'
  OBVIOUS
<1>1. TypeOK /\ MainThere /\ LastIsCurrent /\ OnlyLast /\ TempsOpen /\ ThreadsInside /\ Frontier
  BY DEF Safe
<1>2. main \in MainType /\ fds \subseteq Descriptors /\ isParsing \in BOOLEAN
  BY <1>1 DEF TypeOK
<1>3. /\ Last \in Nat
      /\ main.pc # "open" => Len(Items) \in Nat
  BY <1>1, Types DEF MainThere, Items
<1>4. Moves
  BY <1>1, <1>2, <1>3 DEF LastOfQueue, Moves, MainType, MainThere
<1>5. TypeOK' /\ (input \in Inputs)' /\ IsFiniteSet(out)' /\ Last' = Last
  BY <1>4, MovesTyped
<1>6. MainThere'
  BY <1>1, <1>2, <1>3, <1>4 DEF LastOfQueue, Moves, MainType, MainThere, Kind, Items, Queued
<1>7. LastIsCurrent'
  BY <1>1, <1>2, <1>4, <1>5 DEF LastOfQueue, Moves, MainType, MainThere, LastIsCurrent
<1>8. OnlyLast'
  BY <1>1, <1>2, <1>4, <1>5 DEF LastOfQueue, Moves, MainType, MainThere, OnlyLast, Idle, Kind, Queued
<1>9. TempsOpen'
  BY <1>1, <1>2, <1>4, <1>5 DEF LastOfQueue, Moves, MainType, MainThere, TempsOpen, Kind
<1>10. ThreadsInside'
  BY <1>1, <1>2, <1>4, <1>5 DEF LastOfQueue, Moves, MainType, ThreadsInside, ThreadOf, Works, T, KindOf
<1>11. Frontier'
  BY <1>1, <1>2, <1>3, <1>4, <1>5 DEF LastOfQueue, Moves, MainType, MainThere, Frontier, T, Kind, Items
<1> QED
  BY <1>5, <1>6, <1>7, <1>8, <1>9, <1>10, <1>11 DEF Safe

LEMMA NewTempSafe == Safe /\ NewTemp => Safe'
<1> SUFFICES ASSUME Safe, NewTemp
             PROVE  Safe'
  OBVIOUS
<1>1. TypeOK /\ MainThere /\ LastIsCurrent /\ OnlyLast /\ TempsOpen /\ ThreadsInside /\ Frontier
  BY DEF Safe
<1>2. main \in MainType /\ fds \subseteq Descriptors /\ isParsing \in BOOLEAN
  BY <1>1 DEF TypeOK
<1>3. /\ Last \in Nat
      /\ main.pc # "open" => Len(Items) \in Nat
  BY <1>1, Types DEF MainThere, Items
<1>4. Moves
  BY <1>1, <1>2, <1>3 DEF NewTemp, Moves, MainType, MainThere
<1>5. TypeOK' /\ (input \in Inputs)' /\ IsFiniteSet(out)' /\ Last' = Last
  BY <1>4, MovesTyped
<1>6. MainThere'
  BY <1>1, <1>2, <1>3, <1>4 DEF NewTemp, Moves, MainType, MainThere, Kind, Items, Queued
<1>7. LastIsCurrent'
  BY <1>1, <1>2, <1>4, <1>5 DEF NewTemp, Moves, MainType, MainThere, LastIsCurrent
<1>8. OnlyLast'
  BY <1>1, <1>2, <1>4, <1>5 DEF NewTemp, Moves, MainType, MainThere, OnlyLast, Idle, Kind, Queued
<1>9. TempsOpen'
  <2>1. PICK d \in Descriptors :
          LowestFree(d) /\ fds' = fds \cup {d} /\ main' = [main EXCEPT !.pc = "read", !.temp = d]
    BY DEF NewTemp
  <2>2. d \notin fds /\ d # 0 /\ main'.temp = d
    BY <1>2, <2>1 DEF LowestFree, Descriptors, MainType
  <2> QED
    BY <1>1, <1>4, <1>5, <2>1, <2>2 DEF Moves, TempsOpen
<1>10. ThreadsInside'
  BY <1>1, <1>2, <1>4, <1>5 DEF NewTemp, Moves, MainType, ThreadsInside, ThreadOf, Works, T, KindOf
<1>11. Frontier'
  BY <1>1, <1>2, <1>3, <1>4, <1>5 DEF NewTemp, Moves, MainType, MainThere, Frontier, T, Kind, Items
<1> QED
  BY <1>5, <1>6, <1>7, <1>8, <1>9, <1>10, <1>11 DEF Safe

LEMMA ReadChunkSafe == Safe /\ ReadChunk => Safe'
<1> SUFFICES ASSUME Safe, ReadChunk
             PROVE  Safe'
  OBVIOUS
<1>1. TypeOK /\ MainThere /\ LastIsCurrent /\ OnlyLast /\ TempsOpen /\ ThreadsInside /\ Frontier
  BY DEF Safe
<1>2. main \in MainType /\ fds \subseteq Descriptors /\ isParsing \in BOOLEAN
  BY <1>1 DEF TypeOK
<1>3. /\ Last \in Nat
      /\ main.pc # "open" => Len(Items) \in Nat
  BY <1>1, Types DEF MainThere, Items
<1>4. Moves
  <2>1. /\ main.source \in Nat \ {0} /\ main.pos \in Nat /\ main.offset \in Nat
        /\ main.ahead \in Nat /\ main.area \in Nat
    BY <1>2 DEF MainType
  <2>2. /\ Lesser(ReadBuf, Len(Items) - main.pos) \in Nat
        /\ main.pos + Lesser(ReadBuf, Len(Items) - main.pos) <= Len(Items)
    BY <1>1, <1>3, <2>1, SizeAssumption DEF ReadChunk, Lesser, MainThere
  <2>3. main' \in MainType
    <3> DEFINE n == Lesser(ReadBuf, Len(Items) - main.pos)
    <3>1. main' = [main EXCEPT !.pos = @ + n, !.ahead = @ + n,
              !.pc = IF Enough(main.pos + n, main.ahead + n) THEN "batch" ELSE "read"]
      BY DEF ReadChunk
    <3>2. main.pos + n \in Nat /\ main.ahead + n \in Nat
      BY <2>1, <2>2
    <3> HIDE DEF n
    <3> QED
      BY <1>2, <3>1, <3>2 DEF MainType
  <2> QED
    BY <1>2, <2>3 DEF ReadChunk, Moves
<1>5. TypeOK' /\ (input \in Inputs)' /\ IsFiniteSet(out)' /\ Last' = Last
  BY <1>4, MovesTyped
<1>6. MainThere'
  <2>1. /\ main.source \in Nat \ {0} /\ main.pos \in Nat /\ main.offset \in Nat
        /\ main.ahead \in Nat /\ main.area \in Nat
    BY <1>2 DEF MainType
  <2>2. /\ Lesser(ReadBuf, Len(Items) - main.pos) \in Nat
        /\ main.pos + Lesser(ReadBuf, Len(Items) - main.pos) <= Len(Items)
    BY <1>1, <1>3, <2>1, SizeAssumption DEF ReadChunk, Lesser, MainThere
  <2> DEFINE n == Lesser(ReadBuf, Len(Items) - main.pos)
  <2>3. /\ main'.pos = main.pos + n /\ main'.ahead = main.ahead + n
        /\ main'.pc \in {"read", "batch"} /\ main'.source = main.source
        /\ main'.created = main.created /\ Kind = "stream" /\ main.pc = "read"
    BY <1>2 DEF ReadChunk, MainType
  <2>4. n \in Nat /\ main.pos + n <= Len(Items)
    BY <2>2
  <2> HIDE DEF n
  <2> QED
    BY <1>1, <1>3, <1>4, <2>1, <2>3, <2>4 DEF Moves, MainThere, Kind, Items, Queued
<1>7. LastIsCurrent'
  BY <1>1, <1>2, <1>4, <1>5 DEF ReadChunk, Moves, MainType, MainThere, LastIsCurrent
<1>8. OnlyLast'
  BY <1>1, <1>2, <1>4, <1>5 DEF ReadChunk, Moves, MainType, MainThere, OnlyLast, Idle, Kind, Queued
<1>9. TempsOpen'
  BY <1>1, <1>2, <1>4, <1>5 DEF ReadChunk, Moves, MainType, MainThere, TempsOpen, Kind
<1>10. ThreadsInside'
  BY <1>1, <1>2, <1>4, <1>5 DEF ReadChunk, Moves, MainType, ThreadsInside, ThreadOf, Works, T, KindOf
<1>11. Frontier'
  <2>1. /\ main.source \in Nat \ {0} /\ main.pos \in Nat /\ main.offset \in Nat
        /\ main.ahead \in Nat /\ main.area \in Nat
    BY <1>2 DEF MainType
  <2>2. /\ Lesser(ReadBuf, Len(Items) - main.pos) \in Nat
        /\ main.pos + Lesser(ReadBuf, Len(Items) - main.pos) <= Len(Items)
    BY <1>1, <1>3, <2>1, SizeAssumption DEF ReadChunk, Lesser, MainThere
  <2> DEFINE n == Lesser(ReadBuf, Len(Items) - main.pos)
  <2>3. /\ main'.pos = main.pos + n /\ main'.ahead = main.ahead + n
        /\ main'.pc \in {"read", "batch"} /\ main'.source = main.source
        /\ main'.created = main.created /\ Kind = "stream" /\ main.pc = "read"
    BY <1>2 DEF ReadChunk, MainType
  <2>4. n \in Nat /\ main.pos + n <= Len(Items)
    BY <2>2
  <2> HIDE DEF n
  <2>5. main'.pos - main'.ahead = main.pos - main.ahead
    BY <2>1, <2>3, <2>4
  <2> QED
    BY <1>1, <1>4, <1>5, <2>3, <2>5 DEF Moves, Frontier, T, Kind
<1> QED
  BY <1>5, <1>6, <1>7, <1>8, <1>9, <1>10, <1>11 DEF Safe

LEMMA EndOfStreamSafe == Safe /\ EndOfStream => Safe'
<1> SUFFICES ASSUME Safe, EndOfStream
             PROVE  Safe'
  OBVIOUS
<1>1. TypeOK /\ MainThere /\ LastIsCurrent /\ OnlyLast /\ TempsOpen /\ ThreadsInside /\ Frontier
  BY DEF Safe
<1>2. main \in MainType /\ fds \subseteq Descriptors /\ isParsing \in BOOLEAN
  BY <1>1 DEF TypeOK
<1>3. /\ Last \in Nat
      /\ main.pc # "open" => Len(Items) \in Nat
  BY <1>1, Types DEF MainThere, Items
<1>4. Moves
  BY <1>1, <1>2, <1>3 DEF EndOfStream, Moves, MainType, MainThere
<1>5. TypeOK' /\ (input \in Inputs)' /\ IsFiniteSet(out)' /\ Last' = Last
  BY <1>4, MovesTyped
<1>6. MainThere'
  BY <1>1, <1>2, <1>3, <1>4 DEF EndOfStream, Moves, MainType, MainThere, Kind, Items, Queued
<1>7. LastIsCurrent'
  BY <1>1, <1>2, <1>4, <1>5 DEF EndOfStream, Moves, MainType, MainThere, LastIsCurrent
<1>8. OnlyLast'
  BY <1>1, <1>2, <1>4, <1>5 DEF EndOfStream, Moves, MainType, MainThere, OnlyLast, Idle, Kind, Queued
<1>9. TempsOpen'
  BY <1>1, <1>2, <1>4, <1>5 DEF EndOfStream, Moves, MainType, MainThere, TempsOpen, Kind
<1>10. ThreadsInside'
  BY <1>1, <1>2, <1>4, <1>5 DEF EndOfStream, Moves, MainType, ThreadsInside, ThreadOf, Works, T, KindOf
<1>11. Frontier'
  BY <1>1, <1>2, <1>3, <1>4, <1>5 DEF EndOfStream, Moves, MainType, MainThere, Frontier, T, Kind, Items
<1> QED
  BY <1>5, <1>6, <1>7, <1>8, <1>9, <1>10, <1>11 DEF Safe

LEMMA NothingLeftSafe == Safe /\ NothingLeft => Safe'
<1> SUFFICES ASSUME Safe, NothingLeft
             PROVE  Safe'
  OBVIOUS
<1>1. TypeOK /\ MainThere /\ LastIsCurrent /\ OnlyLast /\ TempsOpen /\ ThreadsInside /\ Frontier
  BY DEF Safe
<1>2. main \in MainType /\ fds \subseteq Descriptors /\ isParsing \in BOOLEAN
  BY <1>1 DEF TypeOK
<1>3. /\ Last \in Nat
      /\ main.pc # "open" => Len(Items) \in Nat
  BY <1>1, Types DEF MainThere, Items
<1>4. Moves
  BY <1>1, <1>2, <1>3 DEF NothingLeft, Moves, MainType, MainThere
<1>5. TypeOK' /\ (input \in Inputs)' /\ IsFiniteSet(out)' /\ Last' = Last
  BY <1>4, MovesTyped
<1>6. MainThere'
  BY <1>1, <1>2, <1>3, <1>4 DEF NothingLeft, Moves, MainType, MainThere, Kind, Items, Queued
<1>7. LastIsCurrent'
  BY <1>1, <1>2, <1>4, <1>5 DEF NothingLeft, Moves, MainType, MainThere, LastIsCurrent
<1>8. OnlyLast'
  <2>1. \A b \in 1 .. Last : batches[b].pc = "ended"
    BY <1>1, <1>3 DEF NothingLeft, Joined, OnlyLast, Idle, MainThere, LastIsCurrent
  <2> QED
    BY <1>4, <1>5, <2>1 DEF Moves, OnlyLast
<1>9. TempsOpen'
  BY <1>1, <1>2, <1>4, <1>5 DEF NothingLeft, Moves, MainType, MainThere, TempsOpen, Kind
<1>10. ThreadsInside'
  BY <1>1, <1>2, <1>4, <1>5 DEF NothingLeft, Moves, MainType, ThreadsInside, ThreadOf, Works, T, KindOf
<1>11. Frontier'
  BY <1>1, <1>2, <1>3, <1>4, <1>5 DEF NothingLeft, Moves, MainType, MainThere, Frontier, T, Kind, Items
<1> QED
  BY <1>5, <1>6, <1>7, <1>8, <1>9, <1>10, <1>11 DEF Safe

LEMMA JoinLastSafe == Safe /\ JoinLast => Safe'
<1> SUFFICES ASSUME Safe, JoinLast
             PROVE  Safe'
  OBVIOUS
<1>1. TypeOK /\ MainThere /\ LastIsCurrent /\ OnlyLast /\ TempsOpen /\ ThreadsInside /\ Frontier
  BY DEF Safe
<1>2. main \in MainType /\ fds \subseteq Descriptors /\ isParsing \in BOOLEAN
  BY <1>1 DEF TypeOK
<1>3. /\ Last \in Nat
      /\ main.pc # "open" => Len(Items) \in Nat
  BY <1>1, Types DEF MainThere, Items
<1>4. Moves
  BY <1>1, <1>2, <1>3 DEF JoinLast, Moves, MainType, MainThere
<1>5. TypeOK' /\ (input \in Inputs)' /\ IsFiniteSet(out)' /\ Last' = Last
  BY <1>4, MovesTyped
<1>6. MainThere'
  BY <1>1, <1>2, <1>3, <1>4 DEF JoinLast, Moves, MainType, MainThere, Kind, Items, Queued
<1>7. LastIsCurrent'
  BY <1>1, <1>2, <1>4, <1>5 DEF JoinLast, Moves, MainType, MainThere, LastIsCurrent
<1>8. OnlyLast'
  <2>1. \A b \in 1 .. Last : batches[b].pc = "ended"
    BY <1>1, <1>3 DEF JoinLast, Joined, OnlyLast, Idle, MainThere, LastIsCurrent
  <2> QED
    BY <1>4, <1>5, <2>1 DEF Moves, OnlyLast
<1>9. TempsOpen'
  BY <1>1, <1>2, <1>4, <1>5 DEF JoinLast, Moves, MainType, MainThere, TempsOpen, Kind
<1>10. ThreadsInside'
  BY <1>1, <1>2, <1>4, <1>5 DEF JoinLast, Moves, MainType, ThreadsInside, ThreadOf, Works, T, KindOf
<1>11. Frontier'
  BY <1>1, <1>2, <1>3, <1>4, <1>5 DEF JoinLast, Moves, MainType, MainThere, Frontier, T, Kind, Items
<1> QED
  BY <1>5, <1>6, <1>7, <1>8, <1>9, <1>10, <1>11 DEF Safe

-----------------------------------------------------------------------------
(***************************************************************************)
(* Nobody touches what is being parsed: batches begin                       *)
(***************************************************************************)
\* The batch nb of the items from .. to - 1 is begun, when all the others have ended.
Begins(nb, from, to, fd) ==
    /\ main.pc # "open" /\ \A b \in 1 .. Last : batches[b].pc = "ended"
    /\ Fits(nb, from, to, main.offset, fd)
    /\ from = main.pos - main.ahead
    /\ from \in Nat /\ to \in Nat /\ from <= to /\ to <= Len(Items)
    /\ batches' = Append(batches, nb) /\ UNCHANGED <<input, fds, out>>
    /\ main' \in MainType /\ isParsing' \in BOOLEAN
    /\ main'.source = main.source /\ main'.pos = main.pos
    /\ IF Kind = "stream"
       THEN main'.pc \in {"temp", "last"} /\ main'.created /\ fd \in fds
       ELSE main'.pc = "wait" /\ main'.created = main.created /\ fd = 0
    /\ main'.offset = IF Kind \in {"stream", "map"} THEN main.offset + (to - from)
                      ELSE main.offset
    /\ IF Kind \in {"map", "serial"}
       THEN main.pc = "read" /\ main'.ahead = main.ahead
       ELSE to = main.pos /\ main'.ahead = 0

LEMMA ReadMappedBegins ==
    ASSUME Safe, ReadMapped
    PROVE  Begins(TextBatch(0, Len(Items), main.offset, 0), 0, Len(Items), 0)
<1>1. TypeOK /\ MainThere /\ OnlyLast
  BY DEF Safe
<1>2. main \in MainType
  BY <1>1 DEF TypeOK
<1>3. main.source \in Nat \ {0} /\ main.offset \in Nat
  BY <1>2 DEF MainType
<1>4. Len(Items) \in Nat
  BY <1>1, Types DEF MainThere, Items, ReadMapped
<1>5. 0 + Len(Items) = Len(Items) /\ Len(Items) - 0 = Len(Items) /\ 0 \in Descriptors \cup {0}
      /\ main.offset + Len(Items) \in Nat
  BY <1>3, <1>4
<1>6. Fits(TextBatch(0, Len(Items), main.offset, 0), 0, 0 + Len(Items), main.offset, 0)
  BY <1>3, <1>4, <1>5, TextFits DEF ReadMapped
<1>7. \A b \in 1 .. Last : batches[b].pc = "ended"
  BY <1>1 DEF OnlyLast, Idle, ReadMapped
<1>8. main' = [main EXCEPT !.pc = "wait", !.offset = main.offset + Len(Items)]
  BY DEF ReadMapped
<1>9. /\ main' \in MainType /\ main'.source = main.source /\ main'.pos = main.pos
      /\ main'.pc = "wait" /\ main'.created = main.created /\ main'.ahead = main.ahead
      /\ main'.offset = main.offset + (Len(Items) - 0)
  BY <1>2, <1>5, <1>8 DEF MainType
<1>10. 0 = main.pos - main.ahead
  BY <1>1 DEF MainThere, ReadMapped
<1> QED
  BY <1>1, <1>10, <1>4, <1>5, <1>6, <1>7, <1>9 DEF Begins, ReadMapped, TypeOK

LEMMA ReadSeriallyBegins ==
    ASSUME Safe, ReadSerially
    PROVE  Begins(SerialBatch, 0, Len(Items), 0)
<1>1. TypeOK /\ MainThere /\ OnlyLast
  BY DEF Safe
<1>2. main \in MainType
  BY <1>1 DEF TypeOK
<1>3. main.source \in Nat \ {0} /\ main.offset \in Nat
  BY <1>2 DEF MainType
<1>4. Len(Items) \in Nat
  BY <1>1, Types DEF MainThere, Items, ReadSerially
<1>5. Fits(SerialBatch, 0, Len(Items), main.offset, 0)
  BY <1>3, <1>4, SerialFits DEF ReadSerially
<1>6. \A b \in 1 .. Last : batches[b].pc = "ended"
  BY <1>1 DEF OnlyLast, Idle, ReadSerially
<1>7. /\ main' \in MainType /\ main'.source = main.source /\ main'.pos = main.pos
      /\ main'.pc = "wait" /\ main'.created = main.created /\ main'.ahead = main.ahead
      /\ main'.offset = main.offset
  BY <1>2 DEF MainType, ReadSerially
<1>10. 0 = main.pos - main.ahead
  BY <1>1 DEF MainThere, ReadSerially
<1> QED
  BY <1>1, <1>10, <1>4, <1>5, <1>6, <1>7 DEF Begins, ReadSerially, TypeOK

LEMMA RunQueueBegins ==
    ASSUME Safe, RunQueue
    PROVE  Begins(QueueBatch(main.pos - main.ahead, main.ahead, main.offset),
                  main.pos - main.ahead, main.pos, 0)
<1>1. TypeOK /\ MainThere /\ OnlyLast
  BY DEF Safe
<1>2. main \in MainType
  BY <1>1 DEF TypeOK
<1>3. /\ main.source \in Nat \ {0} /\ main.offset \in Nat /\ main.pos \in Nat
      /\ main.ahead \in Nat
  BY <1>2 DEF MainType
<1>4. Kind \in Queued /\ main.ahead <= main.pos /\ main.pos <= Len(Items) /\ Len(Items) \in Nat
  BY <1>1, Types DEF MainThere, Items, RunQueue
<1>5. /\ main.pos - main.ahead \in Nat /\ (main.pos - main.ahead) + main.ahead = main.pos
      /\ main.pos - main.ahead <= main.pos /\ Kind \notin {"serial", "stream", "map"}
  BY <1>3, <1>4 DEF Queued
<1>6. Fits(QueueBatch(main.pos - main.ahead, main.ahead, main.offset),
           main.pos - main.ahead, main.pos, main.offset, 0)
  BY <1>3, <1>5, QueueFits
<1>7. \A b \in 1 .. Last : batches[b].pc = "ended"
  BY <1>1 DEF OnlyLast, Idle, RunQueue
<1>8. /\ main' \in MainType /\ main'.source = main.source /\ main'.pos = main.pos
      /\ main'.pc = "wait" /\ main'.created = main.created /\ main'.ahead = 0
      /\ main'.offset = main.offset
  BY <1>2 DEF MainType, RunQueue
<1> QED
  BY <1>1, <1>3, <1>4, <1>5, <1>6, <1>7, <1>8 DEF Begins, RunQueue, TypeOK

LEMMA StartParsingBegins ==
    ASSUME Safe, NEW next \in {"temp", "last"}, StartParsing(next), Joined,
           main.pc \in {"batch", "drain"}
    PROVE  Begins(TextBatch(main.pos - main.ahead, main.ahead, main.offset, main.temp),
                  main.pos - main.ahead, main.pos, main.temp)
<1>1. TypeOK /\ MainThere /\ LastIsCurrent /\ OnlyLast /\ TempsOpen
  BY DEF Safe
<1>2. main \in MainType /\ fds \subseteq Descriptors
  BY <1>1 DEF TypeOK
<1>3. /\ main.source \in Nat \ {0} /\ main.offset \in Nat /\ main.pos \in Nat
      /\ main.ahead \in Nat /\ main.temp \in Descriptors \cup {0}
  BY <1>2 DEF MainType
<1>4. Kind = "stream" /\ main.ahead <= main.pos /\ main.pos <= Len(Items)
      /\ Len(Items) \in Nat
  BY <1>1, Types DEF MainThere, Items
<1>5. /\ main.pos - main.ahead \in Nat /\ (main.pos - main.ahead) + main.ahead = main.pos
      /\ main.pos - main.ahead <= main.pos /\ main.pos - (main.pos - main.ahead) = main.ahead
      /\ main.offset + main.ahead \in Nat
  BY <1>3, <1>4
<1>6. Fits(TextBatch(main.pos - main.ahead, main.ahead, main.offset, main.temp),
           main.pos - main.ahead, main.pos, main.offset, main.temp)
  <2>1. Fits(TextBatch(main.pos - main.ahead, main.ahead, main.offset, main.temp),
             main.pos - main.ahead, (main.pos - main.ahead) + main.ahead, main.offset, main.temp)
    BY <1>3, <1>4, <1>5, TextFits
  <2> QED
    BY <1>5, <2>1
<1>7. Last \in Nat
  BY <1>1, Types
<1>8. \A b \in 1 .. Last : batches[b].pc = "ended"
  BY <1>1, <1>4, <1>7 DEF OnlyLast, Idle, Joined, LastIsCurrent
<1>9. /\ main' \in MainType /\ main'.source = main.source /\ main'.pos = main.pos
      /\ main'.pc = next /\ main'.created = TRUE /\ main'.ahead = 0
      /\ main'.offset = main.offset + main.ahead
  BY <1>2, <1>5 DEF MainType, StartParsing
<1>10. main.temp \in fds
  BY <1>1, <1>4 DEF TempsOpen
<1> QED
  BY <1>3, <1>4, <1>5, <1>6, <1>8, <1>9, <1>10 DEF Begins, StartParsing

LEMMA BeginsSafe ==
    ASSUME Safe, NEW nb, NEW from, NEW to, NEW fd, Begins(nb, from, to, fd)
    PROVE  Safe'
<1>1. TypeOK /\ MainThere /\ LastIsCurrent /\ OnlyLast /\ TempsOpen /\ ThreadsInside /\ Frontier
      /\ input \in Inputs /\ IsFiniteSet(out)
  BY DEF Safe
<1>2. nb \in BatchType /\ nb.source = main.source /\ nb.fd = fd /\ nb.pc = "parse"
  BY DEF Begins, Fits
<1>3. /\ batches' \in Seq(BatchType) /\ Last' = Last + 1 /\ Last \in Nat
      /\ \A b \in 1 .. Last : batches'[b] = batches[b]
      /\ batches'[Last + 1] = nb
  BY <1>1, <1>2, Appended DEF Begins
<1>4. UNCHANGED <<input, fds, out>> /\ Items' = Items /\ Kind' = Kind
  BY DEF Begins, Items, Kind
<1>5. TypeOK' /\ (input \in Inputs)' /\ IsFiniteSet(out)'
  BY <1>1, <1>3, <1>4 DEF Begins, TypeOK
<1>6. main.pos \in Nat /\ main.ahead \in Nat /\ main'.pos \in Nat /\ main.source \in Nat
  BY <1>1 DEF Begins, TypeOK, MainType
<1>7. MainThere'
  BY <1>1, <1>4, <1>6 DEF Begins, MainThere
<1>8. LastIsCurrent'
  BY <1>2, <1>3, <1>4 DEF Begins, LastIsCurrent
<1>9. ~ Idle'
  BY <1>4 DEF Begins, Idle
<1>10. OnlyLast'
  <2>1. \A b \in 1 .. Last' : b < Last' => b \in 1 .. Last
    BY <1>3
  <2>2. \A b \in 1 .. Last : batches'[b].pc = "ended"
    BY <1>3 DEF Begins
  <2> QED
    BY <1>9, <2>1, <2>2 DEF OnlyLast
<1>11. TempsOpen'
  BY <1>2, <1>3, <1>4 DEF Begins, TempsOpen
<1>12. \A i \in Threads :
        /\ nb.thread[i].from <= nb.thread[i].pos /\ nb.thread[i].pos <= nb.thread[i].end
        /\ nb.thread[i].end <= to
        /\ ~ (Kind = "serial" => i = 0) => nb.thread[i].pos = nb.thread[i].end
        /\ nb.thread[i].end \in Nat /\ nb.thread[i].from \in Nat
  BY <1>2 DEF Begins, Fits, BatchType
<1>13. ThreadsInside'
  <2> PICK k \in Nat : k = Last + 1
    BY <1>3
  <2>1. main'.source = main.source /\ main'.pc # "open"
    BY DEF Begins
  <2>2. \A b \in 1 .. Last :
        /\ (batches[b].source \in DOMAIN input)' /\ (batches[b].source <= main.source)'
        /\ (KindOf(b) # "missing")'
        /\ \A i \in Threads : ThreadOf(b, i)'
    BY <1>1, <1>3, <1>4, <2>1 DEF ThreadsInside, ThreadOf, Works, T, KindOf
  <2>3. /\ nb.source \in DOMAIN input /\ nb.source <= main.source
        /\ input[nb.source].kind # "missing"
    BY <1>1, <1>2, <1>6 DEF MainThere, Begins, Kind
  <2>4. \A i \in Threads : nb.thread[i].end <= Len(input[nb.source].items)
    <3>1. Len(Items) \in Nat /\ to \in Nat /\ to <= Len(Items)
      BY <1>1, Types DEF Begins, MainThere, Items
    <3> QED
      BY <1>2, <1>12, <3>1 DEF Items
  <2>5. batches'[k] = nb
    BY <1>3
  <2>6. \A i \in Threads : ThreadOf(k, i)'
    BY <1>2, <1>4, <1>12, <2>4, <2>5 DEF ThreadOf, Works, T, KindOf, Kind
  <2>7. /\ (batches[k].source \in DOMAIN input)' /\ (batches[k].source <= main.source)'
        /\ (KindOf(k) # "missing")'
    BY <1>4, <2>1, <2>3, <2>5 DEF KindOf
  <2>8. \A b \in 1 .. Last' : b \in 1 .. Last \/ b = k
    BY <1>3
  <2> QED
    BY <2>1, <2>2, <2>6, <2>7, <2>8 DEF ThreadsInside
<1>14. Frontier'
  <2> SUFFICES ASSUME main'.pc # "open", main'.pc = "read" \/ Kind \notin {"map", "serial"}
               PROVE  \A b \in 1 .. Last' : \A i \in Threads :
                        batches'[b].source = main'.source =>
                            batches'[b].thread[i].end <= main'.pos - main'.ahead
    BY <1>4 DEF Frontier, T
  <2>1. Kind \notin {"map", "serial"} /\ main.pc # "open"
    BY DEF Begins
  <2>2. /\ to = main'.pos - main'.ahead /\ main.pos - main.ahead <= to
        /\ main.pos - main.ahead \in Nat /\ to \in Nat
    BY <1>6, <2>1 DEF Begins
  <2>3. \A b \in 1 .. Last : \A i \in Threads :
          batches[b].source = main.source => T(b, i).end <= main.pos - main.ahead
    BY <1>1, <2>1 DEF Frontier
  <2>4. \A b \in 1 .. Last : \A i \in Threads : T(b, i).end \in Nat
    BY <1>1, Types
  <2>5. \A b \in 1 .. Last : \A i \in Threads :
          batches'[b].source = main'.source => batches'[b].thread[i].end <= to
    <3>1. main'.source = main.source
      BY DEF Begins
    <3> SUFFICES ASSUME NEW b \in 1 .. Last, NEW i \in Threads, batches'[b].source = main'.source
                 PROVE  batches'[b].thread[i].end <= to
      OBVIOUS
    <3>2. T(b, i).end <= main.pos - main.ahead /\ T(b, i).end \in Nat
      BY <1>3, <2>3, <2>4, <3>1
    <3>3. T(b, i).end <= to
      BY <2>2, <3>2
    <3> QED
      BY <1>3, <3>3 DEF T
  <2>6. \A b \in 1 .. Last' : b \in 1 .. Last \/ b = Last + 1
    BY <1>3
  <2> QED
    BY <1>3, <1>12, <2>2, <2>5, <2>6
<1> QED
  BY <1>5, <1>7, <1>8, <1>10, <1>11, <1>13, <1>14 DEF Safe

-----------------------------------------------------------------------------
(***************************************************************************)
(* Nobody touches what is being parsed: batches are parsed, and end         *)
(***************************************************************************)
LEMMA EndsInside ==
    ASSUME TypeOK, ThreadsInside, NEW b \in 1 .. Last, NEW pc, EndsBatch(b, pc),
           input' = input, main'.source = main.source, main'.pc = "open" => main.pc = "open"
    PROVE  ThreadsInside'
<1>1. \A c \in 1 .. Last : /\ batches'[c].source = batches[c].source
                           /\ batches'[c].thread = batches[c].thread
  BY DEF EndsBatch
<1>2. \A c \in 1 .. Last :
        /\ (batches[c].source \in DOMAIN input)' /\ (batches[c].source <= main.source)'
        /\ (KindOf(c) # "missing")'
        /\ \A i \in Threads : ThreadOf(c, i)'
  BY <1>1 DEF ThreadsInside, ThreadOf, Works, T, KindOf
<1>3. Last' = Last
  BY DEF EndsBatch
<1> QED
  BY <1>1, <1>2, <1>3 DEF ThreadsInside

LEMMA JoinThreadsSafe == Safe /\ JoinThreads => Safe'
<1> SUFFICES ASSUME Safe, JoinThreads
             PROVE  Safe'
  OBVIOUS
<1>1. TypeOK /\ MainThere /\ LastIsCurrent /\ OnlyLast /\ TempsOpen /\ ThreadsInside /\ Frontier
      /\ input \in Inputs /\ IsFiniteSet(out)
  BY DEF Safe
<1>2. main.pc = "wait" /\ Kind # "stream" /\ Last \in Nat /\ Last \in 1 .. Last
  BY <1>1, Types DEF JoinThreads, LastIsCurrent, MainThere
<1>3. EndsBatch(Last, "ended")
  <2>1. \A b \in 1 .. Last : batches' = [batches EXCEPT ![b].pc = "ended"] =>
                                EndsBatch(b, "ended")
    BY <1>1, Ended
  <2>2. batches' = [batches EXCEPT ![Last].pc = "ended"]
    BY DEF JoinThreads
  <2> QED
    BY <1>2, <2>1, <2>2
<1>4. SeqAfter(Last) \in Nat
  <2>1. CPUS - 1 \in Threads /\ 0 \in Threads
    BY SizeAssumption DEF Threads
  <2> QED
    BY <1>1, <1>2, <2>1, Types DEF SeqAfter, T
<1>5. /\ main' \in MainType /\ main'.source = main.source /\ main'.pos = main.pos
      /\ main'.ahead = main.ahead /\ main'.created = main.created
      /\ main'.pc = IF Kind \in Queued /\ main.pos < Len(Items) THEN "read" ELSE "close"
  <2>1. main' = [main EXCEPT
                   !.pc = IF Kind \in Queued /\ main.pos < Len(Items) THEN "read" ELSE "close",
                   !.offset = IF Kind = "map" THEN @ ELSE SeqAfter(Last)]
    BY DEF JoinThreads
  <2>2. main \in MainType
    BY <1>1 DEF TypeOK
  <2> HIDE DEF SeqAfter
  <2> QED
    BY <1>4, <2>1, <2>2 DEF MainType
<1>6. UNCHANGED <<input, isParsing, fds, out>> /\ Kind' = Kind /\ Items' = Items
  BY <1>5 DEF JoinThreads, Kind, Items
<1>7. Last' = Last /\ batches' \in Seq(BatchType) /\ \A b \in 1 .. Last : batches'[b].pc = "ended"
  BY <1>1, <1>2, <1>3 DEF EndsBatch, OnlyLast
<1>8. TypeOK' /\ (input \in Inputs)' /\ IsFiniteSet(out)'
  BY <1>1, <1>5, <1>6, <1>7 DEF TypeOK
<1>9. MainThere'
  BY <1>1, <1>2, <1>5, <1>6 DEF MainThere
<1>10. LastIsCurrent'
  BY <1>1, <1>2, <1>5 DEF LastIsCurrent, MainThere
<1>11. OnlyLast' /\ TempsOpen'
  BY <1>2, <1>6, <1>7 DEF OnlyLast, TempsOpen
<1>12. ThreadsInside'
  BY <1>1, <1>2, <1>3, <1>5, <1>6, EndsInside
<1>13. Frontier'
  BY <1>1, <1>2, <1>3, <1>5, <1>6 DEF Frontier, EndsBatch, T, Queued
<1> QED
  BY <1>8, <1>9, <1>10, <1>11, <1>12, <1>13 DEF Safe

LEMMA CloseTempSafe == \A b \in 1 .. Last : Safe /\ CloseTemp(b) => Safe'
<1> SUFFICES ASSUME NEW b \in 1 .. Last, Safe, CloseTemp(b)
             PROVE  Safe'
  OBVIOUS
<1>1. TypeOK /\ MainThere /\ LastIsCurrent /\ OnlyLast /\ TempsOpen /\ ThreadsInside /\ Frontier
      /\ input \in Inputs /\ IsFiniteSet(out) /\ Last \in Nat
  BY Types DEF Safe
<1>2. EndsBatch(b, "closed")
  BY <1>1, Ended DEF CloseTemp
<1>3. UNCHANGED <<input, main, isParsing, out>> /\ fds' = fds \ {batches[b].fd}
      /\ Kind' = Kind /\ Items' = Items
  BY DEF CloseTemp, Kind, Items
<1>4. b = Last /\ ~ Idle /\ main.pc # "wait" /\ ~ Idle'
  BY <1>1, <1>3 DEF CloseTemp, OnlyLast, LastIsCurrent, Idle
<1>5. Last' = Last /\ batches' \in Seq(BatchType)
      /\ \A c \in 1 .. Last : batches'[c].source = batches[c].source
                              /\ batches'[c].pc = IF c = b THEN "closed" ELSE batches[c].pc
  BY <1>2 DEF EndsBatch
<1>6. TypeOK' /\ (input \in Inputs)' /\ IsFiniteSet(out)'
  BY <1>1, <1>3, <1>5 DEF TypeOK
<1>7. MainThere'
  BY <1>1, <1>3 DEF MainThere
<1>8. LastIsCurrent'
  BY <1>1, <1>3, <1>4, <1>5 DEF LastIsCurrent
<1>9. OnlyLast'
  BY <1>1, <1>4, <1>5 DEF OnlyLast
<1>10. TempsOpen'
  BY <1>1, <1>3, <1>4, <1>5 DEF OnlyLast, TempsOpen, CloseTemp
<1>11. ThreadsInside'
  BY <1>1, <1>2, <1>3, EndsInside
<1>12. Frontier'
  BY <1>1, <1>2, <1>3 DEF Frontier, EndsBatch, T
<1> QED
  BY <1>6, <1>7, <1>8, <1>9, <1>10, <1>11, <1>12 DEF Safe

LEMMA EndParsingSafe == \A b \in 1 .. Last : Safe /\ EndParsing(b) => Safe'
<1> SUFFICES ASSUME NEW b \in 1 .. Last, Safe, EndParsing(b)
             PROVE  Safe'
  OBVIOUS
<1>1. TypeOK /\ MainThere /\ LastIsCurrent /\ OnlyLast /\ TempsOpen /\ ThreadsInside /\ Frontier
      /\ input \in Inputs /\ IsFiniteSet(out) /\ Last \in Nat
  BY Types DEF Safe
<1>2. EndsBatch(b, "ended")
  BY <1>1, Ended DEF EndParsing
<1>3. UNCHANGED <<input, main, fds, out>> /\ isParsing' = FALSE
      /\ Kind' = Kind /\ Items' = Items
  BY DEF EndParsing, Kind, Items
<1>4. b = Last /\ main.pc # "wait" /\ Idle' = Idle
  BY <1>1, <1>3 DEF EndParsing, OnlyLast, LastIsCurrent, Idle
<1>5. Last' = Last /\ batches' \in Seq(BatchType)
      /\ \A c \in 1 .. Last : batches'[c].source = batches[c].source
                              /\ batches'[c].fd = batches[c].fd
                              /\ batches'[c].pc = IF c = b THEN "ended" ELSE batches[c].pc
  BY <1>2 DEF EndsBatch
<1>6. TypeOK' /\ (input \in Inputs)' /\ IsFiniteSet(out)'
  BY <1>1, <1>3, <1>5 DEF TypeOK
<1>7. MainThere'
  BY <1>1, <1>3 DEF MainThere
<1>8. LastIsCurrent'
  BY <1>1, <1>3, <1>4, <1>5 DEF LastIsCurrent
<1>9. OnlyLast'
  BY <1>1, <1>4, <1>5 DEF OnlyLast
<1>10. TempsOpen'
  BY <1>1, <1>3, <1>5 DEF TempsOpen
<1>11. ThreadsInside'
  BY <1>1, <1>2, <1>3, EndsInside
<1>12. Frontier'
  BY <1>1, <1>2, <1>3 DEF Frontier, EndsBatch, T
<1> QED
  BY <1>6, <1>7, <1>8, <1>9, <1>10, <1>11, <1>12 DEF Safe

\* What a thread makes of its next item, and the features it numbers.
NewFeatures(b, i) ==
    {[source |-> batches[b].source, pos |-> T(b, i).pos, part |-> k,
      seq |-> T(b, i).seq + k, reader |-> i] : k \in 0 .. Number(b, i) - 1}

LEMMA ParseDoes ==
    ASSUME Safe, NEW b \in 1 .. Last, NEW i \in Threads, Parse(b, i)
    PROVE  /\ Number(b, i) \in Nat /\ GetsPast(b, i, Number(b, i))
           /\ batches[b].pc = "parse" /\ T(b, i).pos < T(b, i).end /\ Works(b, i)
           /\ out' = out \cup NewFeatures(b, i)
           /\ UNCHANGED <<input, main, isParsing, fds>>
<1>1. TypeOK /\ ThreadsInside
  BY DEF Safe
<1>2. batches[b].pc = "parse" /\ T(b, i).pos < T(b, i).end
  BY DEF Parse, T
<1>3. T(b, i).pos + 1 \in 1 .. Len(input[batches[b].source].items)
      /\ input[batches[b].source].items \in Seq(Nat \cup {Sep})
  BY <1>1, <1>2, Types DEF ThreadsInside, ThreadOf
<1>4. input[batches[b].source].items[T(b, i).pos + 1] \in Nat \cup {Sep}
  BY <1>3, ElementOfSeq
<1>5. Number(b, i) \in Nat
  BY <1>4 DEF Number, Made
<1>6. batches' = [batches EXCEPT ![b].thread[i] =
                     [T(b, i) EXCEPT !.pos = @ + 1, !.seq = @ + Number(b, i)]]
  BY DEF Parse, T, Number, KindOf
<1>7. GetsPast(b, i, Number(b, i))
  BY <1>1, <1>5, <1>6, ParseGetsPast
<1>8. Works(b, i)
  BY <1>1, <1>2, Types DEF ThreadsInside, ThreadOf
<1>9. out' = out \cup NewFeatures(b, i) /\ UNCHANGED <<input, main, isParsing, fds>>
  BY DEF Parse, T, Number, KindOf, NewFeatures
<1> QED
  BY <1>2, <1>5, <1>7, <1>8, <1>9

LEMMA NewFeaturesTyped ==
    ASSUME TypeOK, NEW b \in 1 .. Last, NEW i \in Threads, Number(b, i) \in Nat
    PROVE  /\ IsFiniteSet(NewFeatures(b, i))
           /\ \A r \in NewFeatures(b, i) :
                /\ r \in OutType
                /\ r.source = batches[b].source /\ r.pos = T(b, i).pos
                /\ r.part \in 0 .. Number(b, i) - 1 /\ r.seq = T(b, i).seq + r.part
<1> DEFINE N == Number(b, i)
           Rec(k) == [source |-> batches[b].source, pos |-> T(b, i).pos, part |-> k,
                      seq |-> T(b, i).seq + k, reader |-> i]
           f == [k \in 0 .. N - 1 |-> Rec(k)]
<1>1. /\ batches[b].source \in Nat \ {0} /\ T(b, i).pos \in Nat /\ T(b, i).seq \in Nat
  BY Types
<1>2. NewFeatures(b, i) = {Rec(k) : k \in 0 .. N - 1}
  BY DEF NewFeatures
<1>3. f \in Surjection(0 .. N - 1, NewFeatures(b, i))
  BY <1>2 DEF Surjection
<1>4. IsFiniteSet(0 .. N - 1)
  BY FS_Interval
<1>5. IsFiniteSet(NewFeatures(b, i))
  BY <1>3, <1>4, FS_Surjection
<1>6. \A k \in 0 .. N - 1 :
        /\ Rec(k) \in OutType
        /\ Rec(k).source = batches[b].source /\ Rec(k).pos = T(b, i).pos
        /\ Rec(k).part = k /\ Rec(k).seq = T(b, i).seq + k
  BY <1>1 DEF OutType
<1> HIDE DEF Rec, N, f
<1>7. \A r \in NewFeatures(b, i) : \E k \in 0 .. N - 1 : r = Rec(k)
  BY <1>2
<1>8. \A r \in NewFeatures(b, i) :
        /\ r \in OutType
        /\ r.source = batches[b].source /\ r.pos = T(b, i).pos
        /\ r.part \in 0 .. N - 1 /\ r.seq = T(b, i).seq + r.part
  BY <1>6, <1>7
<1> QED
  BY <1>5, <1>8 DEF N

LEMMA ParseSafe == \A b \in 1 .. Last : \A i \in Threads : Safe /\ Parse(b, i) => Safe'
<1> SUFFICES ASSUME NEW b \in 1 .. Last, NEW i \in Threads, Safe, Parse(b, i)
             PROVE  Safe'
  OBVIOUS
<1>1. TypeOK /\ MainThere /\ LastIsCurrent /\ OnlyLast /\ TempsOpen /\ ThreadsInside /\ Frontier
      /\ input \in Inputs /\ IsFiniteSet(out) /\ Last \in Nat
  BY Types DEF Safe
<1>2. /\ Number(b, i) \in Nat /\ GetsPast(b, i, Number(b, i))
      /\ T(b, i).pos < T(b, i).end /\ Works(b, i)
      /\ out' = out \cup NewFeatures(b, i)
      /\ UNCHANGED <<input, main, isParsing, fds>>
  BY ParseDoes
<1>3. TypeOK' /\ (input \in Inputs)' /\ IsFiniteSet(out)'
  <2>1. IsFiniteSet(NewFeatures(b, i)) /\ NewFeatures(b, i) \subseteq OutType
    BY <1>1, <1>2, NewFeaturesTyped
  <2>2. IsFiniteSet(out \cup NewFeatures(b, i))
    BY <1>1, <2>1, FS_Union
  <2> QED
    BY <1>1, <1>2, <2>1, <2>2 DEF TypeOK, GetsPast
<1>4. Kind' = Kind /\ Items' = Items /\ Idle' = Idle /\ Last' = Last
  BY <1>2 DEF Kind, Items, Idle, GetsPast
<1>5. \A c \in 1 .. Last :
        /\ batches'[c].source = batches[c].source /\ batches'[c].fd = batches[c].fd
        /\ batches'[c].pc = batches[c].pc
  BY <1>2 DEF GetsPast
<1>6. MainThere' /\ LastIsCurrent' /\ OnlyLast' /\ TempsOpen'
  <2>1. MainThere'
    BY <1>1, <1>2, <1>4 DEF MainThere
  <2>2. LastIsCurrent'
    BY <1>1, <1>2, <1>4, <1>5 DEF LastIsCurrent
  <2>3. OnlyLast' /\ TempsOpen'
    BY <1>1, <1>2, <1>4, <1>5 DEF OnlyLast, TempsOpen
  <2> QED
    BY <2>1, <2>2, <2>3
<1>7. \A c \in 1 .. Last : \A j \in Threads :
        /\ batches'[c].thread[j].from = T(c, j).from
        /\ batches'[c].thread[j].end = T(c, j).end
        /\ batches'[c].thread[j].pos = IF c = b /\ j = i THEN T(c, j).pos + 1 ELSE T(c, j).pos
        /\ T(c, j).from \in Nat /\ T(c, j).end \in Nat /\ T(c, j).pos \in Nat
  BY <1>1, <1>2, Types DEF GetsPast
<1>8. ThreadsInside'
  <2>1. \A c \in 1 .. Last : \A j \in Threads : ThreadOf(c, j)
    BY <1>1 DEF ThreadsInside
  <2>2. \A c \in 1 .. Last : \A j \in Threads : ThreadOf(c, j)'
    <3> SUFFICES ASSUME NEW c \in 1 .. Last, NEW j \in Threads
                 PROVE  ThreadOf(c, j)'
      OBVIOUS
    <3>1. ThreadOf(c, j) /\ Works(c, j)' = Works(c, j)
      BY <1>2, <1>5, <2>1 DEF Works, KindOf
    <3>2. /\ T(c, j)'.from = T(c, j).from /\ T(c, j)'.end = T(c, j).end
          /\ T(c, j)'.pos = IF c = b /\ j = i THEN T(c, j).pos + 1 ELSE T(c, j).pos
      BY <1>7 DEF T
    <3> QED
      BY <1>2, <1>5, <1>7, <3>1, <3>2 DEF ThreadOf
  <2> QED
    BY <1>1, <1>2, <1>4, <1>5, <2>2 DEF ThreadsInside, KindOf
<1>9. Frontier'
  BY <1>1, <1>2, <1>4, <1>5, <1>7 DEF Frontier, T
<1> QED
  BY <1>3, <1>6, <1>8, <1>9 DEF Safe

-----------------------------------------------------------------------------
LEMMA InitSafe == Init => Safe
<1> SUFFICES ASSUME Init
             PROVE  Safe
  OBVIOUS
<1>1. batches = <<>> /\ out = {} /\ fds = {} /\ isParsing = FALSE /\ input \in Inputs
      /\ main.pc = "open" /\ main \in MainType
  BY DEF Init, MainType
<1>2. Last = 0 /\ batches \in Seq(BatchType)
  BY <1>1 DEF Last
<1>3. TypeOK /\ IsFiniteSet(out)
  BY <1>1, <1>2, FS_EmptySet, InputAssumption DEF TypeOK
<1> QED
  BY <1>1, <1>2, <1>3
     DEF Safe, MainThere, LastIsCurrent, OnlyLast, TempsOpen, ThreadsInside, Frontier

LEMMA StepSafe == Safe /\ [Next]_vars => Safe'
<1> SUFFICES ASSUME Safe, [Next]_vars
             PROVE  Safe'
  OBVIOUS
<1>1. CASE OpenSource \/ PassOver \/ CloseSource
  BY <1>1, OpenSourceSafe, PassOverSafe, CloseSourceSafe
<1>2. CASE ReadMapped \/ ReadSerially \/ RunQueue
  BY <1>2, ReadMappedBegins, ReadSeriallyBegins, RunQueueBegins, BeginsSafe
<1>3. CASE Queue \/ LastOfQueue \/ JoinThreads
  BY <1>3, QueueSafe, LastOfQueueSafe, JoinThreadsSafe
<1>4. CASE NewTemp \/ ReadChunk \/ EndOfStream
  BY <1>4, NewTempSafe, ReadChunkSafe, EndOfStreamSafe
<1>5. CASE StartBatch
  BY <1>5, StartParsingBegins, BeginsSafe DEF StartBatch
<1>6. CASE StartLast
  BY <1>6, StartParsingBegins, BeginsSafe DEF StartLast
<1>7. CASE NothingLeft \/ JoinLast
  BY <1>7, NothingLeftSafe, JoinLastSafe
<1>8. CASE \E b \in 1 .. Last : CloseTemp(b) \/ EndParsing(b) \/ \E i \in Threads : Parse(b, i)
  BY <1>8, CloseTempSafe, EndParsingSafe, ParseSafe
<1>9. CASE UNCHANGED vars
  BY <1>9 DEF vars, Safe, TypeOK, MainThere, LastIsCurrent, OnlyLast, TempsOpen, ThreadsInside,
              ThreadOf, Works, T, KindOf, Frontier, Idle, Kind, Items, Last
<1>10. Over => UNCHANGED vars
  BY DEF Over
<1> QED
  BY <1>1, <1>2, <1>3, <1>4, <1>5, <1>6, <1>7, <1>8, <1>9, <1>10 DEF Next, MainStep

\* main.cpp, read_input(): there are never two batches that parse, so that the readers
\* need no locks; and a stream is copied on into a temporary file that is open and is
\* not the one that is parsed.
THEOREM KeepsApart == Spec => []BatchesApart
<1>1. Safe => BatchesApart
  <2> SUFFICES ASSUME Safe
               PROVE  BatchesApart
    OBVIOUS
  <2>1. Last \in Nat
    BY Types DEF Safe
  <2>2. OneBatch
    BY <2>1 DEF Safe, OnlyLast, OneBatch
  <2> QED
    BY <2>2 DEF Safe, BatchesApart, TempsOpen, TempNotShared
<1> QED
  BY <1>1, InitSafe, StepSafe, PTL DEF Spec

-----------------------------------------------------------------------------
(***************************************************************************)
(* The sequences are in the order of the input                              *)
(***************************************************************************)
\* geobuf.cpp, queueFeature(): a geometry collection is serialized once for each of
\* its members.  A queue without collections gives each of its items one number.
SerializedOnce ==
    \A sources \in Inputs : \A s \in DOMAIN sources :
        sources[s].kind \in Queued => sources[s].items \in Seq({Sep, 0, 1})

Order   == ThreadsInOrder /\ BelowOffset /\ Placed /\ BoundedAfter /\ InputOrder
Ordered == Safe /\ Order /\ SerializedOnce

\* If the threads have what they had, and main neither waits nor counts, nothing has
\* happened to the sequences.
SameThreads ==
    /\ UNCHANGED <<input, out>> /\ Last' = Last
    /\ \A b \in 1 .. Last : /\ batches'[b].source = batches[b].source
                            /\ batches'[b].thread = batches[b].thread

LEMMA SameOrder ==
    ASSUME Order, SameThreads
    PROVE  ThreadsInOrder' /\ Placed' /\ BoundedAfter' /\ InputOrder'
<1>1. \A b \in 1 .. Last : /\ batches'[b].source = batches[b].source
                           /\ batches'[b].thread = batches[b].thread
  BY DEF SameThreads
<1>2. UNCHANGED <<input, out>> /\ Last' = Last
  BY DEF SameThreads
<1>3. \A b \in 1 .. Last : \A i \in Threads :
        Works(b, i)' = Works(b, i) /\ Bound(b, i)' = Bound(b, i) /\ T(b, i)' = T(b, i)
  BY <1>1, <1>2 DEF Works, Bound, T, KindOf
<1>4. ThreadsInOrder'
  BY <1>1, <1>2, <1>3 DEF Order, ThreadsInOrder, Before
<1>5. Placed'
  BY <1>1, <1>2, <1>3 DEF Order, Placed, From
<1>6. BoundedAfter'
  BY <1>1, <1>2, <1>3 DEF Order, BoundedAfter, Follows
<1>7. InputOrder'
  BY <1>2 DEF Order, InputOrder, Earlier
<1> QED
  BY <1>4, <1>5, <1>6, <1>7

LEMMA SameOffset ==
    ASSUME Order, SameThreads, main'.offset = main.offset,
           \A b \in 1 .. Last : TakesOver(b)' = TakesOver(b)
    PROVE  BelowOffset'
<1>1. \A b \in 1 .. Last : \A i \in Threads :
        Works(b, i)' = Works(b, i) /\ Bound(b, i)' = Bound(b, i) /\ T(b, i)' = T(b, i)
  BY DEF SameThreads, Works, Bound, T, KindOf
<1> QED
  BY <1>1 DEF Order, SameThreads, BelowOffset

LEMMA MovesOrdered ==
    ASSUME Order, UNCHANGED <<input, batches, out>>, main'.offset = main.offset,
           main.pc # "wait", main'.pc # "wait"
    PROVE  Order'
<1>1. SameThreads
  BY DEF SameThreads, Last
<1>2. \A b \in 1 .. Last : TakesOver(b)' = TakesOver(b)
  BY DEF TakesOver
<1> QED
  BY <1>1, <1>2, SameOrder, SameOffset DEF Order

LEMMA MainMovesOrdered ==
    ASSUME Safe, Order,
           \/ OpenSource \/ PassOver \/ CloseSource \/ Queue \/ LastOfQueue
           \/ NewTemp \/ ReadChunk \/ EndOfStream \/ NothingLeft \/ JoinLast
    PROVE  Order'
<1>1. main \in MainType
  BY DEF Safe, TypeOK
<1>2. CASE OpenSource \/ PassOver
  <2>1. main'.offset = main.offset /\ main.pc # "wait" /\ main'.pc # "wait"
        /\ UNCHANGED <<input, batches, out>>
    BY <1>1, <1>2 DEF OpenSource, PassOver, MainType
  <2> QED
    BY <2>1, MovesOrdered
<1>3. CASE CloseSource
  <2>1. main'.offset = main.offset /\ main.pc # "wait" /\ main'.pc # "wait"
        /\ UNCHANGED <<input, batches, out>>
    BY <1>1, <1>3 DEF CloseSource, MainType
  <2> QED
    BY <2>1, MovesOrdered
<1>4. CASE Queue \/ LastOfQueue
  <2>1. main'.offset = main.offset /\ main.pc # "wait" /\ main'.pc # "wait"
        /\ UNCHANGED <<input, batches, out>>
    BY <1>1, <1>4 DEF Queue, LastOfQueue, MainType
  <2> QED
    BY <2>1, MovesOrdered
<1>5. CASE NewTemp \/ ReadChunk \/ EndOfStream
  <2>1. main'.offset = main.offset /\ main.pc # "wait" /\ main'.pc # "wait"
        /\ UNCHANGED <<input, batches, out>>
    BY <1>1, <1>5 DEF NewTemp, ReadChunk, EndOfStream, MainType
  <2> QED
    BY <2>1, MovesOrdered
<1>6. CASE NothingLeft \/ JoinLast
  <2>1. main'.offset = main.offset /\ main.pc # "wait" /\ main'.pc # "wait"
        /\ UNCHANGED <<input, batches, out>>
    BY <1>1, <1>6 DEF NothingLeft, JoinLast, MainType
  <2> QED
    BY <2>1, MovesOrdered
<1> QED
  BY <1>2, <1>3, <1>4, <1>5, <1>6

LEMMA EndsOrdered ==
    ASSUME Safe, Order, NEW b \in 1 .. Last, CloseTemp(b) \/ EndParsing(b)
    PROVE  Order'
<1>1. UNCHANGED <<input, main, out>> /\ Kind' = Kind
  BY DEF CloseTemp, EndParsing, Kind
<1>2. \E pc \in {"closed", "ended"} : EndsBatch(b, pc)
  BY Ended DEF Safe, CloseTemp, EndParsing
<1>3. SameThreads
  BY <1>1, <1>2 DEF SameThreads, EndsBatch
<1>4. \A c \in 1 .. Last : TakesOver(c)' = TakesOver(c)
  BY <1>1, <1>3 DEF TakesOver, SameThreads
<1> QED
  BY <1>1, <1>3, <1>4, SameOrder, SameOffset DEF Order

LEMMA JoinThreadsOrdered ==
    ASSUME Safe, Order, JoinThreads
    PROVE  Order'
<1>1. TypeOK /\ MainThere /\ LastIsCurrent /\ ThreadsInside
  BY DEF Safe
<1>2. main.pc = "wait" /\ Last \in Nat /\ Last > 0 /\ batches[Last].source = main.source
      /\ main.source \in DOMAIN input /\ Kind \notin {"stream", "missing"}
  BY <1>1, Types DEF JoinThreads, LastIsCurrent, MainThere
<1>3. EndsBatch(Last, "ended")
  <2>1. \A b \in 1 .. Last : batches' = [batches EXCEPT ![b].pc = "ended"] =>
                                EndsBatch(b, "ended")
    BY <1>1, Ended
  <2>2. batches' = [batches EXCEPT ![Last].pc = "ended"]
    BY DEF JoinThreads
  <2>3. Last \in 1 .. Last
    BY <1>2
  <2> QED
    BY <2>1, <2>2, <2>3
<1>4. SameThreads
  BY <1>3 DEF SameThreads, EndsBatch, JoinThreads
<1> DEFINE k == IF Kind \in Queued THEN CPUS - 1 ELSE 0
<1>5. main'.pc # "wait" /\ main'.offset = IF Kind = "map" THEN main.offset ELSE T(Last, k).seq
  BY <1>1 DEF JoinThreads, TypeOK, MainType, SeqAfter, T
<1>6. k \in Threads /\ CPUS \in Nat \ {0}
  BY SizeAssumption DEF Threads
<1>7. Kind \in {"map", "serial"} \cup Queued
  BY <1>1, <1>2, Types DEF Kind, Source, Queued
<1>8. KindOf(Last) = Kind
  BY <1>2 DEF KindOf, Kind
<1>9. \A b \in 1 .. Last : \A i \in Threads :
        Works(b, i) => Bound(b, i) <= main'.offset
  <2> SUFFICES ASSUME NEW b \in 1 .. Last, NEW i \in Threads, Works(b, i)
               PROVE  Bound(b, i) <= main'.offset
    OBVIOUS
  <2>1. CASE Kind = "map"
    BY <2>1, <1>5 DEF Order, BelowOffset, TakesOver
  <2>2. CASE Kind # "map"
    <3>1. Works(Last, k) /\ main.offset <= T(Last, k).seq
      <4>1. Works(Last, k)
        BY <2>2, <1>7, <1>8 DEF Works, Queued
      <4>2. TakesOver(Last)
        BY <2>2, <1>2 DEF TakesOver
      <4> QED
        BY <4>1, <4>2, <1>2, <1>6 DEF Order, BelowOffset
    <3>2. CASE b < Last
      <4>1. Bound(b, i) <= T(Last, k).seq
        BY <3>1, <3>2, <1>2, <1>6 DEF Order, ThreadsInOrder, Before
      <4> QED
        BY <4>1, <2>2, <1>5
    <3>3. CASE b = Last
      <4>1. T(b, i).pos = T(b, i).end /\ T(b, i).seq \in Nat /\ T(b, i).pos \in Nat
        BY <3>3, <1>1, Types DEF JoinThreads, AllParsed, T
      <4>2. Bound(b, i) = T(b, i).seq
        BY <4>1 DEF Bound
      <4>3. CASE i = k
        BY <4>2, <4>3, <4>1, <3>3, <2>2, <1>5
      <4>4. CASE i # k
        <5>1. Kind \in Queued /\ i < k
          BY <4>4, <3>3, <2>2, <1>6, <1>7, <1>8 DEF Works, Threads, Queued
        <5>2. Bound(b, i) <= T(Last, k).seq
          BY <5>1, <3>1, <3>3, <1>2, <1>6 DEF Order, ThreadsInOrder, Before
        <5> QED
          BY <5>2, <2>2, <1>5
      <4> QED
        BY <4>3, <4>4
    <3> QED
      BY <3>2, <3>3, <1>2
  <2> QED
    BY <2>1, <2>2
<1>10. BelowOffset'
  <2>1. \A b \in 1 .. Last : \A i \in Threads :
          Works(b, i)' = Works(b, i) /\ Bound(b, i)' = Bound(b, i)
    BY <1>4 DEF SameThreads, Works, Bound, T, KindOf
  <2>2. Last' = Last
    BY <1>4 DEF SameThreads
  <2> HIDE DEF k
  <2> QED
    BY <1>5, <1>9, <2>1, <2>2 DEF BelowOffset, TakesOver
<1> QED
  BY <1>4, <1>10, SameOrder DEF Order

LEMMA BeginsOrdered ==
    ASSUME Safe, Order, NEW nb, NEW from, NEW to, NEW fd, Begins(nb, from, to, fd)
    PROVE  Order'
<1>1. TypeOK /\ MainThere /\ LastIsCurrent /\ ThreadsInside /\ Frontier
  BY DEF Safe
<1>2. nb \in BatchType /\ nb.source = main.source
  BY DEF Begins, Fits
<1>3. /\ Last' = Last + 1 /\ Last \in Nat
      /\ \A b \in 1 .. Last : batches'[b] = batches[b]
      /\ batches'[Last + 1] = nb
  BY <1>1, <1>2, Appended DEF Begins
<1> PICK k \in Nat : k = Last + 1
  BY <1>3
<1>4. /\ UNCHANGED <<input, out>> /\ Kind' = Kind
      /\ \A b \in 1 .. Last' : b \in 1 .. Last \/ b = k
      /\ \A b \in 1 .. Last : b < k /\ b # k /\ b # Last'
  BY <1>3 DEF Begins, Kind
<1>5. \A b \in 1 .. Last : \A i \in Threads :
        /\ batches'[b].source = batches[b].source /\ T(b, i)' = T(b, i)
        /\ Works(b, i)' = Works(b, i) /\ Bound(b, i)' = Bound(b, i)
  BY <1>3, <1>4 DEF T, Works, Bound, KindOf
<1>6. batches'[k] = nb /\ KindOf(k)' = Kind
      /\ \A i \in Threads : T(k, i)' = nb.thread[i]
  BY <1>2, <1>3, <1>4 DEF KindOf, Kind, T
<1>7. from \in Nat /\ to \in Nat /\ main.offset \in Nat
  BY <1>1 DEF Begins, TypeOK, MainType
<1>8. \A i \in Threads :
        /\ T(k, i)'.from \in Nat /\ T(k, i)'.end \in Nat
        /\ T(k, i)'.pos = T(k, i)'.from
        /\ from <= T(k, i)'.from /\ T(k, i)'.from <= T(k, i)'.end /\ T(k, i)'.end <= to
        /\ T(k, i)'.seq = main.offset + (T(k, i)'.from - from)
  BY <1>2, <1>6 DEF Begins, Fits, BatchType
<1>9. \A i \in Threads :
        /\ main.offset <= T(k, i)'.seq
        /\ Kind # "serial" => /\ Bound(k, i)' = main.offset + (T(k, i)'.end - from)
                              /\ Bound(k, i)' <= main.offset + (to - from)
  BY <1>6, <1>7, <1>8 DEF Bound
<1>10. \A b \in 1 .. Last : \A i \in Threads : Works(b, i) => Bound(b, i) <= main.offset
  <2>1. \A b \in 1 .. Last : ~ TakesOver(b)
    BY <1>1 DEF Begins, LastIsCurrent, TakesOver
  <2> QED
    BY <2>1 DEF Order, BelowOffset
<1>11. \A b \in 1 .. Last : \A i \in Threads :
        /\ batches[b].source <= main.source
        /\ batches[b].source = main.source => T(b, i).end <= from
  BY <1>1 DEF Begins, ThreadsInside, Frontier
<1>12. ThreadsInOrder'
  <2> SUFFICES ASSUME NEW b \in 1 .. Last', NEW c \in 1 .. Last', NEW i \in Threads,
                      NEW j \in Threads, Works(b, i)', Works(c, j)', Before(b, i, c, j)
               PROVE  /\ batches'[b].source <= batches'[c].source
                      /\ batches'[b].source = batches'[c].source => T(b, i)'.end <= T(c, j)'.from
                      /\ Bound(b, i)' <= T(c, j)'.seq
    BY DEF ThreadsInOrder, Before
  <2>1. CASE c \in 1 .. Last
    <3>1. b \in 1 .. Last
      BY <2>1, <1>3 DEF Before
    <3> QED
      BY <2>1, <3>1, <1>5 DEF Order, ThreadsInOrder
  <2>2. CASE c = k /\ b \in 1 .. Last
    <3>1. /\ Works(b, i) /\ Bound(b, i)' = Bound(b, i) /\ T(b, i)' = T(b, i)
          /\ batches'[b].source = batches[b].source
      BY <2>2, <1>5
    <3>2. T(b, i).end \in Nat /\ Bound(b, i) \in Int
      BY <1>1, <2>2, Types DEF Bound
    <3>3. Bound(b, i)' <= T(c, j)'.seq
      <4>1. Bound(b, i) <= main.offset /\ main.offset <= T(k, j)'.seq /\ T(k, j)'.seq \in Int
        BY <2>2, <3>1, <1>7, <1>8, <1>9, <1>10
      <4> QED
        BY <4>1, <3>1, <3>2, <2>2, <1>7
    <3>4. batches'[b].source = batches'[c].source => T(b, i)'.end <= T(c, j)'.from
      <4> SUFFICES ASSUME batches'[b].source = batches'[c].source
                   PROVE  T(b, i).end <= T(k, j)'.from
        BY <2>2, <3>1
      <4>1. T(b, i).end <= from
        BY <2>2, <3>1, <1>2, <1>6, <1>11
      <4>2. from <= T(k, j)'.from /\ T(k, j)'.from \in Nat
        BY <1>8
      <4> QED
        BY <4>1, <4>2, <3>2, <1>7
    <3> QED
      BY <2>2, <3>1, <3>3, <3>4, <1>2, <1>6, <1>11
  <2>3. CASE c = k /\ b = k
    <3>1. Kind # "serial" /\ i < j
      BY <2>3, <1>6, SizeAssumption DEF Works, Before, Threads
    <3>2. nb.thread[i].end <= nb.thread[j].from
      BY <3>1 DEF Begins, Fits
    <3>3. T(k, i)'.end <= T(k, j)'.from
      BY <3>2, <1>6
    <3>4. Bound(k, i)' <= T(k, j)'.seq
      BY <3>1, <3>3, <1>7, <1>8, <1>9
    <3> QED
      BY <2>3, <3>3, <3>4, <1>1, <1>2, <1>6 DEF TypeOK, MainType
  <2> QED
    BY <2>1, <2>2, <2>3, <1>4
<1>13. BelowOffset'
  <2>1. \A b \in 1 .. Last : ~ TakesOver(b)'
    BY <1>4 DEF TakesOver
  <2>2. main'.offset \in Nat /\ main.offset <= main'.offset
    BY <1>7 DEF Begins
  <2>3. \A b \in 1 .. Last : \A i \in Threads :
          Works(b, i)' => Bound(b, i)' <= main'.offset
    <3> SUFFICES ASSUME NEW b \in 1 .. Last, NEW i \in Threads, Works(b, i)
                 PROVE  Bound(b, i) <= main'.offset
      BY <1>5
    <3>1. Bound(b, i) \in Int
      BY <1>1, Types DEF Bound
    <3> QED
      BY <3>1, <1>7, <1>10, <2>2
  <2>4. \A i \in Threads : IF TakesOver(k)' THEN main'.offset <= T(k, i)'.seq
                           ELSE Bound(k, i)' <= main'.offset
    <3> SUFFICES ASSUME NEW i \in Threads
                 PROVE  IF TakesOver(k)' THEN main'.offset <= T(k, i)'.seq
                        ELSE Bound(k, i)' <= main'.offset
      OBVIOUS
    <3>1. CASE Kind \in {"stream", "map"}
      <4>1. ~ TakesOver(k)' /\ main'.offset = main.offset + (to - from)
        BY <3>1, <1>4 DEF TakesOver, Begins
      <4> QED
        BY <3>1, <4>1, <1>9
    <3>2. CASE Kind \notin {"stream", "map"}
      <4>1. TakesOver(k)' /\ main'.offset = main.offset
        BY <3>2, <1>3, <1>4 DEF TakesOver, Begins
      <4> QED
        BY <4>1, <1>9
    <3> QED
      BY <3>1, <3>2
  <2>5. \A b \in 1 .. Last' : \A i \in Threads :
          Works(b, i)' => IF TakesOver(b)' THEN main'.offset <= T(b, i)'.seq
                          ELSE Bound(b, i)' <= main'.offset
    BY <2>1, <2>3, <2>4, <1>4
  <2> QED
    BY <2>5 DEF BelowOffset
<1>14. Placed'
  <2> SUFFICES ASSUME NEW r \in out
               PROVE  \E b \in 1 .. Last' : \E i \in Threads : From(r, b, i)'
    BY <1>4 DEF Placed
  <2>1. PICK b \in 1 .. Last : \E i \in Threads : From(r, b, i)
    BY DEF Order, Placed
  <2>2. PICK i \in Threads : From(r, b, i)
    BY <2>1
  <2>3. From(r, b, i)' /\ b \in 1 .. Last'
    BY <2>2, <1>3, <1>5 DEF From
  <2> QED
    BY <2>3
<1>15. BoundedAfter'
  <2> SUFFICES ASSUME NEW r \in out, NEW b \in 1 .. Last', NEW i \in Threads,
                      Works(b, i)', Follows(r, b, i)'
               PROVE  Bound(b, i)' <= r.seq
    BY <1>4 DEF BoundedAfter
  <2>1. CASE b \in 1 .. Last
    <3>1. Works(b, i) /\ Follows(r, b, i) /\ Bound(b, i)' = Bound(b, i)
      BY <2>1, <1>5 DEF Follows
    <3> QED
      BY <2>1, <3>1 DEF Order, BoundedAfter
  <2>2. CASE b = k
    <3>1. PICK c \in 1 .. Last : \E j \in Threads : From(r, c, j)
      BY DEF Order, Placed
    <3>2. PICK j \in Threads : From(r, c, j)
      BY <3>1
    <3>3. r.source <= main.source /\ (r.source = main.source => r.pos < from)
      <4>1. r.source = batches[c].source /\ r.pos < T(c, j).pos /\ T(c, j).pos <= T(c, j).end
        BY <3>2, <1>1 DEF From, ThreadsInside, ThreadOf
      <4>2. T(c, j).pos \in Nat /\ T(c, j).end \in Nat /\ r.pos \in Nat
        BY <1>1, Types
      <4> QED
        BY <4>1, <4>2, <1>7, <1>11
    <3>4. r.source > main.source \/ (r.source = main.source /\ r.pos >= T(k, i)'.end)
      BY <2>2, <1>2, <1>6 DEF Follows
    <3>5. r.source \in Nat /\ r.pos \in Nat /\ main.source \in Nat
      BY <1>1, Types DEF TypeOK, MainType
    <3> QED
      BY <3>3, <3>4, <3>5, <1>7, <1>8
  <2> QED
    BY <2>1, <2>2, <1>4
<1>16. InputOrder'
  BY <1>4 DEF Order, InputOrder, Earlier
<1> QED
  BY <1>12, <1>13, <1>14, <1>15, <1>16 DEF Order

\* A text gives each item one number at most, and so does a queue without collections.
LEMMA OneNumber ==
    ASSUME Safe, SerializedOnce, NEW b \in 1 .. Last, NEW i \in Threads,
           T(b, i).pos < T(b, i).end, KindOf(b) # "serial"
    PROVE  Number(b, i) \in {0, 1}
<1> DEFINE s == batches[b].source
           n == T(b, i).pos + 1
<1>1. TypeOK /\ ThreadsInside /\ input \in Inputs
  BY DEF Safe
<1>2. s \in DOMAIN input /\ input[s] \in Source /\ KindOf(b) \notin {"serial", "missing"}
  BY <1>1, Types DEF ThreadsInside
<1>3. KindOf(b) \in {"stream", "map"} \cup Queued
  BY <1>2 DEF Source, KindOf, Queued
<1>4. input[s].items \in Seq({Sep, 0, 1})
  BY <1>1, <1>2, <1>3, InputAssumption DEF SerializedOnce, KindOf
<1>5. n \in 1 .. Len(input[s].items)
  BY <1>1, Types DEF ThreadsInside, ThreadOf
<1>6. input[s].items[n] \in {Sep, 0, 1}
  BY <1>4, <1>5, ElementOfSeq
<1> QED
  BY <1>6 DEF Number, Made

\* What follows the part that a thread has was parsed by one after it.
LEMMA FollowsLater ==
    ASSUME Safe, Order, NEW b \in 1 .. Last, NEW i \in Threads, Works(b, i),
           T(b, i).pos < T(b, i).end,
           NEW c \in 1 .. Last, NEW j \in Threads, NEW r \in out, From(r, c, j)
    PROVE  \/ /\ Before(c, j, b, i) \/ (c = b /\ j = i)
              /\ r.seq < T(b, i).seq
              /\ r.source < batches[b].source
                 \/ (r.source = batches[b].source /\ r.pos < T(b, i).pos)
           \/ Before(b, i, c, j) /\ Follows(r, b, i)
<1>1. TypeOK /\ ThreadsInside
  BY DEF Safe
<1>2. /\ b \in Nat /\ c \in Nat /\ i \in Nat /\ j \in Nat
      /\ r.source \in Nat /\ r.pos \in Nat /\ r.seq \in Nat
      /\ batches[b].source \in Nat /\ batches[c].source \in Nat
      /\ T(b, i) \in ThreadType /\ T(c, j) \in ThreadType
  BY <1>1, Types DEF Threads
<1>3. /\ T(b, i).from \in Nat /\ T(b, i).pos \in Nat /\ T(b, i).end \in Nat /\ T(b, i).seq \in Nat
      /\ T(c, j).from \in Nat /\ T(c, j).pos \in Nat /\ T(c, j).end \in Nat /\ T(c, j).seq \in Nat
  BY <1>2 DEF ThreadType
<1>4. /\ T(b, i).from <= T(b, i).pos /\ T(b, i).pos <= T(b, i).end
      /\ T(c, j).from <= T(c, j).pos /\ T(c, j).pos <= T(c, j).end
  BY <1>1 DEF ThreadsInside, ThreadOf
<1>5. /\ Works(c, j) /\ r.source = batches[c].source /\ r.seq < T(c, j).seq
      /\ T(c, j).from <= r.pos /\ r.pos < T(c, j).pos
  BY DEF From
<1>6. T(c, j).seq <= Bound(c, j) /\ Bound(c, j) \in Int
  BY <1>3, <1>4 DEF Bound
<1>7. CASE Before(c, j, b, i)
  <2>1. /\ batches[c].source <= batches[b].source
        /\ batches[c].source = batches[b].source => T(c, j).end <= T(b, i).from
        /\ Bound(c, j) <= T(b, i).seq
    BY <1>5, <1>7 DEF Order, ThreadsInOrder
  <2> QED
    BY <2>1, <1>2, <1>3, <1>4, <1>5, <1>6, <1>7
<1>8. CASE c = b /\ j = i
  BY <1>5, <1>8
<1>9. CASE Before(b, i, c, j)
  <2>1. /\ batches[b].source <= batches[c].source
        /\ batches[b].source = batches[c].source => T(b, i).end <= T(c, j).from
    BY <1>5, <1>9 DEF Order, ThreadsInOrder
  <2> QED
    BY <2>1, <1>2, <1>3, <1>5, <1>9 DEF Follows
<1> QED
  BY <1>2, <1>7, <1>8, <1>9 DEF Before

LEMMA ParseOrdered ==
    ASSUME Safe, Order, SerializedOnce, NEW b \in 1 .. Last, NEW i \in Threads, Parse(b, i)
    PROVE  Order'
<1>1. TypeOK /\ MainThere /\ LastIsCurrent /\ OnlyLast /\ ThreadsInside /\ Last \in Nat
  BY Types DEF Safe
<1> DEFINE n == Number(b, i)
<1>2. /\ n \in Nat /\ GetsPast(b, i, n) /\ batches[b].pc = "parse"
      /\ T(b, i).pos < T(b, i).end /\ Works(b, i)
      /\ out' = out \cup NewFeatures(b, i)
      /\ UNCHANGED <<input, main, isParsing, fds>>
  BY ParseDoes
<1>3. KindOf(b) # "serial" => n \in {0, 1}
  BY <1>2, OneNumber
<1>4. b = Last /\ ~ Idle
  BY <1>1, <1>2 DEF OnlyLast
<1>5. \A r \in NewFeatures(b, i) :
        /\ r.source = batches[b].source /\ r.pos = T(b, i).pos
        /\ r.part \in 0 .. n - 1 /\ r.seq = T(b, i).seq + r.part
  BY <1>1, <1>2, NewFeaturesTyped
<1> HIDE DEF n
<1>6. Last' = Last /\ Kind' = Kind
  BY <1>2 DEF GetsPast, Kind
<1>7. \A c \in 1 .. Last : \A j \in Threads :
        /\ T(c, j).from \in Nat /\ T(c, j).pos \in Nat /\ T(c, j).end \in Nat
        /\ T(c, j).seq \in Nat /\ Bound(c, j) \in Int /\ T(c, j).pos <= T(c, j).end
        /\ T(c, j).from <= T(c, j).pos
        /\ batches[c].source \in Nat /\ batches[c].source <= main.source
  BY <1>1, Types DEF Bound, ThreadsInside, ThreadOf
<1>8. \A c \in 1 .. Last : \A j \in Threads :
        /\ batches'[c].source = batches[c].source /\ Works(c, j)' = Works(c, j)
        /\ KindOf(c)' = KindOf(c) /\ TakesOver(c)' = TakesOver(c)
        /\ T(c, j)'.from = T(c, j).from /\ T(c, j)'.end = T(c, j).end
        /\ T(c, j)'.pos = T(c, j).pos + (IF c = b /\ j = i THEN 1 ELSE 0)
        /\ T(c, j)'.seq = T(c, j).seq + (IF c = b /\ j = i THEN n ELSE 0)
  BY <1>2, <1>6 DEF GetsPast, Works, KindOf, TakesOver, T
<1>9. \A c \in 1 .. Last : \A j \in Threads :
        /\ T(c, j).pos <= T(c, j)'.pos /\ T(c, j).seq <= T(c, j)'.seq
        /\ T(c, j)'.pos \in Nat /\ T(c, j)'.seq \in Nat
  BY <1>2, <1>7, <1>8
<1>10. \A c \in 1 .. Last : \A j \in Threads :
        ~ (c = b /\ j = i) => T(c, j)'.pos = T(c, j).pos /\ T(c, j)'.seq = T(c, j).seq
  BY <1>7, <1>8
<1>11. \A c \in 1 .. Last : \A j \in Threads :
        ~ (c = b /\ j = i) => Bound(c, j)' = Bound(c, j)
  BY <1>8, <1>10 DEF Bound
<1>12. KindOf(b) # "serial" => Bound(b, i)' <= Bound(b, i)
  BY <1>3, <1>7, <1>8 DEF Bound
<1>13. KindOf(b) = "serial" => TakesOver(b) /\ batches[b].source = main.source /\ i = 0
  <2> SUFFICES ASSUME KindOf(b) = "serial"
               PROVE  TakesOver(b) /\ batches[b].source = main.source /\ i = 0
    OBVIOUS
  <2>1. main.pc # "open" /\ (main.pc = "wait" \/ main.created)
    BY <1>1, <1>4 DEF Idle, MainThere, TypeOK, MainType
  <2>2. batches[b].source = main.source
    BY <1>1, <1>4, <2>1 DEF LastIsCurrent
  <2>3. Kind = "serial"
    BY <2>2 DEF Kind, KindOf
  <2> QED
    BY <1>1, <1>2, <1>4, <2>1, <2>2, <2>3 DEF TakesOver, MainThere, Works
<1>14. \A c \in 1 .. Last : \A j \in Threads :
        ~ (c = b /\ j = i /\ KindOf(b) = "serial") => Bound(c, j)' <= Bound(c, j)
  BY <1>7, <1>11, <1>12
<1>15. \A c \in 1 .. Last : \A j \in Threads : Bound(c, j)' \in Int
  BY <1>7, <1>8, <1>9 DEF Bound
<1>16. ThreadsInOrder'
  <2> SUFFICES ASSUME NEW c \in 1 .. Last, NEW d \in 1 .. Last, NEW j \in Threads,
                      NEW l \in Threads, Works(c, j), Works(d, l), Before(c, j, d, l)
               PROVE  /\ batches[c].source <= batches[d].source
                      /\ batches[c].source = batches[d].source => T(c, j).end <= T(d, l).from
                      /\ Bound(c, j)' <= T(d, l)'.seq
    BY <1>6, <1>8 DEF ThreadsInOrder, Before
  <2>1. /\ batches[c].source <= batches[d].source
        /\ batches[c].source = batches[d].source => T(c, j).end <= T(d, l).from
        /\ Bound(c, j) <= T(d, l).seq
    BY DEF Order, ThreadsInOrder
  <2>2. ~ (c = b /\ j = i /\ KindOf(b) = "serial")
    <3> SUFFICES ASSUME c = b, j = i, KindOf(b) = "serial"
                 PROVE  FALSE
      OBVIOUS
    <3>1. d = b /\ j < l
      BY <1>1, <1>4 DEF Before
    <3> QED
      BY <3>1, SizeAssumption DEF Works, Threads
  <2>3. Bound(c, j)' <= Bound(c, j) /\ T(d, l).seq <= T(d, l)'.seq
    BY <2>2, <1>9, <1>14
  <2>4. Bound(c, j)' \in Int /\ Bound(c, j) \in Int /\ T(d, l).seq \in Nat /\ T(d, l)'.seq \in Nat
    BY <1>7, <1>9, <1>15
  <2> QED
    BY <2>1, <2>3, <2>4
<1>17. BelowOffset'
  <2> SUFFICES ASSUME NEW c \in 1 .. Last, NEW j \in Threads, Works(c, j)
               PROVE  IF TakesOver(c) THEN main.offset <= T(c, j)'.seq
                      ELSE Bound(c, j)' <= main.offset
    BY <1>2, <1>6, <1>8 DEF BelowOffset
  <2>1. IF TakesOver(c) THEN main.offset <= T(c, j).seq ELSE Bound(c, j) <= main.offset
    BY DEF Order, BelowOffset
  <2>2. main.offset \in Nat
    BY <1>1 DEF TypeOK, MainType
  <2>3. CASE TakesOver(c)
    <3>1. main.offset <= T(c, j).seq /\ T(c, j).seq <= T(c, j)'.seq
      BY <2>1, <2>3, <1>9
    <3> QED
      BY <2>2, <2>3, <3>1, <1>7, <1>9
  <2>4. CASE ~ TakesOver(c)
    <3>1. Bound(c, j)' <= Bound(c, j) /\ Bound(c, j) <= main.offset
      BY <2>1, <2>4, <1>13, <1>14
    <3> QED
      BY <2>2, <2>4, <3>1, <1>7, <1>15
  <2> QED
    BY <2>3, <2>4
<1>18. Placed'
  <2> SUFFICES ASSUME NEW r \in out'
               PROVE  \E c \in 1 .. Last : \E j \in Threads : From(r, c, j)'
    BY <1>6 DEF Placed
  <2>1. CASE r \in out
    <3>1. PICK c \in 1 .. Last : \E j \in Threads : From(r, c, j)
      BY <2>1 DEF Order, Placed
    <3>2. PICK j \in Threads : From(r, c, j)
      BY <3>1
    <3>3. r.seq \in Nat /\ r.pos \in Nat
      BY <2>1, <1>1, Types
    <3>4. From(r, c, j)'
      BY <3>2, <3>3, <1>7, <1>8, <1>9 DEF From
    <3> QED
      BY <3>4
  <2>2. CASE r \in NewFeatures(b, i)
    <3>1. /\ r.source = batches[b].source /\ r.pos = T(b, i).pos
          /\ r.part \in 0 .. n - 1 /\ r.seq = T(b, i).seq + r.part
      BY <2>2, <1>5
    <3>2. T(b, i)'.pos = T(b, i).pos + 1 /\ T(b, i)'.seq = T(b, i).seq + n
      BY <1>8
    <3>3. r.seq < T(b, i)'.seq /\ T(b, i)'.from <= r.pos /\ r.pos < T(b, i)'.pos
      BY <3>1, <3>2, <1>2, <1>7, <1>8
    <3>4. From(r, b, i)'
      BY <3>1, <3>3, <1>2, <1>8 DEF From
    <3> QED
      BY <3>4
  <2> QED
    BY <2>1, <2>2, <1>2
\* Where an old feature is, seen from the thread that parses.
<1>19. \A r \in out :
        \/ /\ r.seq < T(b, i).seq
           /\ r.source < batches[b].source
              \/ (r.source = batches[b].source /\ r.pos < T(b, i).pos)
        \/ Follows(r, b, i) /\ KindOf(b) # "serial"
  <2> SUFFICES ASSUME NEW r \in out
               PROVE  \/ /\ r.seq < T(b, i).seq
                         /\ r.source < batches[b].source
                            \/ (r.source = batches[b].source /\ r.pos < T(b, i).pos)
                      \/ Follows(r, b, i) /\ KindOf(b) # "serial"
    OBVIOUS
  <2>1. PICK c \in 1 .. Last : \E j \in Threads : From(r, c, j)
    BY DEF Order, Placed
  <2>2. PICK j \in Threads : From(r, c, j)
    BY <2>1
  <2>3. ~ (Before(b, i, c, j) /\ KindOf(b) = "serial")
    <3> SUFFICES ASSUME Before(b, i, c, j), KindOf(b) = "serial"
                 PROVE  FALSE
      OBVIOUS
    <3>1. c = b /\ i < j
      BY <1>1, <1>4 DEF Before
    <3> QED
      BY <2>2, <3>1, SizeAssumption DEF From, Works, Threads
  <2> QED
    BY <1>2, <2>2, <2>3, FollowsLater
<1>20. BoundedAfter'
  <2> SUFFICES ASSUME NEW r \in out', NEW c \in 1 .. Last, NEW j \in Threads,
                      Works(c, j), Follows(r, c, j)
               PROVE  Bound(c, j)' <= r.seq
    BY <1>6, <1>8 DEF BoundedAfter, Follows
  <2>1. CASE r \in out
    <3>1. Bound(c, j) <= r.seq /\ r.seq \in Nat /\ r.source \in Nat /\ r.pos \in Nat
      BY <2>1, <1>1, Types DEF Order, BoundedAfter
    <3>2. ~ (c = b /\ j = i /\ KindOf(b) = "serial")
      BY <2>1, <3>1, <1>7, <1>19 DEF Follows
    <3> QED
      BY <3>1, <3>2, <1>7, <1>14, <1>15
  <2>2. CASE r \in NewFeatures(b, i)
    <3>1. /\ r.source = batches[b].source /\ r.pos = T(b, i).pos
          /\ r.part \in 0 .. n - 1 /\ r.seq = T(b, i).seq + r.part
      BY <2>2, <1>5
    <3>2. b \in Nat /\ c \in Nat /\ i \in Nat /\ j \in Nat
      BY SizeAssumption DEF Threads
    <3>3. ~ (c = b /\ j = i)
      BY <3>1, <1>2, <1>7 DEF Follows
    <3>4. ~ Before(b, i, c, j)
      <4> SUFFICES ASSUME Before(b, i, c, j)
                   PROVE  FALSE
        OBVIOUS
      <4>1. /\ batches[b].source <= batches[c].source
            /\ batches[b].source = batches[c].source => T(b, i).end <= T(c, j).from
        BY <1>2 DEF Order, ThreadsInOrder
      <4> QED
        BY <4>1, <3>1, <1>2, <1>7 DEF Follows
    <3>5. Before(c, j, b, i)
      BY <3>2, <3>3, <3>4 DEF Before
    <3>6. Bound(c, j) <= T(b, i).seq
      BY <3>5, <1>2 DEF Order, ThreadsInOrder
    <3>7. Bound(c, j)' = Bound(c, j)
      BY <3>3, <1>11
    <3> QED
      BY <3>1, <3>6, <3>7, <1>2, <1>7
  <2> QED
    BY <2>1, <2>2, <1>2
<1>21. InputOrder'
  <2> SUFFICES ASSUME NEW p \in out', NEW q \in out', Earlier(p, q)
               PROVE  p.seq < q.seq
    BY DEF InputOrder, Earlier
  <2>1. CASE p \in out /\ q \in out
    BY <2>1 DEF Order, InputOrder
  <2>2. CASE p \in NewFeatures(b, i) /\ q \in NewFeatures(b, i)
    <3>1. /\ p.source = q.source /\ p.pos = q.pos /\ p.part \in 0 .. n - 1 /\ q.part \in 0 .. n - 1
          /\ p.seq = T(b, i).seq + p.part /\ q.seq = T(b, i).seq + q.part
          /\ q.source \in Nat /\ q.pos \in Nat
      BY <2>2, <1>5, <1>7
    <3> QED
      BY <3>1, <1>2, <1>7 DEF Earlier
  <2>3. CASE p \in out /\ q \in NewFeatures(b, i)
    <3>1. /\ q.source = batches[b].source /\ q.pos = T(b, i).pos
          /\ q.part \in 0 .. n - 1 /\ q.seq = T(b, i).seq + q.part
      BY <2>3, <1>5
    <3>2. p.source \in Nat /\ p.pos \in Nat /\ p.seq \in Nat
      BY <2>3, <1>1, Types
    <3>3. ~ Follows(p, b, i)
      BY <3>1, <3>2, <1>2, <1>7 DEF Earlier, Follows
    <3>4. p.seq < T(b, i).seq
      BY <2>3, <3>3, <1>19
    <3> QED
      BY <3>1, <3>2, <3>4, <1>2, <1>7
  <2>4. CASE p \in NewFeatures(b, i) /\ q \in out
    <3>1. /\ p.source = batches[b].source /\ p.pos = T(b, i).pos
          /\ p.part \in 0 .. n - 1 /\ p.seq = T(b, i).seq + p.part
      BY <2>4, <1>5
    <3>2. q.source \in Nat /\ q.pos \in Nat /\ q.seq \in Nat
      BY <2>4, <1>1, Types
    <3>3. Follows(q, b, i) /\ KindOf(b) # "serial"
      BY <2>4, <3>1, <3>2, <1>7, <1>19 DEF Earlier
    <3>4. Bound(b, i) <= q.seq
      BY <2>4, <3>3, <1>2 DEF Order, BoundedAfter
    <3>5. p.seq = T(b, i).seq
      BY <3>1, <3>3, <1>3, <1>7
    <3>6. T(b, i).seq < Bound(b, i)
      BY <3>3, <1>2, <1>7 DEF Bound
    <3> QED
      BY <3>2, <3>4, <3>5, <3>6, <1>7
  <2> QED
    BY <2>1, <2>2, <2>3, <2>4, <1>2
<1> QED
  BY <1>16, <1>17, <1>18, <1>20, <1>21 DEF Order

-----------------------------------------------------------------------------
LEMMA StepOrdered == Ordered /\ [Next]_vars => Ordered'
<1> SUFFICES ASSUME Ordered, [Next]_vars
             PROVE  Order'
  BY StepSafe DEF Ordered, SerializedOnce
<1>1. Safe /\ Order /\ SerializedOnce
  BY DEF Ordered
<1>2. CASE \/ OpenSource \/ PassOver \/ CloseSource \/ Queue \/ LastOfQueue
           \/ NewTemp \/ ReadChunk \/ EndOfStream \/ NothingLeft \/ JoinLast
  BY <1>1, <1>2, MainMovesOrdered
<1>3. CASE ReadMapped \/ ReadSerially \/ RunQueue
  BY <1>1, <1>3, ReadMappedBegins, ReadSeriallyBegins, RunQueueBegins, BeginsOrdered
<1>4. CASE StartBatch
  BY <1>1, <1>4, StartParsingBegins, BeginsOrdered DEF StartBatch
<1>5. CASE StartLast
  BY <1>1, <1>5, StartParsingBegins, BeginsOrdered DEF StartLast
<1>6. CASE JoinThreads
  BY <1>1, <1>6, JoinThreadsOrdered
<1>7. CASE \E b \in 1 .. Last : CloseTemp(b) \/ EndParsing(b) \/ \E i \in Threads : Parse(b, i)
  BY <1>1, <1>7, EndsOrdered, ParseOrdered
<1>8. CASE UNCHANGED vars
  <2>1. SameThreads /\ main'.offset = main.offset /\ \A b \in 1 .. Last : TakesOver(b)' = TakesOver(b)
    BY <1>8 DEF vars, SameThreads, TakesOver, Kind, Last
  <2> QED
    BY <1>1, <2>1, SameOrder, SameOffset DEF Order
<1>9. Over => UNCHANGED vars
  BY DEF Over
<1> QED
  BY <1>2, <1>3, <1>4, <1>5, <1>6, <1>7, <1>8, <1>9 DEF Next, MainStep

\* README.md, --preserve-input-order: unless a queue has geometry collections in it,
\* the sequence numbers are in the order of the input, however the sources are cut up
\* among threads and into batches.
THEOREM NumbersInOrder == Spec /\ SerializedOnce => []InputOrder
<1>1. Init /\ SerializedOnce => Ordered
  <2> SUFFICES ASSUME Init, SerializedOnce
               PROVE  Order
    BY InitSafe DEF Ordered
  <2>1. batches = <<>> /\ out = {}
    BY DEF Init
  <2>2. Last = 0
    BY <2>1 DEF Last
  <2> QED
    BY <2>1, <2>2 DEF Order, ThreadsInOrder, BelowOffset, Placed, BoundedAfter, InputOrder
<1>2. Ordered => InputOrder
  BY DEF Ordered, Order
<1> QED
  BY <1>1, <1>2, StepOrdered, PTL DEF Spec

-----------------------------------------------------------------------------
(***************************************************************************)
(* How much has been parsed                                                 *)
(***************************************************************************)
\* Position p of its source is in the part of thread i.
Has(b, i, p) == T(b, i).from <= p /\ p < T(b, i).end
PartsApart ==
    \A b, c \in 1 .. Last : \A i, j \in Threads :
        \A p \in 0 .. Len(input[batches[b].source].items) - 1 :
            batches[b].source = batches[c].source /\ Has(b, i, p) /\ Has(c, j, p)
            => b = c /\ i = j

\* A thread has whole lines: its part begins where one ends, or with the separator.
AtLine(items, p) == p = 0 \/ items[p] = Sep
LinesWhole ==
    \A b \in 1 .. Last : \A i \in Threads :
        LET items == input[batches[b].source].items
        IN KindOf(b) \in {"stream", "map"} /\ T(b, i).from < T(b, i).end =>
               AtLine(items, T(b, i).from) \/ items[T(b, i).from + 1] = Sep

\* The features at position p of source s, how many there are to be, and whether a thread
\* has gone past it.
FeaturesAt(s, p) == {r \in out : r.source = s /\ r.pos = p}
NumberAt(s, p) == IF input[s].items[p + 1] = Sep THEN 0 ELSE input[s].items[p + 1]
PassedAt(s, p) == \E b \in 1 .. Last : \E i \in Threads :
    batches[b].source = s /\ T(b, i).from <= p /\ p < T(b, i).pos

AllCounted ==
    /\ \A r \in out : PassedAt(r.source, r.pos)
    /\ \A s \in DOMAIN input : \A p \in 0 .. Len(input[s].items) - 1 :
        PassedAt(s, p) => Cardinality(FeaturesAt(s, p)) = NumberAt(s, p)
EndedParsed == \A b \in 1 .. Last : batches[b].pc # "parse" => AllParsed(b)
Batched == PartsApart /\ LinesWhole /\ AllCounted /\ EndedParsed

\* How far the present source is in batches.  What is in none yet begins at a line, and when
\* main is done with the source there is nothing.
Front == IF Kind \in {"map", "serial"}
         THEN IF main.pc \in {"wait", "close"} THEN Len(Items) ELSE 0
         ELSE main.pos - main.ahead
FrontAtLine ==
    /\ main.pc # "open" /\ Kind = "stream" => AtLine(Items, Front) \/ Front = Len(Items)
    /\ main.pc = "batch" => Items[main.pos] = Sep
AllInBatches ==
    /\ main.pc = "drain" => main.pos = Len(Items)
    /\ main.pc = "wait" /\ Kind \in Queued => main.ahead = 0
    /\ main.pc \in {"last", "close"} => Front = Len(Items)
InBatches(s, p) == \E b \in 1 .. Last : \E i \in Threads : batches[b].source = s /\ Has(b, i, p)
Covering ==
    \A s \in DOMAIN input : \A p \in 0 .. Len(input[s].items) - 1 :
        /\ input[s].kind # "missing"
        /\ s < main.source \/ (main.pc # "open" /\ s = main.source /\ p < Front)
        => InBatches(s, p)

\* The area so far is that of the sources so far.
AreaSoFar ==
    (\A s \in DOMAIN input : input[s].kind # "fgb") =>
        main.area = Cardinality({r \in out : r.source < main.source})
Fronts  == FrontAtLine /\ AllInBatches /\ Covering /\ AreaSoFar
Counted == Batched /\ Fronts

-----------------------------------------------------------------------------
(***************************************************************************)
(* Parsing                                                                  *)
(***************************************************************************)
\* The threads have the parts that they had.
SameParts ==
    /\ input' = input /\ Last' = Last
    /\ \A c \in 1 .. Last :
        /\ batches'[c].source = batches[c].source
        /\ \A j \in Threads : /\ batches'[c].thread[j].from = T(c, j).from
                              /\ batches'[c].thread[j].end = T(c, j).end

LEMMA PartsStay ==
    ASSUME SameParts
    PROVE  /\ PartsApart => PartsApart'
           /\ LinesWhole => LinesWhole'
           /\ \A s, p : InBatches(s, p)' <=> InBatches(s, p)
<1>1. \A c \in 1 .. Last : \A j \in Threads : \A p : Has(c, j, p)' <=> Has(c, j, p)
  BY DEF SameParts, Has, T
<1>2. PartsApart => PartsApart'
  BY <1>1 DEF SameParts, PartsApart
<1>3. LinesWhole => LinesWhole'
  BY DEF SameParts, LinesWhole, KindOf, T
<1>4. \A s, p : InBatches(s, p)' <=> InBatches(s, p)
  BY <1>1 DEF SameParts, InBatches
<1> QED
  BY <1>2, <1>3, <1>4

\* Nobody parses an item.
NoneParsed ==
    /\ SameParts /\ out' = out
    /\ \A c \in 1 .. Last : \A j \in Threads : batches'[c].thread[j].pos = T(c, j).pos

LEMMA CountStays ==
    ASSUME NoneParsed, AllCounted
    PROVE  AllCounted'
<1>1. \A s, p : PassedAt(s, p)' <=> PassedAt(s, p)
  BY DEF NoneParsed, SameParts, PassedAt, T
<1>2. \A s, p : FeaturesAt(s, p)' = FeaturesAt(s, p) /\ NumberAt(s, p)' = NumberAt(s, p)
  BY DEF NoneParsed, SameParts, FeaturesAt, NumberAt
<1>3. \A s, p : Cardinality(FeaturesAt(s, p))' = Cardinality(FeaturesAt(s, p))
  BY <1>2
<1> QED
  BY <1>1, <1>2, <1>3 DEF NoneParsed, SameParts, AllCounted

LEMMA MovesNone ==
    ASSUME UNCHANGED <<input, batches, out>>
    PROVE  NoneParsed
BY DEF NoneParsed, SameParts, Last, T

LEMMA MovesBatched ==
    ASSUME Batched, UNCHANGED <<input, batches, out>>
    PROVE  Batched'
<1>1. NoneParsed
  BY MovesNone
<1>2. EndedParsed'
  BY DEF Batched, EndedParsed, AllParsed, Last
<1> QED
  BY <1>1, <1>2, PartsStay, CountStays DEF Batched, NoneParsed

LEMMA EndsNone ==
    ASSUME NEW b, NEW pc, EndsBatch(b, pc), UNCHANGED <<input, out>>
    PROVE  NoneParsed
BY DEF EndsBatch, NoneParsed, SameParts, T

LEMMA EndsBatched ==
    ASSUME Batched, NEW b \in 1 .. Last, NEW pc, EndsBatch(b, pc), AllParsed(b),
           UNCHANGED <<input, out>>
    PROVE  Batched'
<1>1. NoneParsed
  BY EndsNone
<1>2. EndedParsed'
  BY DEF Batched, EndedParsed, AllParsed, EndsBatch
<1> QED
  BY <1>1, <1>2, PartsStay, CountStays DEF Batched, NoneParsed

LEMMA NewFeaturesCounted ==
    ASSUME TypeOK, NEW b \in 1 .. Last, NEW i \in Threads, Number(b, i) \in Nat
    PROVE  Cardinality(NewFeatures(b, i)) = Number(b, i)
<1> DEFINE N == Number(b, i)
           Rec(k) == [source |-> batches[b].source, pos |-> T(b, i).pos, part |-> k,
                      seq |-> T(b, i).seq + k, reader |-> i]
           f == [k \in 0 .. N - 1 |-> Rec(k)]
<1>1. NewFeatures(b, i) = {Rec(k) : k \in 0 .. N - 1}
  BY DEF NewFeatures
<1>2. f \in Surjection(0 .. N - 1, NewFeatures(b, i))
  BY <1>1 DEF Surjection
<1>3. f \in Injection(0 .. N - 1, NewFeatures(b, i))
  <2>1. \A k, m \in 0 .. N - 1 : Rec(k) = Rec(m) => k = m
    <3>1. \A k \in 0 .. N - 1 : Rec(k).part = k
      OBVIOUS
    <3> QED
      BY <3>1
  <2>2. f \in [0 .. N - 1 -> NewFeatures(b, i)] /\ \A k \in 0 .. N - 1 : f[k] = Rec(k)
    BY <1>1
  <2> HIDE DEF f, Rec
  <2>3. \A k, m \in 0 .. N - 1 : f[k] = f[m] => k = m
    BY <2>1, <2>2
  <2> QED
    BY <2>2, <2>3, Zenon DEF Injection, IsInjective
<1>4. \A n \in Nat : IsFiniteSet(0 .. n - 1) /\ Cardinality(0 .. n - 1) = n
  <2> TAKE n \in Nat
  <2>1. 0 \in Int /\ n - 1 \in Int /\ (IF 0 > n - 1 THEN 0 ELSE (n - 1) - 0 + 1) = n
    OBVIOUS
  <2>2. IsFiniteSet(0 .. n - 1)
        /\ Cardinality(0 .. n - 1) = IF 0 > n - 1 THEN 0 ELSE (n - 1) - 0 + 1
    BY <2>1, FS_Interval
  <2> QED
    BY <2>1, <2>2
<1> QED
  BY <1>2, <1>3, <1>4, FS_Surjection

\* A thread that has whole lines makes of an item what it is.
LEMMA MakesAll ==
    ASSUME Safe, Batched, NEW b \in 1 .. Last, NEW i \in Threads, T(b, i).pos < T(b, i).end
    PROVE  Number(b, i) = NumberAt(batches[b].source, T(b, i).pos)
<1>1. /\ T(b, i).from \in Nat /\ T(b, i).pos \in Nat /\ T(b, i).end \in Nat
      /\ T(b, i).from <= T(b, i).pos
  BY Types DEF Safe, ThreadsInside, ThreadOf
<1>2. KindOf(b) \in {"stream", "map"} => Whole(input[batches[b].source].items, T(b, i))
  <2> DEFINE items == input[batches[b].source].items
             t == T(b, i)
  <2> SUFFICES ASSUME KindOf(b) \in {"stream", "map"}
               PROVE  Whole(items, t)
    OBVIOUS
  <2>1. t.from < t.end
    BY <1>1
  <2>2. AtLine(items, t.from) \/ items[t.from + 1] = Sep
    BY <2>1 DEF Batched, LinesWhole
  <2>3. t.from \in t.from .. t.pos
    BY <1>1
  <2> QED
    BY <2>2, <2>3 DEF Whole, AtLine
<1> QED
  BY <1>2 DEF Number, Made, NumberAt

\* A position that no thread has gone past has no features yet.
LEMMA NothingAhead ==
    ASSUME Safe, Batched, NEW b \in 1 .. Last, NEW i \in Threads, T(b, i).pos < T(b, i).end
    PROVE  /\ ~ PassedAt(batches[b].source, T(b, i).pos)
           /\ FeaturesAt(batches[b].source, T(b, i).pos) = {}
<1>1. \A c \in 1 .. Last : \A j \in Threads :
        /\ T(c, j).from \in Nat /\ T(c, j).pos \in Nat /\ T(c, j).end \in Nat
        /\ T(c, j).from <= T(c, j).pos /\ T(c, j).pos <= T(c, j).end
        /\ T(c, j).end <= Len(input[batches[c].source].items)
        /\ Len(input[batches[c].source].items) \in Nat
  BY Types DEF Safe, ThreadsInside, ThreadOf
<1>2. ~ PassedAt(batches[b].source, T(b, i).pos)
  <2> SUFFICES ASSUME NEW c \in 1 .. Last, NEW j \in Threads,
                      batches[c].source = batches[b].source,
                      T(c, j).from <= T(b, i).pos, T(b, i).pos < T(c, j).pos
               PROVE  FALSE
    BY DEF PassedAt
  <2>1. Has(b, i, T(b, i).pos) /\ Has(c, j, T(b, i).pos)
    BY <1>1 DEF Has
  <2>2. T(b, i).pos \in 0 .. Len(input[batches[b].source].items) - 1
    BY <1>1
  <2>3. b = c /\ i = j
    BY <2>1, <2>2 DEF Batched, PartsApart
  <2> QED
    BY <2>3, <1>1
<1>3. FeaturesAt(batches[b].source, T(b, i).pos) = {}
  BY <1>2 DEF FeaturesAt, Batched, AllCounted
<1> QED
  BY <1>2, <1>3

LEMMA ParseBatched ==
    ASSUME Safe, Batched, NEW b \in 1 .. Last, NEW i \in Threads, Parse(b, i)
    PROVE  Batched'
<1> DEFINE S == batches[b].source
           P == T(b, i).pos
<1>1. /\ Number(b, i) \in Nat /\ GetsPast(b, i, Number(b, i))
      /\ batches[b].pc = "parse" /\ T(b, i).pos < T(b, i).end
      /\ out' = out \cup NewFeatures(b, i) /\ input' = input
  BY ParseDoes
<1>2. TypeOK /\ PartsApart /\ LinesWhole /\ AllCounted /\ EndedParsed
  BY DEF Safe, Batched
<1>3. SameParts
  BY <1>1 DEF SameParts, GetsPast
<1>4. \A c \in 1 .. Last : \A j \in Threads :
        /\ T(c, j)'.from = T(c, j).from /\ T(c, j)'.end = T(c, j).end
        /\ T(c, j)'.pos = IF c = b /\ j = i THEN T(c, j).pos + 1 ELSE T(c, j).pos
        /\ batches'[c].source = batches[c].source /\ batches'[c].pc = batches[c].pc
        /\ T(c, j).from \in Nat /\ T(c, j).pos \in Nat
  <2>1. \A c \in 1 .. Last : \A j \in Threads : T(c, j).from \in Nat /\ T(c, j).pos \in Nat
    BY <1>2, Types
  <2>2. \A c \in 1 .. Last :
          /\ batches'[c].source = batches[c].source /\ batches'[c].pc = batches[c].pc
          /\ \A j \in Threads :
              /\ batches'[c].thread[j].from = T(c, j).from
              /\ batches'[c].thread[j].end = T(c, j).end
              /\ batches'[c].thread[j].pos = T(c, j).pos + (IF c = b /\ j = i THEN 1 ELSE 0)
    BY <1>1 DEF GetsPast
  <2>3. \A c \in 1 .. Last : \A j \in Threads : T(c, j)' = batches'[c].thread[j]
    BY DEF T
  <2> HIDE DEF T
  <2> QED
    BY <2>1, <2>2, <2>3
<1>5. Last' = Last /\ P \in Nat /\ T(b, i).from <= P
  BY <1>1, <1>2, <1>4 DEF GetsPast, Safe, ThreadsInside, ThreadOf
<1>6. EndedParsed'
  <2> SUFFICES ASSUME NEW c \in 1 .. Last, batches[c].pc # "parse"
               PROVE  AllParsed(c)'
    BY <1>4, <1>5, <1>1 DEF EndedParsed, Last, GetsPast
  <2>1. AllParsed(c) /\ c # b
    BY <1>1, <1>2 DEF EndedParsed
  <2> QED
    BY <1>4, <2>1 DEF AllParsed, T
<1>7. \A s : \A p \in Nat : PassedAt(s, p)' <=> PassedAt(s, p) \/ (s = S /\ p = P)
  <2> TAKE s
  <2> TAKE p \in Nat
  <2>1. PassedAt(s, p) => PassedAt(s, p)'
    <3> SUFFICES ASSUME NEW c \in 1 .. Last, NEW j \in Threads, batches[c].source = s,
                        T(c, j).from <= p, p < T(c, j).pos
                 PROVE  PassedAt(s, p)'
      BY DEF PassedAt
    <3>1. T(c, j)'.from <= p /\ p < T(c, j)'.pos
      BY <1>4
    <3> QED
      BY <3>1, <1>4, <1>5 DEF PassedAt
  <2>2. s = S /\ p = P => PassedAt(s, p)'
    <3> SUFFICES ASSUME s = S, p = P
                 PROVE  PassedAt(s, p)'
      OBVIOUS
    <3>1. T(b, i)'.from <= p /\ p < T(b, i)'.pos /\ batches'[b].source = s
      BY <1>4, <1>5
    <3> QED
      BY <3>1, <1>5 DEF PassedAt
  <2>3. PassedAt(s, p)' => PassedAt(s, p) \/ (s = S /\ p = P)
    <3> SUFFICES ASSUME NEW c \in 1 .. Last, NEW j \in Threads, batches'[c].source = s,
                        T(c, j)'.from <= p, p < T(c, j)'.pos
                 PROVE  PassedAt(s, p) \/ (s = S /\ p = P)
      BY <1>5 DEF PassedAt
    <3>1. batches[c].source = s /\ T(c, j).from <= p
      BY <1>4
    <3>2. CASE p < T(c, j).pos
      BY <3>1, <3>2 DEF PassedAt
    <3>3. CASE ~ (p < T(c, j).pos)
      <4>1. c = b /\ j = i
        BY <3>3, <1>4
      <4>2. p = P
        BY <4>1, <3>3, <1>4
      <4> QED
        BY <4>1, <4>2, <3>1
    <3> QED
      BY <3>2, <3>3
  <2> QED
    BY <2>1, <2>2, <2>3
<1>8. \A r \in NewFeatures(b, i) : r.source = S /\ r.pos = P /\ r \in OutType
  BY <1>1, <1>2, NewFeaturesTyped
<1>9. FeaturesAt(S, P) = {} /\ ~ PassedAt(S, P)
  BY <1>1, NothingAhead
<1>10. \A s : \A p \in Nat :
        FeaturesAt(s, p)' = IF s = S /\ p = P THEN NewFeatures(b, i) ELSE FeaturesAt(s, p)
  <2>1. \A s : \A p \in Nat :
          {r \in out \cup NewFeatures(b, i) : r.source = s /\ r.pos = p} =
          IF s = S /\ p = P THEN FeaturesAt(S, P) \cup NewFeatures(b, i) ELSE FeaturesAt(s, p)
    BY <1>8 DEF FeaturesAt
  <2>2. FeaturesAt(S, P) \cup NewFeatures(b, i) = NewFeatures(b, i)
    BY <1>9
  <2> QED
    BY <1>1, <2>1, <2>2 DEF FeaturesAt
<1>11. Cardinality(NewFeatures(b, i)) = NumberAt(S, P)
  <2>1. Cardinality(NewFeatures(b, i)) = Number(b, i)
    BY <1>1, <1>2, NewFeaturesCounted
  <2>2. Number(b, i) = NumberAt(S, P)
    BY <1>1, MakesAll
  <2> QED
    BY <2>1, <2>2
<1> HIDE DEF S, P
<1>12. AllCounted'
  <2>1. \A r \in out' : PassedAt(r.source, r.pos)'
    <3> SUFFICES ASSUME NEW r \in out'
                 PROVE  PassedAt(r.source, r.pos)'
      OBVIOUS
    <3>1. CASE r \in out
      <4>1. PassedAt(r.source, r.pos) /\ r.pos \in Nat
        BY <3>1, <1>2, Types DEF AllCounted
      <4> QED
        BY <4>1, <1>7
    <3>2. CASE r \in NewFeatures(b, i)
      <4>1. r.source = S /\ r.pos = P
        BY <3>2, <1>8
      <4> QED
        BY <4>1, <1>5, <1>7
    <3> QED
      BY <3>1, <3>2, <1>1
  <2>2. ASSUME NEW s \in DOMAIN input, NEW p \in 0 .. Len(input[s].items) - 1, PassedAt(s, p)'
        PROVE  Cardinality(FeaturesAt(s, p)') = NumberAt(s, p)
    <3>1. CASE s = S /\ p = P
      BY <3>1, <1>10, <1>11
    <3>2. CASE ~ (s = S /\ p = P)
      <4>1. PassedAt(s, p) /\ FeaturesAt(s, p)' = FeaturesAt(s, p)
        BY <2>2, <3>2, <1>7, <1>10
      <4> QED
        BY <4>1, <1>2 DEF AllCounted
    <3> QED
      BY <3>1, <3>2
  <2>3. \A s, p : NumberAt(s, p)' = NumberAt(s, p)
    BY <1>1 DEF NumberAt
  <2>4. \A s, p : Cardinality(FeaturesAt(s, p))' = Cardinality(FeaturesAt(s, p)')
    OBVIOUS
  <2> QED
    BY <1>1, <2>1, <2>2, <2>3 DEF AllCounted
<1> QED
  BY <1>2, <1>3, <1>6, <1>12, PartsStay DEF Batched

-----------------------------------------------------------------------------
(***************************************************************************)
(* Batches that are begun                                                   *)
(***************************************************************************)
\* The threads of a batch have all of from .. to, and what they have of a text begins
\* where that does or with a separator.
Covers(nb, from, to) ==
    \A p \in from .. to - 1 : \E i \in Threads :
        nb.thread[i].from <= p /\ p < nb.thread[i].end
CutAtLines(nb, from) ==
    Kind \in {"stream", "map"} => \A i \in Threads :
        nb.thread[i].from < nb.thread[i].end =>
            nb.thread[i].from = from \/ Items[nb.thread[i].from + 1] = Sep

\* Between where the first of some cuts is and where the last is, everything is
\* between a cut and the next.
LEMMA Between ==
    ASSUME NEW C \in [0 .. CPUS -> Nat], NEW p \in Nat, C[0] <= p, p < C[CPUS]
    PROVE  \E i \in Threads : C[i] <= p /\ p < C[i + 1]
<1> DEFINE S == {k \in 0 .. CPUS : p < C[k]}
<1>1. CPUS \in Nat /\ CPUS > 0
  BY SizeAssumption
<1>2. S \subseteq Nat /\ S # {}
  BY <1>1
<1>3. PICK k \in S : \A m \in S : k <= m
  BY <1>2, Least
<1>4. k \in 0 .. CPUS /\ k # 0 /\ p < C[k]
  BY <1>1, <1>3
<1>5. k - 1 \in Threads /\ k - 1 \in 0 .. CPUS /\ (k - 1) + 1 = k
  BY <1>1, <1>4 DEF Threads
<1>6. C[k - 1] <= p
  <2>1. k - 1 \notin S
    BY <1>3, <1>4
  <2>2. ~ (p < C[k - 1]) /\ C[k - 1] \in Nat
    BY <1>5, <2>1
  <2> QED
    BY <2>2
<1> QED
  BY <1>4, <1>5, <1>6

\* A text is only cut in front of a separator.
LEMMA CutAtSeparator ==
    ASSUME NEW items, NEW from \in Nat, NEW len \in Nat, NEW i \in 0 .. CPUS,
           i # 0, Cut(items, from, len, i) # from + len
    PROVE  items[Cut(items, from, len, i) + 1] = Sep
<1> DEFINE even == from + (len * i) \div CPUS
           seps == {p \in even .. from + len - 1 : items[p + 1] = Sep}
           first == CHOOSE p \in seps : \A q \in seps : p <= q
<1>1. CPUS \in Nat /\ CPUS > 0
  BY SizeAssumption
<1>2. Cut(items, from, len, i) = first /\ seps # {}
  BY DEF Cut
<1>3. even \in Nat
  BY Share, <1>1
<1>4. seps \subseteq Nat
  BY <1>3
<1>5. \E p \in seps : \A q \in seps : p <= q
  BY <1>2, <1>4, Least
<1>6. first \in seps
  BY <1>5
<1> QED
  BY <1>2, <1>6

LEMMA TextCovers ==
    ASSUME NEW from \in Nat, NEW len \in Nat, NEW base, NEW fd
    PROVE  /\ Covers(TextBatch(from, len, base, fd), from, from + len)
           /\ CutAtLines(TextBatch(from, len, base, fd), from)
<1> DEFINE nb == TextBatch(from, len, base, fd)
           C == [k \in 0 .. CPUS |-> Cut(Items, from, len, k)]
<1>1. CPUS \in Nat /\ CPUS > 0
  BY SizeAssumption
<1>2. /\ C \in [0 .. CPUS -> Nat] /\ C[0] = from /\ C[CPUS] = from + len
      /\ \A k \in 0 .. CPUS : C[k] <= from + len
  <2>1. \A k \in 0 .. CPUS : Cut(Items, from, len, k) \in from .. from + len
    <3> TAKE k \in 0 .. CPUS
    <3>1. k \in k .. CPUS
      BY <1>1
    <3> QED
      BY <3>1, CutInOrder
  <2>2. Cut(Items, from, len, 0) = from /\ Cut(Items, from, len, CPUS) = from + len
    <3>1. 0 \in 0 .. CPUS /\ CPUS \in 0 .. CPUS
      BY <1>1
    <3> QED
      BY <3>1, CutInOrder
  <2>3. from .. from + len \subseteq Nat
    OBVIOUS
  <2> QED
    BY <1>1, <2>1, <2>2, <2>3
<1>3. \A k \in 0 .. CPUS : k # 0 /\ C[k] # from + len => Items[C[k] + 1] = Sep
  BY CutAtSeparator
<1>4. \A i \in Threads : /\ i \in 0 .. CPUS /\ i + 1 \in 0 .. CPUS
                         /\ nb.thread[i].from = C[i] /\ nb.thread[i].end = C[i + 1]
  BY <1>1 DEF Threads, TextBatch
<1> HIDE DEF C, nb
<1>5. Covers(nb, from, from + len)
  <2> SUFFICES ASSUME NEW p \in from .. from + len - 1
               PROVE  \E i \in Threads : nb.thread[i].from <= p /\ p < nb.thread[i].end
    BY DEF Covers
  <2>1. \E i \in Threads : C[i] <= p /\ p < C[i + 1]
    <3>1. p \in Nat /\ C[0] <= p /\ p < C[CPUS]
      BY <1>2
    <3> QED
      BY <3>1, <1>2, Between
  <2> QED
    BY <1>4, <2>1
<1>6. CutAtLines(nb, from)
  <2> SUFFICES ASSUME NEW i \in Threads, C[i] < C[i + 1]
               PROVE  C[i] = from \/ Items[C[i] + 1] = Sep
    BY <1>4 DEF CutAtLines
  <2>1. C[i] # from + len
    BY <1>2, <1>4
  <2> QED
    BY <1>2, <1>3, <1>4, <2>1
<1> QED
  BY <1>5, <1>6 DEF nb

LEMMA QueueCovers ==
    ASSUME NEW from \in Nat, NEW len \in Nat, NEW base, Kind \in Queued
    PROVE  /\ Covers(QueueBatch(from, len, base), from, from + len)
           /\ CutAtLines(QueueBatch(from, len, base), from)
<1> DEFINE nb == QueueBatch(from, len, base)
           C == [k \in 0 .. CPUS |-> from + (len * k) \div CPUS]
<1>1. CPUS \in Nat /\ CPUS > 0
  BY SizeAssumption
<1>2. \A k \in 0 .. CPUS : C[k] \in Nat
  BY Share, <1>1
<1>3. C[0] = from /\ C[CPUS] = from + len
  <2>1. len * 0 = 0 /\ 0 \div CPUS = 0
    BY <1>1
  <2>2. (len * CPUS) \div CPUS = len
    BY <1>1
  <2> QED
    BY <1>1, <2>1, <2>2
<1>4. \A i \in Threads : /\ i \in 0 .. CPUS /\ i + 1 \in 0 .. CPUS
                         /\ nb.thread[i].from = C[i] /\ nb.thread[i].end = C[i + 1]
  BY <1>1 DEF Threads, QueueBatch
<1>5. C \in [0 .. CPUS -> Nat]
  BY <1>2
<1> HIDE DEF C, nb
<1>6. Covers(nb, from, from + len)
  <2> SUFFICES ASSUME NEW p \in from .. from + len - 1
               PROVE  \E i \in Threads : nb.thread[i].from <= p /\ p < nb.thread[i].end
    BY DEF Covers
  <2>1. \E i \in Threads : C[i] <= p /\ p < C[i + 1]
    <3>1. p \in Nat /\ C[0] <= p /\ p < C[CPUS]
      BY <1>3, <1>5
    <3> QED
      BY <3>1, <1>5, Between
  <2> QED
    BY <1>4, <2>1
<1>7. CutAtLines(nb, from)
  BY DEF CutAtLines, Queued
<1> QED
  BY <1>6, <1>7 DEF nb

LEMMA SerialCovers ==
    ASSUME Kind = "serial", Len(Items) \in Nat
    PROVE  Covers(SerialBatch, 0, Len(Items)) /\ CutAtLines(SerialBatch, 0)
<1>1. 0 \in Threads
  BY SizeAssumption DEF Threads
<1>2. SerialBatch.thread[0].from = 0 /\ SerialBatch.thread[0].end = Len(Items)
  BY <1>1 DEF SerialBatch
<1> QED
  BY <1>1, <1>2 DEF Covers, CutAtLines

\* The parts of a batch that is begun, beside those there were.
LEMMA BeginsParts ==
    ASSUME Safe, NEW nb, NEW from, NEW to, NEW fd, Begins(nb, from, to, fd)
    PROVE  /\ Last \in Nat /\ Last' = Last + 1 /\ input' = input /\ out' = out
           /\ \A b \in 1 .. Last : batches'[b] = batches[b]
           /\ batches'[Last + 1] = nb /\ nb.source = main.source /\ nb.pc = "parse"
           /\ \A i \in Threads :
                /\ nb.thread[i].from \in Nat /\ nb.thread[i].end \in Nat
                /\ nb.thread[i].pos = nb.thread[i].from
                /\ from <= nb.thread[i].from /\ nb.thread[i].end <= to
           /\ from \in Nat /\ to \in Nat
           /\ \A i, j \in Threads : \A p \in Nat :
                /\ nb.thread[i].from <= p /\ p < nb.thread[i].end
                /\ nb.thread[j].from <= p /\ p < nb.thread[j].end
                => i = j
           /\ \A b \in 1 .. Last : \A i \in Threads :
                batches[b].source = main.source => T(b, i).end \in Nat /\ T(b, i).end <= from
<1>1. TypeOK /\ ThreadsInside /\ Frontier
  BY DEF Safe
<1>2. nb \in BatchType /\ nb.source = main.source /\ nb.fd = fd /\ nb.pc = "parse"
  BY DEF Begins, Fits
<1>3. /\ Last' = Last + 1 /\ Last \in Nat
      /\ \A b \in 1 .. Last : batches'[b] = batches[b]
      /\ batches'[Last + 1] = nb
  BY <1>1, <1>2, Appended DEF Begins
<1>4. \A i \in Threads :
        /\ nb.thread[i].from \in Nat /\ nb.thread[i].end \in Nat
        /\ nb.thread[i].pos = nb.thread[i].from
        /\ from <= nb.thread[i].from /\ nb.thread[i].end <= to
        /\ Kind = "serial" /\ i # 0 => nb.thread[i].from = nb.thread[i].end
  BY <1>2 DEF Begins, Fits, BatchType
<1>5. \A i, j \in Threads : \A p \in Nat :
        /\ nb.thread[i].from <= p /\ p < nb.thread[i].end
        /\ nb.thread[j].from <= p /\ p < nb.thread[j].end
        => i = j
  <2> SUFFICES ASSUME NEW i \in Threads, NEW j \in Threads, NEW p \in Nat,
                      nb.thread[i].from <= p, p < nb.thread[i].end,
                      nb.thread[j].from <= p, p < nb.thread[j].end
               PROVE  i = j
    OBVIOUS
  <2>1. CASE Kind = "serial"
    BY <2>1, <1>4
  <2>2. CASE Kind # "serial"
    <3>1. \A k, m \in Threads : k < m => nb.thread[k].end <= nb.thread[m].from
      BY <2>2 DEF Begins, Fits
    <3>2. ~ (i < j) /\ ~ (j < i)
      BY <3>1, <1>4
    <3>3. i \in Int /\ j \in Int
      BY SizeAssumption DEF Threads
    <3> QED
      BY <3>2, <3>3
  <2> QED
    BY <2>1, <2>2
<1>6. \A b \in 1 .. Last : \A i \in Threads :
        batches[b].source = main.source => T(b, i).end \in Nat /\ T(b, i).end <= from
  <2>1. main.pc # "open" /\ (main.pc = "read" \/ Kind \notin {"map", "serial"})
        /\ from = main.pos - main.ahead
    BY DEF Begins
  <2> QED
    BY <1>1, <2>1, Types DEF Frontier
<1> QED
  BY <1>2, <1>3, <1>4, <1>5, <1>6 DEF Begins

LEMMA BeginsApart ==
    ASSUME Safe, Batched, NEW nb, NEW from, NEW to, NEW fd, Begins(nb, from, to, fd)
    PROVE  PartsApart'
<1> PICK k \in Nat : k = Last + 1
  BY BeginsParts
<1>1. /\ Last \in Nat /\ Last' = k /\ input' = input
      /\ \A b \in 1 .. Last : batches'[b] = batches[b]
      /\ batches'[k] = nb /\ nb.source = main.source
  BY BeginsParts
<1>2. \A b \in 1 .. Last : \A i \in Threads : \A p : Has(b, i, p)' <=> Has(b, i, p)
  BY <1>1 DEF Has, T
<1>3. \A i \in Threads : \A p :
        Has(k, i, p)' <=> nb.thread[i].from <= p /\ p < nb.thread[i].end
  BY <1>1 DEF Has, T
<1>4. \A b \in 1 .. k : b \in 1 .. Last \/ b = k
  BY <1>1
<1>5. PartsApart
  BY DEF Batched
<1>6. \A b \in 1 .. Last : \A i, j \in Threads : \A p \in Nat :
        batches[b].source = main.source /\ Has(b, i, p)' => ~ Has(k, j, p)'
  <2> SUFFICES ASSUME NEW b \in 1 .. Last, NEW i \in Threads, NEW j \in Threads, NEW p \in Nat,
                      batches[b].source = main.source, Has(b, i, p), Has(k, j, p)'
               PROVE  FALSE
    BY <1>2
  <2>1. p < T(b, i).end /\ nb.thread[j].from <= p
    BY <1>3 DEF Has
  <2>2. /\ T(b, i).end \in Nat /\ T(b, i).end <= from /\ from \in Nat
        /\ from <= nb.thread[j].from /\ nb.thread[j].from \in Nat
    BY BeginsParts
  <2> QED
    BY <2>1, <2>2
<1>7. \A i, j \in Threads : \A p \in Nat : Has(k, i, p)' /\ Has(k, j, p)' => i = j
  BY <1>3, BeginsParts
<1>8. \A b, c \in 1 .. k : \A i, j \in Threads :
        \A p \in 0 .. Len(input[batches'[b].source].items) - 1 :
            batches'[b].source = batches'[c].source /\ Has(b, i, p)' /\ Has(c, j, p)'
            => b = c /\ i = j
  <2> SUFFICES ASSUME NEW b \in 1 .. k, NEW c \in 1 .. k, NEW i \in Threads, NEW j \in Threads,
                      NEW p \in 0 .. Len(input[batches'[b].source].items) - 1,
                      batches'[b].source = batches'[c].source, Has(b, i, p)', Has(c, j, p)'
               PROVE  b = c /\ i = j
    OBVIOUS
  <2>0. p \in Nat
    OBVIOUS
  <2>1. CASE b \in 1 .. Last /\ c \in 1 .. Last
    <3>1. p \in 0 .. Len(input[batches[b].source].items) - 1
      BY <2>1, <1>1
    <3>2. batches[b].source = batches[c].source /\ Has(b, i, p) /\ Has(c, j, p)
      BY <2>1, <1>1, <1>2
    <3> QED
      BY <2>1, <3>1, <3>2, <1>5 DEF PartsApart
  <2>2. CASE b = k /\ c = k
    BY <2>0, <2>2, <1>7
  <2>3. CASE b \in 1 .. Last /\ c = k
    <3>1. batches[b].source = main.source
      BY <2>3, <1>1
    <3> QED
      BY <2>0, <2>3, <3>1, <1>6
  <2>4. CASE b = k /\ c \in 1 .. Last
    <3>1. batches[c].source = main.source
      BY <2>4, <1>1
    <3> QED
      BY <2>0, <2>4, <3>1, <1>6
  <2> QED
    BY <2>1, <2>2, <2>3, <2>4, <1>4
<1> QED
  BY <1>1, <1>8 DEF PartsApart

LEMMA BeginsBatched ==
    ASSUME Safe, Batched, FrontAtLine, NEW nb, NEW from, NEW to, NEW fd,
           Begins(nb, from, to, fd), CutAtLines(nb, from)
    PROVE  Batched'
<1> PICK k \in Nat : k = Last + 1
  BY BeginsParts
<1>1. /\ Last \in Nat /\ Last' = k /\ input' = input /\ out' = out
      /\ \A b \in 1 .. Last : batches'[b] = batches[b]
      /\ batches'[k] = nb /\ nb.source = main.source /\ nb.pc = "parse"
      /\ \A i \in Threads :
            /\ nb.thread[i].from \in Nat /\ nb.thread[i].end \in Nat
            /\ nb.thread[i].pos = nb.thread[i].from
            /\ from <= nb.thread[i].from /\ nb.thread[i].end <= to
      /\ from \in Nat /\ to \in Nat
  BY BeginsParts
<1>2. \A b \in 1 .. k : b \in 1 .. Last \/ b = k
  BY <1>1
<1>3. LinesWhole /\ AllCounted /\ EndedParsed /\ MainThere
  BY DEF Batched, Safe
<1>4. LinesWhole'
  <2>1. Kind = "stream" /\ from < Len(Items) => AtLine(Items, from)
    <3>1. main.pc # "open" /\ from = main.pos - main.ahead
      BY DEF Begins
    <3>2. Kind = "stream" => Front = from
      BY <3>1 DEF Front
    <3> QED
      BY <3>1, <3>2, <1>1 DEF FrontAtLine
  <2>2. Kind = "map" => from = 0
    <3>1. main.pc # "open" /\ from = main.pos - main.ahead
      BY DEF Begins
    <3> QED
      BY <1>3, <3>1 DEF MainThere
  <2>3. to \in Nat /\ to <= Len(Items) /\ Len(Items) \in Nat
    <3>1. Len(Items) \in Nat
      BY <1>3, Types DEF Begins, MainThere, Safe, Items
    <3> QED
      BY <3>1 DEF Begins
  <2>4. \A i \in Threads : Kind \in {"stream", "map"} /\ nb.thread[i].from < nb.thread[i].end =>
            AtLine(Items, nb.thread[i].from) \/ Items[nb.thread[i].from + 1] = Sep
    <3> SUFFICES ASSUME NEW i \in Threads, Kind \in {"stream", "map"},
                        nb.thread[i].from < nb.thread[i].end
                 PROVE  AtLine(Items, nb.thread[i].from) \/ Items[nb.thread[i].from + 1] = Sep
      OBVIOUS
    <3>1. CASE Items[nb.thread[i].from + 1] = Sep
      BY <3>1
    <3>2. CASE nb.thread[i].from = from
      <4>1. from < Len(Items)
        BY <3>2, <1>1, <2>3
      <4>2. AtLine(Items, from)
        BY <2>1, <2>2, <4>1 DEF AtLine
      <4> QED
        BY <3>2, <4>2
    <3> QED
      BY <3>1, <3>2 DEF CutAtLines
  <2>5. \A b \in 1 .. Last : \A i \in Threads :
          Kind' = Kind /\ KindOf(b)' = KindOf(b) /\ T(b, i)' = T(b, i)
          /\ batches'[b].source = batches[b].source
    BY <1>1 DEF KindOf, T, Kind, Begins
  <2>6. KindOf(k)' = Kind /\ \A i \in Threads : T(k, i)' = nb.thread[i]
    BY <1>1 DEF KindOf, T, Kind
  <2>7. input[batches'[k].source].items = Items
    BY <1>1 DEF Items
  <2>8. \A b \in 1 .. k : \A i \in Threads :
          KindOf(b)' \in {"stream", "map"} /\ T(b, i)'.from < T(b, i)'.end =>
              \/ AtLine(input[batches'[b].source].items, T(b, i)'.from)
              \/ input[batches'[b].source].items[T(b, i)'.from + 1] = Sep
    <3> SUFFICES ASSUME NEW b \in 1 .. k, NEW i \in Threads
                 PROVE  KindOf(b)' \in {"stream", "map"} /\ T(b, i)'.from < T(b, i)'.end =>
                            \/ AtLine(input[batches'[b].source].items, T(b, i)'.from)
                            \/ input[batches'[b].source].items[T(b, i)'.from + 1] = Sep
      OBVIOUS
    <3>1. CASE b \in 1 .. Last
      BY <3>1, <1>3, <2>5 DEF LinesWhole
    <3>2. CASE b = k
      BY <3>2, <2>4, <2>6, <2>7
    <3> QED
      BY <3>1, <3>2, <1>2
  <2> QED
    BY <1>1, <2>8 DEF LinesWhole, AtLine
<1>5. AllCounted'
  <2>1. \A s : \A p \in Nat : PassedAt(s, p)' <=> PassedAt(s, p)
    <3> TAKE s
    <3> TAKE p \in Nat
    <3>1. PassedAt(s, p) => PassedAt(s, p)'
      BY <1>1 DEF PassedAt, T
    <3>2. PassedAt(s, p)' => PassedAt(s, p)
      <4> SUFFICES ASSUME NEW b \in 1 .. k, NEW i \in Threads, batches'[b].source = s,
                          T(b, i)'.from <= p, p < T(b, i)'.pos
                   PROVE  PassedAt(s, p)
        BY <1>1 DEF PassedAt
      <4>1. CASE b \in 1 .. Last
        BY <4>1, <1>1 DEF PassedAt, T
      <4>2. CASE b = k
        BY <4>2, <1>1 DEF T
      <4> QED
        BY <4>1, <4>2, <1>2
    <3> QED
      BY <3>1, <3>2
  <2>2. \A s, p : FeaturesAt(s, p)' = FeaturesAt(s, p) /\ NumberAt(s, p)' = NumberAt(s, p)
    BY <1>1 DEF FeaturesAt, NumberAt
  <2>3. \A s, p : Cardinality(FeaturesAt(s, p))' = Cardinality(FeaturesAt(s, p))
    BY <2>2
  <2>4. \A r \in out : r.pos \in Nat
    BY Types DEF Safe
  <2>5. \A r \in out' : PassedAt(r.source, r.pos)'
    BY <1>1, <1>3, <2>1, <2>4 DEF AllCounted
  <2>6. \A s \in DOMAIN input' : \A p \in 0 .. Len(input'[s].items) - 1 :
          PassedAt(s, p)' => Cardinality(FeaturesAt(s, p))' = NumberAt(s, p)'
    BY <1>1, <1>3, <2>1, <2>2, <2>3 DEF AllCounted
  <2> QED
    BY <2>5, <2>6 DEF AllCounted
<1>6. EndedParsed'
  <2>1. \A b \in 1 .. k : batches'[b].pc # "parse" => AllParsed(b)'
    <3> SUFFICES ASSUME NEW b \in 1 .. k, batches'[b].pc # "parse"
                 PROVE  AllParsed(b)'
      OBVIOUS
    <3>1. b \in 1 .. Last /\ batches'[b] = batches[b]
      BY <1>1, <1>2
    <3> QED
      BY <3>1, <1>3 DEF EndedParsed, AllParsed
  <2> QED
    BY <1>1, <2>1 DEF EndedParsed
<1> QED
  BY <1>4, <1>5, <1>6, BeginsApart DEF Batched

-----------------------------------------------------------------------------
(***************************************************************************)
(* How far main has come                                                    *)
(***************************************************************************)
\* What main does in the middle of a source that leaves what is in no batch as it is.
Onward ==
    /\ SameParts /\ out' = out
    /\ main.pc # "open" /\ main'.pc # "open"
    /\ main'.source = main.source /\ main'.area = main.area
    /\ main'.pos - main'.ahead = main.pos - main.ahead
    /\ Kind \in {"map", "serial"} => (main.pc \in {"wait", "close"} <=> main'.pc \in {"wait", "close"})

LEMMA OnwardFronts ==
    ASSUME Fronts, Onward, main'.pc = "batch" => Items[main'.pos] = Sep, AllInBatches'
    PROVE  Fronts'
<1>1. Kind' = Kind /\ Items' = Items /\ input' = input
  BY DEF Onward, SameParts, Kind, Items
<1>2. Front' = Front
  BY <1>1 DEF Onward, Front
<1>3. FrontAtLine'
  BY <1>1, <1>2 DEF Fronts, FrontAtLine, Onward, AtLine
<1>4. \A s, p : InBatches(s, p)' <=> InBatches(s, p)
  BY PartsStay DEF Onward
<1>5. Covering'
  BY <1>1, <1>2, <1>4 DEF Fronts, Covering, Onward
<1>6. AreaSoFar'
  BY <1>1 DEF Fronts, AreaSoFar, Onward
<1> QED
  BY <1>3, <1>5, <1>6 DEF Fronts

LEMMA UnmovedParts ==
    ASSUME UNCHANGED <<input, batches, out>>
    PROVE  SameParts /\ out' = out
BY DEF SameParts, Last, T

LEMMA QueueFronts == Safe /\ Fronts /\ Queue => Fronts'
<1> SUFFICES ASSUME Safe, Fronts, Queue
             PROVE  Fronts'
  OBVIOUS
<1>1. main \in MainType /\ Kind \in Queued /\ Kind \notin {"map", "serial", "stream"}
  BY DEF Safe, TypeOK, Queue, Queued
<1>2. main.pos \in Nat /\ main.ahead \in Nat
  BY <1>1 DEF MainType
<1>3. /\ main'.pc \in {"read", "run"} /\ main'.source = main.source /\ main'.area = main.area
      /\ main'.pos = main.pos + 1 /\ main'.ahead = main.ahead + 1 /\ main.pc = "read"
  BY <1>1 DEF MainType, Queue
<1>4. Onward
  BY <1>1, <1>2, <1>3, UnmovedParts DEF Onward, Queue
<1>5. AllInBatches'
  BY <1>3 DEF AllInBatches
<1> QED
  BY <1>3, <1>4, <1>5, OnwardFronts

LEMMA LastOfQueueFronts == Safe /\ Fronts /\ LastOfQueue => Fronts'
<1> SUFFICES ASSUME Safe, Fronts, LastOfQueue
             PROVE  Fronts'
  OBVIOUS
<1>1. main \in MainType /\ Kind \in Queued /\ Kind \notin {"map", "serial", "stream"}
  BY DEF Safe, TypeOK, LastOfQueue, Queued
<1>2. main.pos \in Nat /\ main.ahead \in Nat /\ main.pos = Len(Items)
  BY <1>1 DEF MainType, LastOfQueue
<1>3. /\ main'.pc = IF main.ahead = 0 THEN "close" ELSE "run"
      /\ main'.source = main.source /\ main'.area = main.area
      /\ main'.pos = main.pos /\ main'.ahead = main.ahead /\ main.pc = "read"
  BY <1>1 DEF MainType, LastOfQueue
<1>4. Onward
  BY <1>1, <1>2, <1>3, UnmovedParts DEF Onward, LastOfQueue
<1>5. Kind' = Kind /\ Items' = Items
  BY <1>3 DEF Kind, Items, LastOfQueue
<1>6. AllInBatches'
  BY <1>1, <1>2, <1>3, <1>5 DEF AllInBatches, Front
<1> QED
  BY <1>3, <1>4, <1>6, OnwardFronts

LEMMA NewTempFronts == Safe /\ Fronts /\ NewTemp => Fronts'
<1> SUFFICES ASSUME Safe, Fronts, NewTemp
             PROVE  Fronts'
  OBVIOUS
<1>1. main \in MainType /\ Kind \notin {"map", "serial"}
  BY DEF Safe, TypeOK, MainThere, NewTemp
<1>2. \A d : LET n == [main EXCEPT !.pc = "read", !.temp = d]
             IN /\ n.pc = "read" /\ n.source = main.source /\ n.area = main.area
                /\ n.pos = main.pos /\ n.ahead = main.ahead
  BY <1>1 DEF MainType
<1>3. /\ main'.pc = "read" /\ main'.source = main.source /\ main'.area = main.area
      /\ main'.pos = main.pos /\ main'.ahead = main.ahead /\ main.pc = "temp"
  BY <1>2 DEF NewTemp
<1>4. Onward
  BY <1>1, <1>3, UnmovedParts DEF Onward, NewTemp
<1>5. AllInBatches'
  BY <1>3 DEF AllInBatches
<1> QED
  BY <1>3, <1>4, <1>5, OnwardFronts

LEMMA ReadChunkFronts == Safe /\ Fronts /\ ReadChunk => Fronts'
<1> SUFFICES ASSUME Safe, Fronts, ReadChunk
             PROVE  Fronts'
  OBVIOUS
<1>1. main \in MainType /\ Kind = "stream" /\ main.pc = "read" /\ TypeOK /\ MainThere
  BY DEF Safe, TypeOK, ReadChunk
<1>2. main.pos \in Nat /\ main.ahead \in Nat /\ Len(Items) \in Nat
  BY <1>1, Types DEF MainType, MainThere, Items
<1> DEFINE n == Lesser(ReadBuf, Len(Items) - main.pos)
           enough == Enough(main.pos + n, main.ahead + n)
<1>3. n \in Int
  BY <1>2, SizeAssumption DEF Lesser
<1>4. main' = [main EXCEPT !.pos = main.pos + n, !.ahead = main.ahead + n,
                           !.pc = IF enough THEN "batch" ELSE "read"]
  BY <1>1 DEF ReadChunk
<1>5. enough => Items[main.pos + n] = Sep
  BY DEF Enough
<1> HIDE DEF n, enough
<1>6. /\ main'.pc = IF enough THEN "batch" ELSE "read"
      /\ main'.source = main.source /\ main'.area = main.area
      /\ main'.pos = main.pos + n /\ main'.ahead = main.ahead + n
  BY <1>1, <1>4 DEF MainType
<1>7. Onward
  BY <1>1, <1>2, <1>3, <1>6, UnmovedParts DEF Onward, ReadChunk
<1>8. AllInBatches'
  BY <1>6 DEF AllInBatches
<1> QED
  BY <1>5, <1>6, <1>7, <1>8, OnwardFronts

LEMMA EndOfStreamFronts == Safe /\ Fronts /\ EndOfStream => Fronts'
<1> SUFFICES ASSUME Safe, Fronts, EndOfStream
             PROVE  Fronts'
  OBVIOUS
<1>1. main \in MainType /\ Kind = "stream"
  BY DEF Safe, TypeOK, EndOfStream
<1>2. /\ main'.pc = "drain" /\ main'.source = main.source /\ main'.area = main.area
      /\ main'.pos = main.pos /\ main'.ahead = main.ahead /\ main.pc = "read"
      /\ main.pos = Len(Items)
  BY <1>1 DEF MainType, EndOfStream
<1>3. Onward
  BY <1>1, <1>2, UnmovedParts DEF Onward, EndOfStream
<1>4. Items' = Items
  BY <1>2 DEF Items, EndOfStream
<1>5. AllInBatches'
  BY <1>2, <1>4 DEF AllInBatches
<1> QED
  BY <1>2, <1>3, <1>5, OnwardFronts

LEMMA ClosesFronts == Safe /\ Fronts /\ (NothingLeft \/ JoinLast) => Fronts'
<1> SUFFICES ASSUME Safe, Fronts, NothingLeft \/ JoinLast
             PROVE  Fronts'
  OBVIOUS
<1>1. main \in MainType /\ Kind = "stream"
  BY DEF Safe, TypeOK, MainThere, NothingLeft, JoinLast
<1>2. /\ main'.pc = "close" /\ main'.source = main.source /\ main'.area = main.area
      /\ main'.pos = main.pos /\ main'.ahead = main.ahead /\ main.pc \in {"drain", "last"}
  BY <1>1 DEF MainType, NothingLeft, JoinLast
<1>3. UNCHANGED <<input, batches, out>>
  BY DEF NothingLeft, JoinLast
<1>4. Onward
  BY <1>1, <1>2, <1>3, UnmovedParts DEF Onward
<1>5. Items' = Items /\ Kind' = Kind
  BY <1>2, <1>3 DEF Items, Kind
<1>6. main.pos - main.ahead = Len(Items)
  <2>1. CASE NothingLeft
    <3>1. main.pc = "drain" /\ main.ahead = 0 /\ main.pos \in Nat
      BY <2>1, <1>1 DEF NothingLeft, MainType
    <3>2. main.pos = Len(Items)
      BY <3>1 DEF Fronts, AllInBatches
    <3> QED
      BY <3>1, <3>2
  <2>2. CASE JoinLast
    BY <2>2, <1>1 DEF JoinLast, Fronts, AllInBatches, Front
  <2> QED
    BY <2>1, <2>2
<1>7. AllInBatches'
  BY <1>1, <1>2, <1>5, <1>6 DEF AllInBatches, Front
<1> QED
  BY <1>2, <1>4, <1>7, OnwardFronts

LEMMA JoinThreadsFronts == Safe /\ Fronts /\ JoinThreads => Fronts'
<1> SUFFICES ASSUME Safe, Fronts, JoinThreads
             PROVE  Fronts'
  OBVIOUS
<1>1. main \in MainType /\ TypeOK /\ MainThere /\ Kind # "stream" /\ main.pc = "wait"
      /\ LastIsCurrent
  BY DEF Safe, TypeOK, MainThere, JoinThreads
<1>2. \A o : LET n == [main EXCEPT
                          !.pc = IF Kind \in Queued /\ main.pos < Len(Items) THEN "read" ELSE "close",
                          !.offset = o]
             IN /\ n.pc = IF Kind \in Queued /\ main.pos < Len(Items) THEN "read" ELSE "close"
                /\ n.source = main.source /\ n.area = main.area
                /\ n.pos = main.pos /\ n.ahead = main.ahead
  BY <1>1 DEF MainType
<1>3. /\ main'.pc = IF Kind \in Queued /\ main.pos < Len(Items) THEN "read" ELSE "close"
      /\ main'.source = main.source /\ main'.area = main.area
      /\ main'.pos = main.pos /\ main'.ahead = main.ahead
  BY <1>2 DEF JoinThreads
<1>4. SameParts /\ out' = out
  <2>1. Last \in 1 .. Last
    BY <1>1, Types DEF LastIsCurrent
  <2>2. \A b \in 1 .. Last : batches' = [batches EXCEPT ![b].pc = "ended"] => EndsBatch(b, "ended")
    BY <1>1, Ended
  <2>3. EndsBatch(Last, "ended")
    BY <2>1, <2>2 DEF JoinThreads
  <2> QED
    BY <2>3, EndsNone DEF JoinThreads, NoneParsed
<1>5. Onward
  BY <1>1, <1>3, <1>4 DEF Onward, Queued
<1>6. Items' = Items /\ Kind' = Kind
  BY <1>3 DEF Items, Kind, JoinThreads
<1>7. Kind \in Queued => main.ahead = 0
  BY <1>1 DEF Fronts, AllInBatches
<1>8. main.pos \in Nat /\ main.pos <= Len(Items) /\ Len(Items) \in Nat
  BY <1>1, Types DEF MainThere, MainType, Items
<1>9. Kind \in Queued \/ Kind \in {"map", "serial"}
  <2>1. input[main.source] \in Source
    BY <1>1, Types DEF MainThere
  <2> QED
    BY <2>1, <1>1 DEF Source, Kind, Queued, MainThere
<1>10. AllInBatches'
  <2>1. main'.pc = "close" => Front' = Len(Items)
    BY <1>3, <1>6, <1>7, <1>8, <1>9 DEF Front, Queued
  <2> QED
    BY <1>3, <1>6, <2>1 DEF AllInBatches
<1> QED
  BY <1>3, <1>5, <1>10, OnwardFronts

\* A source with features is one that main has come to, and was opened.
LEMMA FromSource ==
    ASSUME Safe, AllCounted, NEW r \in out
    PROVE  /\ r.source \in DOMAIN input /\ r.source <= main.source
           /\ input[r.source].kind # "missing"
           /\ main.pc = "open" => r.source < main.source
BY DEF Safe, AllCounted, PassedAt, ThreadsInside, KindOf

LEMMA OpenSourceFronts == Safe /\ Fronts /\ OpenSource => Fronts'
<1> SUFFICES ASSUME Safe, Fronts, OpenSource
             PROVE  Fronts'
  OBVIOUS
<1>1. main \in MainType /\ main.pc = "open"
  BY DEF Safe, TypeOK, OpenSource
<1>2. PICK d \in Descriptors :
        main' = [main EXCEPT !.pc = IF Kind = "stream" THEN "temp" ELSE "read",
                             !.fd = d, !.pos = 0, !.ahead = 0, !.created = FALSE]
  BY DEF OpenSource
<1>3. /\ main'.pc \in {"temp", "read"} /\ main'.source = main.source /\ main'.area = main.area
      /\ main'.pos = 0 /\ main'.ahead = 0
  BY <1>1, <1>2 DEF MainType
<1>4. UNCHANGED <<input, batches, out>>
  BY DEF OpenSource
<1>5. Front' = 0
  BY <1>3 DEF Front
<1>6. FrontAtLine' /\ AllInBatches'
  BY <1>3, <1>5 DEF FrontAtLine, AllInBatches, AtLine
<1>7. \A s, p : InBatches(s, p)' <=> InBatches(s, p)
  BY <1>4, UnmovedParts, PartsStay
<1>8. Covering'
  BY <1>1, <1>3, <1>4, <1>5, <1>7 DEF Fronts, Covering
<1>9. AreaSoFar'
  BY <1>3, <1>4 DEF Fronts, AreaSoFar
<1> QED
  BY <1>6, <1>8, <1>9 DEF Fronts

LEMMA PassOverFronts == Safe /\ AllCounted /\ Fronts /\ PassOver => Fronts'
<1> SUFFICES ASSUME Safe, AllCounted, Fronts, PassOver
             PROVE  Fronts'
  OBVIOUS
<1>1. main \in MainType /\ main.pc = "open" /\ input[main.source].kind = "missing"
      /\ TypeOK
  BY DEF Safe, TypeOK, PassOver, Kind
<1>2. main'.pc = "open" /\ main'.source = main.source + 1 /\ main'.area = main.area
      /\ main.source \in Nat
  BY <1>1 DEF MainType, PassOver
<1>3. UNCHANGED <<input, batches, out>>
  BY DEF PassOver
<1>4. FrontAtLine' /\ AllInBatches'
  BY <1>2 DEF FrontAtLine, AllInBatches
<1>5. \A s, p : InBatches(s, p)' <=> InBatches(s, p)
  BY <1>3, UnmovedParts, PartsStay
<1>6. \A s \in DOMAIN input : s < main.source + 1 => s < main.source \/ s = main.source
  BY <1>1, <1>2, Types
<1>7. Covering'
  BY <1>1, <1>2, <1>3, <1>5, <1>6 DEF Fronts, Covering
<1>8. {r \in out : r.source < main.source + 1} = {r \in out : r.source < main.source}
  <2>1. \A r \in out : r.source < main.source /\ r.source \in Nat
    BY <1>1, FromSource, Types
  <2> QED
    BY <1>2, <2>1
<1>9. AreaSoFar'
  BY <1>2, <1>3, <1>8 DEF Fronts, AreaSoFar
<1> QED
  BY <1>4, <1>7, <1>9 DEF Fronts

LEMMA CloseSourceFronts == Safe /\ AllCounted /\ Fronts /\ CloseSource => Fronts'
<1> SUFFICES ASSUME Safe, AllCounted, Fronts, CloseSource
             PROVE  Fronts'
  OBVIOUS
<1>1. main \in MainType /\ main.pc = "close" /\ TypeOK /\ IsFiniteSet(out)
  BY DEF Safe, TypeOK, CloseSource
<1>2. main.source \in Nat
  BY <1>1 DEF MainType
<1>3. main'.pc = "open" /\ main'.source = main.source + 1 /\ main'.area = AreaSum
  <2>1. \A a : LET n == [main EXCEPT !.pc = "open", !.source = @ + 1, !.area = a]
               IN n.pc = "open" /\ n.source = main.source + 1 /\ n.area = a
    BY <1>1 DEF MainType
  <2> QED
    BY <2>1 DEF CloseSource
<1>4. UNCHANGED <<input, batches, out>>
  BY DEF CloseSource
<1>5. FrontAtLine' /\ AllInBatches'
  BY <1>3 DEF FrontAtLine, AllInBatches
<1>6. \A s, p : InBatches(s, p)' <=> InBatches(s, p)
  BY <1>4, UnmovedParts, PartsStay
<1>7. Covering'
  <2>1. Front = Len(Items)
    BY <1>1 DEF Fronts, AllInBatches
  <2>2. \A s \in DOMAIN input : \A p \in 0 .. Len(input[s].items) - 1 :
          input[s].kind # "missing" /\ s < main.source + 1 => InBatches(s, p)
    <3> SUFFICES ASSUME NEW s \in DOMAIN input, NEW p \in 0 .. Len(input[s].items) - 1,
                        input[s].kind # "missing", s < main.source + 1
                 PROVE  InBatches(s, p)
      OBVIOUS
    <3>1. CASE s < main.source
      BY <3>1 DEF Fronts, Covering
    <3>2. CASE s = main.source
      <4>1. p < Front
        <5>1. Len(input[s].items) \in Nat
          BY <1>1, Types
        <5> QED
          BY <5>1, <2>1, <3>2 DEF Items
      <4> QED
        BY <4>1, <3>2, <1>1 DEF Fronts, Covering
    <3> QED
      BY <3>1, <3>2, <1>1, <1>2, Types
  <2> QED
    BY <1>3, <1>4, <1>6, <2>2 DEF Covering
<1>8. AreaSoFar'
  <2> SUFFICES ASSUME \A s \in DOMAIN input : input[s].kind # "fgb"
               PROVE  AreaSum = Cardinality({r \in out : r.source < main.source + 1})
    BY <1>3, <1>4 DEF AreaSoFar
  <2> DEFINE A == {r \in out : r.source < main.source}
             B == {r \in out : r.source = main.source}
  <2>1. IsFiniteSet(A) /\ IsFiniteSet(B)
    BY <1>1, FS_Subset
  <2>2. A \cap B = {} /\ A \cup B = {r \in out : r.source < main.source + 1}
    BY <1>1, <1>2, Types
  <2>3. UNION {Here(i) : i \in Threads} = B
    BY <1>1, Types DEF Here
  <2>4. AreaSum = main.area + Cardinality(B)
    <3>1. Kind # "fgb"
      BY <1>1 DEF Safe, MainThere, Kind
    <3> QED
      BY <2>3, <3>1 DEF AreaSum
  <2>5. main.area = Cardinality(A)
    BY DEF Fronts, AreaSoFar
  <2> HIDE DEF A, B
  <2>6. Cardinality(A) \in Nat /\ Cardinality(B) \in Nat /\ Cardinality({}) = 0
    BY <2>1, FS_CardinalityType, FS_EmptySet
  <2>7. Cardinality(A \cup B) = Cardinality(A) + Cardinality(B) - Cardinality(A \cap B)
    BY <2>1, FS_Union
  <2>8. Cardinality(A \cup B) = Cardinality(A) + Cardinality(B)
    <3>1. Cardinality(A \cap B) = 0
      BY <2>2, <2>6
    <3> QED
      BY <2>6, <2>7, <3>1
  <2> QED
    BY <2>2, <2>4, <2>5, <2>8
<1> QED
  BY <1>5, <1>7, <1>8 DEF Fronts

LEMMA BeginsFronts ==
    ASSUME Safe, Fronts, NEW nb, NEW from, NEW to, NEW fd, Begins(nb, from, to, fd),
           Covers(nb, from, to), main'.area = main.area,
           Kind = "stream" => to = Len(Items) \/ (main.pc = "batch" /\ to = main.pos),
           main'.pc = "last" => to = Len(Items),
           Kind \in {"map", "serial"} => from = 0 /\ to = Len(Items)
    PROVE  Fronts'
<1>1. /\ Last \in Nat /\ Last' = Last + 1 /\ input' = input /\ out' = out
      /\ \A b \in 1 .. Last : batches'[b] = batches[b]
      /\ batches'[Last + 1] = nb /\ nb.source = main.source
      /\ from \in Nat /\ to \in Nat
  BY BeginsParts
<1>2. /\ main.pc # "open" /\ main'.source = main.source /\ main'.pos = main.pos
      /\ from = main.pos - main.ahead /\ to <= Len(Items)
      /\ main'.pc \in {"temp", "last", "wait"}
      /\ Kind = "stream" => main'.pc \in {"temp", "last"}
      /\ Kind # "stream" => main'.pc = "wait"
      /\ Kind \notin {"map", "serial"} => to = main.pos /\ main'.ahead = 0
      /\ Kind \in {"map", "serial"} => main.pc = "read" /\ main'.ahead = main.ahead
  BY DEF Begins
<1>3. Items' = Items /\ Kind' = Kind
  BY <1>1, <1>2 DEF Items, Kind
<1>4. Front = IF Kind \in {"map", "serial"} THEN 0 ELSE from
  BY <1>2 DEF Front
<1>5. Front' = IF Kind \in {"map", "serial"} THEN Len(Items) ELSE to
  BY <1>1, <1>2, <1>3 DEF Front
<1>6. FrontAtLine'
  BY <1>2, <1>3, <1>5 DEF Fronts, FrontAtLine, AtLine
<1>7. AllInBatches'
  BY <1>2, <1>3, <1>5 DEF AllInBatches, Queued
<1>8. \A s, p : InBatches(s, p) => InBatches(s, p)'
  BY <1>1 DEF InBatches, Has, T
<1>9. \A s : \A p \in from .. to - 1 : s = main.source => InBatches(s, p)'
  <2> SUFFICES ASSUME NEW s, NEW p \in from .. to - 1, s = main.source
               PROVE  InBatches(s, p)'
    OBVIOUS
  <2>1. PICK i \in Threads : nb.thread[i].from <= p /\ p < nb.thread[i].end
    BY DEF Covers
  <2>2. PICK k \in 1 .. Last' : k = Last + 1
    BY <1>1
  <2>3. batches'[k] = nb
    BY <1>1, <2>2
  <2> QED
    BY <1>1, <2>1, <2>3 DEF InBatches, Has, T
<1>10. Covering'
  <2> SUFFICES ASSUME NEW s \in DOMAIN input, NEW p \in 0 .. Len(input[s].items) - 1,
                      input[s].kind # "missing",
                      s < main.source \/ (s = main.source /\ p < Front')
               PROVE  InBatches(s, p)'
    BY <1>1, <1>2 DEF Covering
  <2>1. CASE s < main.source \/ (s = main.source /\ p < Front)
    BY <2>1, <1>2, <1>8 DEF Fronts, Covering
  <2>2. CASE s = main.source /\ ~ (p < Front) /\ p < Front'
    <3>1. Len(input[s].items) \in Nat /\ Items = input[s].items
      BY <2>2, Types DEF Safe, Items
    <3>2. CASE Kind \notin {"map", "serial"}
      BY <2>2, <3>1, <3>2, <1>1, <1>4, <1>5, <1>9
    <3>3. CASE Kind \in {"map", "serial"} /\ to = Len(Items)
      BY <2>2, <3>1, <3>3, <1>1, <1>4, <1>5, <1>9
    <3> QED
      BY <3>2, <3>3
  <2> QED
    BY <2>1, <2>2
<1>11. AreaSoFar'
  BY <1>1, <1>2 DEF Fronts, AreaSoFar
<1> QED
  BY <1>6, <1>7, <1>10, <1>11 DEF Fronts

-----------------------------------------------------------------------------
(***************************************************************************)
(* Every step                                                               *)
(***************************************************************************)
LEMMA MappedCounted == Safe /\ Counted /\ ReadMapped => Counted'
<1> SUFFICES ASSUME Safe, Batched, Fronts, ReadMapped
             PROVE  Batched' /\ Fronts'
  BY DEF Counted, Fronts
<1> DEFINE nb == TextBatch(0, Len(Items), main.offset, 0)
<1>1. Begins(nb, 0, Len(Items), 0)
  BY ReadMappedBegins
<1>2. main \in MainType /\ Kind = "map" /\ Len(Items) \in Nat
  BY <1>1 DEF Safe, TypeOK, ReadMapped, Begins
<1>3. main'.pc = "wait" /\ main'.area = main.area
  <2>1. main'.pc = "wait"
    BY <1>1, <1>2 DEF Begins
  <2>2. \A o : [main EXCEPT !.pc = "wait", !.offset = o].area = main.area
    BY <1>2 DEF MainType
  <2> QED
    BY <2>1, <2>2 DEF ReadMapped
<1>4. Covers(nb, 0, Len(Items)) /\ CutAtLines(nb, 0)
  <2>1. 0 \in Nat /\ 0 + Len(Items) = Len(Items)
    BY <1>2
  <2>2. Covers(nb, 0, 0 + Len(Items)) /\ CutAtLines(nb, 0)
    BY <1>2, <2>1, TextCovers
  <2> QED
    BY <2>1, <2>2
<1> HIDE DEF nb
<1>5. Batched'
  BY <1>1, <1>4, BeginsBatched DEF Fronts
<1>6. Fronts'
  BY <1>1, <1>2, <1>3, <1>4, BeginsFronts
<1> QED
  BY <1>5, <1>6

LEMMA SeriallyCounted == Safe /\ Counted /\ ReadSerially => Counted'
<1> SUFFICES ASSUME Safe, Batched, Fronts, ReadSerially
             PROVE  Batched' /\ Fronts'
  BY DEF Counted, Fronts
<1> DEFINE nb == SerialBatch
<1>1. Begins(nb, 0, Len(Items), 0)
  BY ReadSeriallyBegins
<1>2. main \in MainType /\ Kind = "serial" /\ Len(Items) \in Nat
  BY <1>1 DEF Safe, TypeOK, ReadSerially, Begins
<1>3. main'.pc = "wait" /\ main'.area = main.area
  BY <1>2 DEF ReadSerially, MainType
<1>4. Covers(nb, 0, Len(Items)) /\ CutAtLines(nb, 0)
  BY <1>2, SerialCovers
<1> HIDE DEF nb
<1>5. Batched'
  BY <1>1, <1>4, BeginsBatched DEF Fronts
<1>6. Fronts'
  BY <1>1, <1>2, <1>3, <1>4, BeginsFronts
<1> QED
  BY <1>5, <1>6

LEMMA RunQueueCounted == Safe /\ Counted /\ RunQueue => Counted'
<1> SUFFICES ASSUME Safe, Batched, Fronts, RunQueue
             PROVE  Batched' /\ Fronts'
  BY DEF Counted, Fronts
<1> DEFINE from == main.pos - main.ahead
           nb == QueueBatch(from, main.ahead, main.offset)
<1>1. Begins(nb, from, main.pos, 0)
  BY RunQueueBegins
<1>2. main \in MainType /\ Kind \in Queued /\ from \in Nat
  BY <1>1 DEF Safe, TypeOK, MainThere, RunQueue, Begins
<1>3. main.pos \in Nat /\ main.ahead \in Nat /\ from + main.ahead = main.pos
  BY <1>2 DEF MainType
<1>4. main'.pc = "wait" /\ main'.area = main.area
  BY <1>2 DEF RunQueue, MainType
<1>5. Covers(nb, from, main.pos) /\ CutAtLines(nb, from)
  <2>1. Covers(nb, from, from + main.ahead) /\ CutAtLines(nb, from)
    BY <1>2, <1>3, QueueCovers
  <2> QED
    BY <1>3, <2>1
<1> HIDE DEF nb, from
<1>6. Batched'
  BY <1>1, <1>5, BeginsBatched DEF Fronts
<1>7. Fronts'
  BY <1>1, <1>2, <1>4, <1>5, BeginsFronts DEF Queued
<1> QED
  BY <1>6, <1>7

LEMMA StartCounted ==
    ASSUME Safe, Counted, NEW next \in {"temp", "last"}, StartParsing(next), Joined,
           IF next = "temp" THEN main.pc = "batch" ELSE main.pc = "drain"
    PROVE  Counted'
<1> SUFFICES Batched' /\ Fronts'
  BY DEF Counted, Fronts
<1> DEFINE from == main.pos - main.ahead
           nb == TextBatch(from, main.ahead, main.offset, main.temp)
<1>1. Begins(nb, from, main.pos, main.temp)
  BY StartParsingBegins
<1>2. main \in MainType /\ Kind = "stream" /\ from \in Nat /\ Batched /\ Fronts
  BY <1>1 DEF Safe, TypeOK, MainThere, Begins, Counted, Fronts
<1>3. main.pos \in Nat /\ main.ahead \in Nat /\ from + main.ahead = main.pos
  BY <1>2 DEF MainType
<1>4. main'.pc = next /\ main'.area = main.area
  <2>1. \A o, a : LET n == [main EXCEPT !.pc = next, !.offset = o, !.ahead = 0, !.created = TRUE]
                  IN n.pc = next /\ n.area = main.area
    BY <1>2 DEF MainType
  <2> QED
    BY <2>1 DEF StartParsing
<1>5. Covers(nb, from, main.pos) /\ CutAtLines(nb, from)
  <2>1. Covers(nb, from, from + main.ahead) /\ CutAtLines(nb, from)
    BY <1>2, <1>3, TextCovers
  <2> QED
    BY <1>3, <2>1
<1>6. next = "last" => main.pos = Len(Items)
  BY <1>2 DEF Fronts, AllInBatches
<1> HIDE DEF nb, from
<1>7. Batched'
  BY <1>1, <1>2, <1>5, BeginsBatched DEF Fronts
<1>8. Fronts'
  BY <1>1, <1>2, <1>4, <1>5, <1>6, BeginsFronts
<1> QED
  BY <1>7, <1>8

\* While the threads go on, main stays where it is.
LEMMA MainStays ==
    ASSUME Fronts, SameParts, main' = main
    PROVE  FrontAtLine' /\ AllInBatches' /\ Covering'
<1>1. input' = input /\ Kind' = Kind /\ Items' = Items /\ Front' = Front
  BY DEF SameParts, Kind, Items, Front
<1>2. \A s, p : InBatches(s, p)' <=> InBatches(s, p)
  BY PartsStay
<1>3. FrontAtLine' /\ AllInBatches'
  BY <1>1 DEF Fronts, FrontAtLine, AllInBatches, AtLine
<1>4. Covering'
  BY <1>1, <1>2 DEF Fronts, Covering
<1> QED
  BY <1>3, <1>4

LEMMA EndsCounted ==
    ASSUME Safe, Counted, NEW b \in 1 .. Last, CloseTemp(b) \/ EndParsing(b)
    PROVE  Counted'
<1>1. TypeOK /\ Batched /\ Fronts
  BY DEF Safe, Counted, Fronts
<1>2. UNCHANGED <<input, main, out>>
  BY DEF CloseTemp, EndParsing
<1>3. AllParsed(b)
  BY <1>1 DEF CloseTemp, EndParsing, Batched, EndedParsed
<1>4. EndsBatch(b, "closed") \/ EndsBatch(b, "ended")
  BY <1>1, Ended DEF CloseTemp, EndParsing
<1>5. Batched' /\ SameParts
  BY <1>1, <1>2, <1>3, <1>4, EndsBatched, EndsNone DEF NoneParsed
<1>6. AreaSoFar'
  BY <1>1, <1>2 DEF Fronts, AreaSoFar
<1> QED
  BY <1>1, <1>2, <1>5, <1>6, MainStays DEF Counted, Fronts

LEMMA ParseCounted ==
    ASSUME Safe, Counted, NEW b \in 1 .. Last, NEW i \in Threads, Parse(b, i)
    PROVE  Counted'
<1>1. TypeOK /\ Batched /\ Fronts /\ OnlyLast /\ LastIsCurrent /\ MainThere /\ Last \in Nat
  BY Types DEF Safe, Counted, Fronts
<1>2. /\ Number(b, i) \in Nat /\ GetsPast(b, i, Number(b, i)) /\ batches[b].pc = "parse"
      /\ out' = out \cup NewFeatures(b, i) /\ input' = input /\ main' = main
  BY ParseDoes
<1>3. SameParts
  BY <1>2 DEF SameParts, GetsPast
<1>4. Batched'
  BY <1>1, ParseBatched
<1>5. batches[b].source = main.source
  <2>1. b = Last /\ ~ Idle
    BY <1>1, <1>2 DEF OnlyLast
  <2>2. main.pc # "open" /\ (main.pc = "wait" \/ main.created)
    BY <1>1, <2>1 DEF Idle, MainThere, TypeOK, MainType
  <2> QED
    BY <1>1, <2>1, <2>2 DEF LastIsCurrent
<1>6. {r \in out' : r.source < main.source} = {r \in out : r.source < main.source}
  <2>1. \A r \in NewFeatures(b, i) : r.source = main.source
    BY <1>1, <1>2, <1>5, NewFeaturesTyped
  <2>2. main.source \in Nat
    BY <1>1 DEF TypeOK, MainType
  <2> QED
    BY <1>2, <2>1, <2>2
<1>7. AreaSoFar'
  BY <1>1, <1>2, <1>6 DEF Fronts, AreaSoFar
<1> QED
  BY <1>1, <1>2, <1>3, <1>4, <1>7, MainStays DEF Counted, Fronts

LEMMA MovesCounted ==
    ASSUME Safe, Counted,
           \/ OpenSource \/ PassOver \/ CloseSource \/ Queue \/ LastOfQueue
           \/ NewTemp \/ ReadChunk \/ EndOfStream \/ NothingLeft \/ JoinLast
    PROVE  Counted'
<1>1. Batched /\ AllCounted /\ Fronts
  BY DEF Counted, Batched, Fronts
<1>2. UNCHANGED <<input, batches, out>>
  BY DEF OpenSource, PassOver, CloseSource, Queue, LastOfQueue, NewTemp, ReadChunk,
         EndOfStream, NothingLeft, JoinLast
<1>3. Batched'
  BY <1>1, <1>2, MovesBatched
<1>4. Fronts'
  BY <1>1, OpenSourceFronts, PassOverFronts, CloseSourceFronts, QueueFronts, LastOfQueueFronts,
     NewTempFronts, ReadChunkFronts, EndOfStreamFronts, ClosesFronts
<1> QED
  BY <1>3, <1>4 DEF Counted, Fronts

LEMMA JoinThreadsCounted == Safe /\ Counted /\ JoinThreads => Counted'
<1> SUFFICES ASSUME Safe, Counted, JoinThreads
             PROVE  Counted'
  OBVIOUS
<1>1. TypeOK /\ LastIsCurrent /\ Batched /\ Fronts
  BY DEF Safe, Counted, Fronts
<1>2. PICK b \in 1 .. Last : b = Last
  BY <1>1, Types DEF LastIsCurrent, JoinThreads
<1>3. EndsBatch(b, "ended") /\ AllParsed(b) /\ UNCHANGED <<input, out>>
  BY <1>1, <1>2, Ended DEF JoinThreads
<1>4. Batched'
  BY <1>1, <1>3, EndsBatched
<1>5. Fronts'
  BY <1>1, JoinThreadsFronts
<1> QED
  BY <1>4, <1>5 DEF Counted, Fronts

LEMMA StepCounted == Safe /\ Counted /\ [Next]_vars => Counted'
<1> SUFFICES ASSUME Safe, Counted, [Next]_vars
             PROVE  Counted'
  OBVIOUS
<1>1. CASE \/ OpenSource \/ PassOver \/ CloseSource \/ Queue \/ LastOfQueue
           \/ NewTemp \/ ReadChunk \/ EndOfStream \/ NothingLeft \/ JoinLast
  BY <1>1, MovesCounted
<1>2. CASE ReadMapped \/ ReadSerially \/ RunQueue \/ JoinThreads
  BY <1>2, MappedCounted, SeriallyCounted, RunQueueCounted, JoinThreadsCounted
<1>3. CASE StartBatch
  BY <1>3, StartCounted DEF StartBatch
<1>4. CASE StartLast
  BY <1>4, StartCounted DEF StartLast
<1>5. CASE \E b \in 1 .. Last : CloseTemp(b) \/ EndParsing(b) \/ \E i \in Threads : Parse(b, i)
  BY <1>5, EndsCounted, ParseCounted
<1>6. CASE UNCHANGED vars
  <2>1. UNCHANGED <<input, batches, out>> /\ main' = main
    BY <1>6 DEF vars
  <2>2. Batched' /\ SameParts
    BY <2>1, MovesBatched, UnmovedParts DEF Counted
  <2>3. FrontAtLine' /\ AllInBatches' /\ Covering'
    BY <2>1, <2>2, MainStays DEF Counted, Fronts
  <2> QED
    BY <2>1, <2>2, <2>3 DEF Counted, Fronts, AreaSoFar
<1>7. Over => UNCHANGED vars
  BY DEF Over
<1> QED
  BY <1>1, <1>2, <1>3, <1>4, <1>5, <1>6, <1>7 DEF Next, MainStep

LEMMA InitCounted == Init => Counted
<1> SUFFICES ASSUME Init
             PROVE  Counted
  OBVIOUS
<1>1. /\ batches = <<>> /\ out = {} /\ input \in Inputs
      /\ main.pc = "open" /\ main.source = 1 /\ main.area = 0
  BY DEF Init
<1>2. Last = 0 /\ \A s \in DOMAIN input : s \in Nat \ {0}
  BY <1>1, Types, InitSafe DEF Last, Safe
<1>3. Batched
  BY <1>1, <1>2 DEF Batched, PartsApart, LinesWhole, AllCounted, PassedAt, EndedParsed
<1>4. FrontAtLine /\ AllInBatches
  BY <1>1 DEF FrontAtLine, AllInBatches
<1>5. Covering
  BY <1>1, <1>2 DEF Covering
<1>6. AreaSoFar
  <2>1. {r \in out : r.source < main.source} = {}
    BY <1>1
  <2> QED
    BY <1>1, <2>1, FS_EmptySet DEF AreaSoFar
<1> QED
  BY <1>3, <1>4, <1>5, <1>6 DEF Counted, Fronts

\* When main is done with the last source, all that is in batches has been parsed.
LEMMA CountedOnce == Safe /\ Counted => EachOnce
<1> SUFFICES ASSUME Safe, Counted, Done
             PROVE  /\ \A s \in DOMAIN input : \A p \in DOMAIN input[s].items :
                        Cardinality({r \in out : r.source = s /\ r.pos = p - 1}) =
                        IF input[s].kind = "missing" \/ input[s].items[p] = Sep
                        THEN 0 ELSE input[s].items[p]
                    /\ (\A s \in DOMAIN input : input[s].kind # "fgb") =>
                        main.area = Cardinality(out)
  BY DEF EachOnce, ParsedOnce, AreaTotal
<1>1. TypeOK /\ AllCounted /\ EndedParsed /\ Covering /\ AreaSoFar /\ OnlyLast /\ ThreadsInside
  BY DEF Safe, Counted, Batched, Fronts
<1>2. main.pc = "open" /\ main.source > Len(input) /\ main.source \in Nat /\ Len(input) \in Nat
      /\ DOMAIN input = 1 .. Len(input)
  BY <1>1, LenProperties DEF Done, TypeOK, MainType
<1>3. \A b \in 1 .. Last : \A i \in Threads : T(b, i).pos = T(b, i).end
  BY <1>1, <1>2 DEF OnlyLast, Idle, EndedParsed, AllParsed, T
<1>4. ASSUME NEW s \in DOMAIN input, NEW p \in DOMAIN input[s].items
      PROVE  Cardinality({r \in out : r.source = s /\ r.pos = p - 1}) =
             IF input[s].kind = "missing" \/ input[s].items[p] = Sep
             THEN 0 ELSE input[s].items[p]
  <2>1. /\ p \in 1 .. Len(input[s].items) /\ Len(input[s].items) \in Nat
        /\ p - 1 \in 0 .. Len(input[s].items) - 1 /\ (p - 1) + 1 = p
    BY <1>1, Types, LenProperties
  <2>2. CASE input[s].kind = "missing"
    <3>1. {r \in out : r.source = s /\ r.pos = p - 1} = {}
      BY <2>2, <1>1, FromSource
    <3> QED
      BY <2>2, <3>1, FS_EmptySet
  <2>3. CASE input[s].kind # "missing"
    <3>1. InBatches(s, p - 1)
      BY <2>1, <2>3, <1>1, <1>2 DEF Covering
    <3>2. PassedAt(s, p - 1)
      BY <3>1, <1>3 DEF InBatches, Has, PassedAt
    <3>3. Cardinality(FeaturesAt(s, p - 1)) = NumberAt(s, p - 1)
      BY <2>1, <3>2, <1>1 DEF AllCounted
    <3> QED
      BY <2>1, <2>3, <3>3 DEF FeaturesAt, NumberAt
  <2> QED
    BY <2>2, <2>3
<1>5. {r \in out : r.source < main.source} = out
  BY <1>1, <1>2, FromSource
<1> QED
  BY <1>1, <1>4, <1>5 DEF AreaSoFar

\* main.cpp, read_input(): when all the sources have been read, every feature of every
\* source that can be opened has been parsed, and parsed once, wherever the source was
\* cut and whichever threads parsed the parts.
THEOREM ParsesOnce == Spec => []EachOnce
<1>1. Init => Safe /\ Counted
  BY InitSafe, InitCounted
<1>2. Safe /\ Counted /\ [Next]_vars => (Safe /\ Counted)'
  BY StepSafe, StepCounted
<1>3. Safe /\ Counted => EachOnce
  BY CountedOnce
<1> QED
  BY <1>1, <1>2, <1>3, PTL DEF Spec
=============================================================================
