------------------------------ MODULE ReadInput ------------------------------
(***************************************************************************)
(* How read_input() reads its sources: which thread parses what, and which   *)
(* sequence number each feature gets.                                       *)
(*                                                                         *)
(* A source is read in one of four ways.  A mapped file is cut up at its    *)
(* separators and parsed by one thread per CPU.  A stream is copied into a  *)
(* temporary file, and when enough has been copied an intermediate thread   *)
(* has that parsed in the same way while the stream is copied on into the   *)
(* next temporary file.  Binary formats queue features and have each full   *)
(* queue parsed by a thread per CPU.  Anything else is parsed serially.     *)
(*                                                                         *)
(* Each thread of a batch has its own reader (geometry and index files), so *)
(* nothing is locked; and its own sequence, begun so high that the threads  *)
(* before it cannot reach it.                                               *)
(***************************************************************************)
EXTENDS Integers, Sequences, FiniteSets

CONSTANTS
    Inputs,         \* sequences of sources, see Source
    CPUS,           \* CPUS
    ReadBuf,        \* READ_BUF
    ParseMin,       \* PARSE_MIN
    ParseMax,       \* PARSE_MAX
    QueueMax        \* CPUS * 500

\* What a source is made of: bytes, or queued features.  A separator, or the number
\* of features that are serialized when the thread comes to the item: the last byte
\* of a feature, say.  A feature that is clipped away is serialized 0 times.
Sep == -1
Source == [kind : {"stream", "map", "fgb", "geobuf", "serial", "missing"},
           items : Seq(Nat \cup {Sep})]
Queued == {"fgb", "geobuf"}

ASSUME InputAssumption ==
    /\ Inputs \subseteq Seq(Source)
    /\ \A input \in Inputs : \A s \in DOMAIN input :
        input[s].kind \in {"stream", "map"} => input[s].items \in Seq({Sep, 0, 1})

ASSUME SizeAssumption ==
    /\ {CPUS, ReadBuf, ParseMin, QueueMax} \subseteq Nat \ {0}
    /\ ParseMax \in Nat /\ ParseMax > ParseMin
-----------------------------------------------------------------------------
VARIABLES
    input,      \* sources
    main,       \* the locals of read_input()
    batches,    \* the batches parsed so far, each with its threads
    isParsing,  \* is_parsing
    fds,        \* the file descriptors open for reading
    out         \* what the readers have: where each feature comes from, and its seq

vars == <<input, main, batches, isParsing, fds, out>>

Threads == 0 .. CPUS - 1
Items   == input[main.source].items
Kind    == input[main.source].kind
Here(i) == {r \in out : r.source = main.source /\ r.reader = i}
Lesser(a, b) == IF a < b THEN a ELSE b

\* open() and mkstemp() give the lowest descriptor that is free.
Descriptors == 1 .. 4
LowestFree(d) == d \notin fds /\ \A e \in Descriptors : e < d => e \in fds

Init ==
    /\ input \in Inputs
    /\ main = [pc |-> "open", source |-> 1, pos |-> 0, offset |-> 0, ahead |-> 0, area |-> 0,
               fd |-> 0, temp |-> 0, created |-> FALSE]
    /\ batches = <<>>
    /\ isParsing = FALSE
    /\ fds = {}
    /\ out = {}

(***************************************************************************)
(* Batches                                                                 *)
(***************************************************************************)
\* do_read_parallel(): where thread i begins, by items read
Cut(items, from, len, i) ==
    LET end  == from + len
        even == from + (len * i) \div CPUS
        seps == {p \in even .. end - 1 : items[p + 1] = Sep}
    IN IF i = 0 THEN from
       ELSE IF i = CPUS \/ seps = {} THEN end
       ELSE CHOOSE p \in seps : \A q \in seps : p <= q

\* The sequence of a thread begins with its offset into the input.
FirstSeq(base, from, start) == base + (start - from)

TextBatch(from, len, base, fd) ==
    [source |-> main.source, fd |-> fd, pc |-> "parse",
     thread |-> [i \in Threads |->
        LET start == Cut(Items, from, len, i)
        IN [from |-> start, pos |-> start, end |-> Cut(Items, from, len, i + 1),
            seq |-> FirstSeq(base, from, start)]]]

\* runQueue(), fgbRunQueue(): the queue is divided evenly
QueueBatch(from, len, base) ==
    [source |-> main.source, fd |-> 0, pc |-> "parse",
     thread |-> [i \in Threads |->
        LET start == from + (len * i) \div CPUS
        IN [from |-> start, pos |-> start, end |-> from + (len * (i + 1)) \div CPUS,
            seq |-> base + (start - from)]]]

SerialBatch ==
    [source |-> main.source, fd |-> 0, pc |-> "parse",
     thread |-> [i \in Threads |->
        [from |-> 0, pos |-> 0, end |-> IF i = 0 THEN Len(Items) ELSE 0, seq |-> main.offset]]]

\* A thread can make nothing of a line that it has only the end of.
Whole(items, t) ==
    \/ t.from = 0 \/ items[t.from] = Sep
    \/ \E p \in t.from .. t.pos : items[p + 1] = Sep
Made(items, kind, t) ==
    IF items[t.pos + 1] = Sep \/ (kind \in {"stream", "map"} /\ ~Whole(items, t))
    THEN 0 ELSE items[t.pos + 1]

\* Thread i of batch b parses its next item: serialize_feature()
Parse(b, i) ==
    LET t == batches[b].thread[i]
        s == batches[b].source
        n == Made(input[s].items, input[s].kind, t)
    IN /\ batches[b].pc = "parse" /\ t.pos < t.end
       /\ out' = out \cup {[source |-> s, pos |-> t.pos, part |-> k, seq |-> t.seq + k,
                            reader |-> i] : k \in 0 .. n - 1}
       /\ batches' = [batches EXCEPT ![b].thread[i] = [t EXCEPT !.pos = @ + 1, !.seq = @ + n]]
       /\ UNCHANGED <<input, main, isParsing, fds>>

AllParsed(b) == \A i \in Threads : batches[b].thread[i].pos = batches[b].thread[i].end

\* run_read_parallel() joins the threads and closes the temporary file;
CloseTemp(b) ==
    /\ batches[b].pc = "parse" /\ batches[b].fd # 0 /\ AllParsed(b)
    /\ batches' = [batches EXCEPT ![b].pc = "closed"]
    /\ fds' = fds \ {batches[b].fd}
    /\ UNCHANGED <<input, main, isParsing, out>>

\* then it says so, and ends.
EndParsing(b) ==
    /\ batches[b].pc = "closed"
    /\ batches' = [batches EXCEPT ![b].pc = "ended"]
    /\ isParsing' = FALSE
    /\ UNCHANGED <<input, main, fds, out>>

Last == Len(batches)

(***************************************************************************)
(* Sources                                                                 *)
(***************************************************************************)
OpenSource ==
    /\ main.pc = "open" /\ main.source <= Len(input) /\ Kind # "missing"
    /\ \E d \in Descriptors :
        /\ LowestFree(d)
        /\ fds' = fds \cup {d}
        /\ main' = [main EXCEPT !.pc = IF Kind = "stream" THEN "temp" ELSE "read",
                                !.fd = d, !.pos = 0, !.ahead = 0, !.created = FALSE]
    /\ isParsing' = FALSE
    /\ UNCHANGED <<input, batches, out>>

\* A source that cannot be opened is passed over.
PassOver ==
    /\ main.pc = "open" /\ main.source <= Len(input) /\ Kind = "missing"
    /\ main' = [main EXCEPT !.source = @ + 1]
    /\ UNCHANGED <<input, batches, isParsing, fds, out>>

\* Wrong: only the area that the last thread has found counts.
AreaOfLast == Cardinality(Here(CPUS - 1))

\* area_sum, which limits a guessed maxzoom, if the area of each feature is 1
AreaSum ==
    IF Kind = "fgb" THEN Cardinality(Here(CPUS - 1))
    ELSE main.area + Cardinality(UNION {Here(i) : i \in Threads})

CloseSource ==
    /\ main.pc = "close"
    /\ fds' = fds \ {main.fd}
    /\ main' = [main EXCEPT !.pc = "open", !.source = @ + 1, !.area = AreaSum]
    /\ UNCHANGED <<input, batches, isParsing, out>>

Over == main.pc = "open" /\ main.source > Len(input) /\ UNCHANGED vars

\* A file that can be mapped is one batch, which main itself waits for.
ReadMapped ==
    /\ main.pc = "read" /\ Kind = "map"
    /\ batches' = Append(batches, TextBatch(0, Len(Items), main.offset, 0))
    /\ main' = [main EXCEPT !.pc = "wait", !.offset = @ + Len(Items)]
    /\ UNCHANGED <<input, isParsing, fds, out>>

ReadSerially ==
    /\ main.pc = "read" /\ Kind = "serial"
    /\ batches' = Append(batches, SerialBatch)
    /\ main' = [main EXCEPT !.pc = "wait"]
    /\ UNCHANGED <<input, isParsing, fds, out>>

\* queueFeature()
Queue ==
    /\ main.pc = "read" /\ Kind \in Queued /\ main.pos < Len(Items)
    /\ main' = [main EXCEPT !.pos = @ + 1, !.ahead = @ + 1,
                            !.pc = IF main.ahead + 1 > QueueMax THEN "run" ELSE "read"]
    /\ UNCHANGED <<input, batches, isParsing, fds, out>>

LastOfQueue ==
    /\ main.pc = "read" /\ Kind \in Queued /\ main.pos = Len(Items)
    /\ main' = [main EXCEPT !.pc = IF main.ahead = 0 THEN "close" ELSE "run"]
    /\ UNCHANGED <<input, batches, isParsing, fds, out>>

RunQueue ==
    /\ main.pc = "run"
    /\ batches' = Append(batches, QueueBatch(main.pos - main.ahead, main.ahead, main.offset))
    /\ main' = [main EXCEPT !.pc = "wait", !.ahead = 0]
    /\ UNCHANGED <<input, isParsing, fds, out>>

\* Wrong: the next queue begins with the sequence of the first thread.
SeqOfFirst(b) == batches[b].thread[0].seq

\* The sequence after a queue is that of the last thread.
SeqAfter(b) == batches[b].thread[IF Kind \in Queued THEN CPUS - 1 ELSE 0].seq

\* The threads that main itself has started are joined.
JoinThreads ==
    /\ main.pc = "wait" /\ AllParsed(Last)
    /\ main' = [main EXCEPT
                   !.pc = IF Kind \in Queued /\ main.pos < Len(Items) THEN "read" ELSE "close",
                   !.offset = IF Kind = "map" THEN @ ELSE SeqAfter(Last)]
    /\ batches' = [batches EXCEPT ![Last].pc = "ended"]
    /\ UNCHANGED <<input, isParsing, fds, out>>

(***************************************************************************)
(* Streams                                                                 *)
(***************************************************************************)
NewTemp ==
    /\ main.pc = "temp"
    /\ \E d \in Descriptors :
        /\ LowestFree(d)
        /\ fds' = fds \cup {d}
        /\ main' = [main EXCEPT !.pc = "read", !.temp = d]
    /\ UNCHANGED <<input, batches, isParsing, out>>

\* Wrong: a batch may end in the middle of a line.
EnoughAnywhere(pos, ahead) == ahead > ParseMin /\ (~isParsing \/ ahead >= ParseMax)

\* There is enough for a batch, and the parsers are idle or too far behind.
Enough(pos, ahead) ==
    Items[pos] = Sep /\ ahead > ParseMin /\ (~isParsing \/ ahead >= ParseMax)

ReadChunk ==
    LET n == Lesser(ReadBuf, Len(Items) - main.pos)
    IN /\ main.pc = "read" /\ Kind = "stream" /\ n > 0
       /\ main' = [main EXCEPT !.pos = @ + n, !.ahead = @ + n,
              !.pc = IF Enough(main.pos + n, main.ahead + n) THEN "batch" ELSE "read"]
       /\ UNCHANGED <<input, batches, isParsing, fds, out>>

EndOfStream ==
    /\ main.pc = "read" /\ Kind = "stream" /\ main.pos = Len(Items)
    /\ main' = [main EXCEPT !.pc = "drain"]
    /\ UNCHANGED <<input, batches, isParsing, fds, out>>

\* Wrong: the parser is not waited for.
NoJoin == TRUE

\* pthread_join(parallel_parser), if there is one
Joined == main.created => batches[Last].pc = "ended"

\* start_parsing()
StartParsing(next) ==
    /\ isParsing' = TRUE
    /\ batches' = Append(batches, TextBatch(main.pos - main.ahead, main.ahead, main.offset, main.temp))
    /\ main' = [main EXCEPT !.pc = next, !.offset = @ + main.ahead, !.ahead = 0, !.created = TRUE]
    /\ UNCHANGED <<input, fds, out>>

\* Wrong: the temporary file is written on while it is being parsed.
StartBatchOnly == main.pc = "batch" /\ Joined /\ StartParsing("read")

StartBatch == main.pc = "batch" /\ Joined /\ StartParsing("temp")
StartLast  == main.pc = "drain" /\ Joined /\ main.ahead > 0 /\ StartParsing("last")

NothingLeft ==
    /\ main.pc = "drain" /\ Joined /\ main.ahead = 0
    /\ main' = [main EXCEPT !.pc = "close", !.created = FALSE]
    /\ UNCHANGED <<input, batches, isParsing, fds, out>>

JoinLast ==
    /\ main.pc = "last" /\ Joined
    /\ main' = [main EXCEPT !.pc = "close", !.created = FALSE]
    /\ UNCHANGED <<input, batches, isParsing, fds, out>>

MainStep ==
    \/ OpenSource \/ PassOver \/ CloseSource
    \/ ReadMapped \/ ReadSerially
    \/ Queue \/ LastOfQueue \/ RunQueue \/ JoinThreads
    \/ NewTemp \/ ReadChunk \/ EndOfStream
    \/ StartBatch \/ StartLast \/ NothingLeft \/ JoinLast

Next ==
    \/ MainStep
    \/ \E b \in 1 .. Last : CloseTemp(b) \/ EndParsing(b) \/ \E i \in Threads : Parse(b, i)
    \/ Over

Spec == Init /\ [][Next]_vars
-----------------------------------------------------------------------------
(***************************************************************************)
(* Correctness                                                             *)
(***************************************************************************)
MainType ==
    [pc : {"open", "read", "run", "wait", "temp", "batch", "drain", "last", "close"},
     source : Nat \ {0}, pos : Nat, offset : Nat, ahead : Nat, area : Nat,
     fd : Descriptors \cup {0}, temp : Descriptors \cup {0}, created : BOOLEAN]

BatchType ==
    [source : Nat \ {0}, fd : Descriptors \cup {0}, pc : {"parse", "closed", "ended"},
     thread : [Threads -> [from : Nat, pos : Nat, end : Nat, seq : Nat]]]

OutType == [source : Nat \ {0}, pos : Nat, part : Nat, seq : Nat, reader : Threads]

\* Every variable has its type.
TypeOK ==
    /\ input \in Seq(Source)
    /\ main \in MainType
    /\ batches \in Seq(BatchType)
    /\ isParsing \in BOOLEAN
    /\ fds \subseteq Descriptors
    /\ out \subseteq OutType

Done == main.pc = "open" /\ main.source > Len(input)

\* a comes before b in the input.
Earlier(a, b) ==
    \/ a.source < b.source
    \/ a.source = b.source /\ (a.pos < b.pos \/ (a.pos = b.pos /\ a.part < b.part))

\* README.md, --preserve-input-order: "Preserve the original input order of
\* features".  It is the order of the sequence numbers, which therefore are in the
\* order of the input, whatever threads gave them out and in whatever batches.
InputOrder == \A a, b \in out : Earlier(a, b) => a.seq < b.seq

\* Every feature of every source that can be opened is parsed, and once.
ParsedOnce ==
    Done => \A s \in DOMAIN input : \A p \in DOMAIN input[s].items :
        LET made == {r \in out : r.source = s /\ r.pos = p - 1}
        IN Cardinality(made) = IF input[s].kind = "missing" \/ input[s].items[p] = Sep
                               THEN 0 ELSE input[s].items[p]

\* The readers are not locked: never are there two batches with threads that may
\* write to the same one.
OneBatch ==
    \A b, c \in 1 .. Last : batches[b].pc # "ended" /\ batches[c].pc # "ended" => b = c

\* The temporary file that a stream is being copied into is open and is not the one
\* that is being parsed.
TempNotShared ==
    main.pc = "read" /\ Kind = "stream" =>
        /\ main.temp \in fds
        /\ \A b \in 1 .. Last : batches[b].pc = "parse" => batches[b].fd # main.temp

\* What is being parsed is left alone by what goes on meanwhile.
BatchesApart == TypeOK /\ OneBatch /\ TempNotShared

\* All the features count towards the area by which a guessed maxzoom is limited,
\* unless one of the sources is a FlatGeobuf: then only what its last thread found
\* is left (main.cpp:1525 assigns where main.cpp:1598 adds).
AreaTotal ==
    Done /\ (\A s \in DOMAIN input : input[s].kind # "fgb") => main.area = Cardinality(out)

\* Every feature is counted as often as it is parsed, and parsed once.
EachOnce == ParsedOnce /\ AreaTotal
=============================================================================
