-------------------------- MODULE FilterPipeProofs --------------------------
(***************************************************************************)
(* Proof that external filters have what they should of their pipes and    *)
(* give back all that they should, for every number of tile threads, of    *)
(* filters and of features, and pipes of any capacity.                     *)
(***************************************************************************)
EXTENDS FilterPipe, SequenceTheorems, TLAPS

-----------------------------------------------------------------------------
(* The inductive invariant. *)

\* Every variable has its type, functions and sequences included.
Shapes ==
    /\ lock \in {NoOne} \cup Threads
    /\ setup \in [Filters -> Stages]
    /\ fds \in [Processes -> SUBSET Ends]
    /\ cloexec \in [Processes -> SUBSET Ends]
    /\ queue \in [Pipes -> Seq(Features)]
    /\ \A p \in Pipes : Len(queue[p]) <= Capacity
    /\ written \in [Filters -> Nat]
    /\ writer \in [Filters -> {"none", "writing", "ended"}]
    /\ status \in [Filters -> {"none", "child", "running", "exited"}]
    /\ habit \in [Filters -> AllHabits \cup {"none"}]
    /\ held \in [Filters -> Seq(Features)]
    /\ got \in [Filters -> Seq(Features)]

Inside == {"locked", "piped", "forked"}
Over == {"closed", "waited", "returned"}

\* A thread that sets up a filter holds the lock, and each thread has one filter after
\* another.
OneAtATime ==
    /\ \A f \in Filters : setup[f] \in Inside => lock = f[1]
    /\ \A f, g \in Filters :
        f[1] = g[1] /\ f[2] < g[2] /\ setup[g] # "idle" => setup[f] = "returned"

\* How far the tile thread, the writer thread and the process may be apart.
InStepOf(f) ==
    /\ status[f] = "none" <=> setup[f] \in {"idle", "locked", "piped"}
    /\ writer[f] = "none" <=> setup[f] = "idle" \/ setup[f] \in Inside
    /\ setup[f] \in Over => status[f] = "exited"
    /\ setup[f] = "returned" => writer[f] = "ended"

InStep == \A f \in Filters : InStepOf(f)

Own(f) == {In(Orig(f)), Out(Orig(f)), In(Filtered(f)), Out(Filtered(f))}

\* The ends that the program has of f's pipes, and those it has marked.
ProgramEndsOf(f) ==
    /\ In(Orig(f)) \in fds[Program] <=>
          setup[f] \in {"piped", "forked"} \/ writer[f] = "writing"
    /\ Out(Orig(f)) \in fds[Program] <=> setup[f] \in {"piped", "forked"}
    /\ In(Filtered(f)) \in fds[Program] <=> setup[f] \in {"piped", "forked"}
    /\ Out(Filtered(f)) \in fds[Program] <=> setup[f] \in {"piped", "forked", "reading"}
    /\ IF setup[f] = "idle" \/ setup[f] \in Inside
       THEN Own(f) \cap cloexec[Program] = {}
       ELSE Kept(f) \subseteq cloexec[Program]

ProgramEnds == \A f \in Filters : ProgramEndsOf(f)

\* What a child has besides its own ends is marked, since no other filter was half
\* set up when it was forked.
ChildEndsOf(f) ==
    /\ status[f] \in {"none", "exited"} => fds[f] = {}
    /\ status[f] = "running" => fds[f] = {Out(Orig(f)), In(Filtered(f))}
    /\ status[f] = "child" =>
          /\ Own(f) \subseteq fds[f]
          /\ Own(f) \cap cloexec[f] = {}
          /\ fds[f] \ Own(f) \subseteq cloexec[f]

ChildEnds == \A f \in Filters : ChildEndsOf(f)

Through(f) == got[f] \o queue[Filtered(f)]

\* While a filter runs, what has been written to it is in the pipes, with it, or has been
\* read back; and when it has exited it has written all that it will.
FlowOf(f) ==
    /\ written[f] <= Len(Input(f))
    /\ writer[f] = "none" => written[f] = 0
    /\ writer[f] = "ended" => written[f] = Len(Input(f))
    /\ habit[f] = "none" <=> status[f] \in {"none", "child"}
    /\ status[f] # "exited" =>
          (Through(f) \o held[f]) \o queue[Orig(f)] = SubSeq(Input(f), 1, written[f])
    /\ status[f] \in {"none", "child"} \/ habit[f] = "ignore" =>
          Through(f) = <<>> /\ held[f] = <<>>
    /\ habit[f] = "head" => Len(Through(f)) + Len(held[f]) <= 1
    /\ status[f] = "exited" => held[f] = <<>> /\ Through(f) = Expected(f)
    /\ setup[f] \in Over => queue[Filtered(f)] = <<>>

Flow == \A f \in Filters : FlowOf(f)

IInv == Shapes /\ OneAtATime /\ InStep /\ ProgramEnds /\ ChildEnds /\ Flow
-----------------------------------------------------------------------------
(* Filters, pipes and their ends by their names. *)

LEMMA FilterNames ==
    ASSUME NEW f \in Filters
    PROVE  /\ f[1] \in Threads /\ f[2] \in 1..Calls[f[1]] /\ f[2] \in Nat \ {0}
           /\ f = <<f[1], f[2]>>
           /\ f # Program
<1>1. PICK t \in Threads : f \in {t} \X (1..Calls[t])
  BY DEF Filters
<1>2. Calls[t] \in Nat \ {0}
  BY CallAssumption
<1> QED
  BY <1>1, <1>2 DEF Program

LEMMA FilterAt ==
    ASSUME NEW t \in Threads, NEW n \in 1..Calls[t]
    PROVE  <<t, n>> \in Filters
BY DEF Filters

\* A postfilter, at least, comes after another filter of its thread.
LEMMA BeforeIsFilter ==
    ASSUME NEW f \in Filters, f[2] > 1 \/ f[2] % 2 # 1
    PROVE  /\ Before(f) \in Filters
           /\ Before(f)[1] = f[1] /\ Before(f)[2] < f[2]
           /\ f[2] > 1 /\ f # Before(f)
<1>1. f[1] \in Threads /\ f[2] \in 1..Calls[f[1]] /\ f[2] \in Nat \ {0}
  BY FilterNames
<1>2. Calls[f[1]] \in Nat \ {0}
  BY <1>1, CallAssumption
<1>3. f[2] # 1
  OBVIOUS
<1>4. f[2] - 1 \in 1..Calls[f[1]]
  BY <1>1, <1>2, <1>3
<1>5. <<f[1], f[2] - 1>> \in Filters
  BY <1>1, <1>4, FilterAt
<1> QED
  BY <1>1, <1>3, <1>5 DEF Before

LEMMA PipeNames ==
    ASSUME NEW f \in Filters, NEW g \in Filters
    PROVE  /\ Orig(f) \in Pipes /\ Filtered(f) \in Pipes
           /\ Orig(f) # Filtered(g)
           /\ f # g => Orig(f) # Orig(g) /\ Filtered(f) # Filtered(g)
BY DEF Orig, Filtered, Pipes

LEMMA EndNames ==
    ASSUME NEW p, NEW q
    PROVE  /\ p \in Pipes => In(p) \in Ends /\ Out(p) \in Ends
           /\ In(p) # Out(q)
           /\ p # q => In(p) # In(q) /\ Out(p) # Out(q)
BY DEF In, Out, Ends

LEMMA OwnDistinct ==
    ASSUME NEW f \in Filters, NEW g \in Filters
    PROVE  /\ Own(f) \subseteq Ends
           /\ f # g => Own(f) \cap Own(g) = {}
           /\ In(Orig(f)) # Out(Orig(f)) /\ In(Orig(f)) # In(Filtered(f))
           /\ In(Orig(f)) # Out(Filtered(f)) /\ Out(Orig(f)) # In(Filtered(f))
           /\ Out(Orig(f)) # Out(Filtered(f)) /\ In(Filtered(f)) # Out(Filtered(f))
BY PipeNames, EndNames DEF Own

-----------------------------------------------------------------------------
(* What moves from one sequence to the next. *)

\* An element moves from the front of t to the end of s.
LEMMA MoveOne ==
    ASSUME NEW S, NEW s \in Seq(S), NEW t \in Seq(S), t # <<>>
    PROVE  /\ Append(s, Head(t)) \in Seq(S) /\ Tail(t) \in Seq(S)
           /\ Append(s, Head(t)) \o Tail(t) = s \o t
           /\ Len(Append(s, Head(t))) = Len(s) + 1 /\ Len(Tail(t)) = Len(t) - 1
<1>1. Head(t) \in S /\ Tail(t) \in Seq(S) /\ Len(Tail(t)) = Len(t) - 1
  BY HeadTailProperties
<1>2. /\ Append(s, Head(t)) = s \o <<Head(t)>>
      /\ Append(s, Head(t)) \in Seq(S) /\ Len(Append(s, Head(t))) = Len(s) + 1
  BY <1>1, AppendIsConcat, AppendProperties
<1>3. <<Head(t)>> \in Seq(S)
  BY <1>1
<1>4. (s \o <<Head(t)>>) \o Tail(t) = s \o (<<Head(t)>> \o Tail(t))
  BY <1>1, <1>3, ConcatAssociative
<1>5. <<Head(t)>> \o Tail(t) = t
  <2>1. Len(<<Head(t)>>) = 1 /\ <<Head(t)>>[1] = Head(t)
    OBVIOUS
  <2>2. /\ <<Head(t)>> \o Tail(t) \in Seq(S)
        /\ Len(<<Head(t)>> \o Tail(t)) = 1 + Len(Tail(t))
        /\ \A i \in 1..1 + Len(Tail(t)) : (<<Head(t)>> \o Tail(t))[i] =
              IF i <= 1 THEN <<Head(t)>>[i] ELSE Tail(t)[i - 1]
    BY <1>1, <1>3, <2>1, ConcatProperties
  <2>3. Len(t) \in Nat \ {0}
    BY EmptySeq
  <2>4. \A i \in 1..Len(Tail(t)) : Tail(t)[i] = t[i + 1]
    BY HeadTailProperties
  <2>5. \A i \in 1..Len(t) : (<<Head(t)>> \o Tail(t))[i] = t[i]
    <3> TAKE i \in 1..Len(t)
    <3>1. CASE i = 1
      <4>1. (<<Head(t)>> \o Tail(t))[1] = Head(t)
        BY <1>1, <2>1, <2>2, <2>3
      <4> QED
        BY <3>1, <4>1
    <3>2. CASE i # 1
      <4>1. i - 1 \in 1..Len(Tail(t)) /\ i \in 1..1 + Len(Tail(t)) /\ ~(i <= 1)
        BY <1>1, <2>3, <3>2
      <4> QED
        BY <2>2, <2>4, <4>1
    <3> QED
      BY <3>1, <3>2
  <2> QED
    BY <1>1, <2>2, <2>3, <2>5, SeqEqual
<1> QED
  BY <1>1, <1>2, <1>4, <1>5

\* One more element of s in the part of it that has been written.
LEMMA OneMore ==
    ASSUME NEW S, NEW s \in Seq(S), NEW n \in Nat, n < Len(s)
    PROVE  SubSeq(s, 1, n + 1) = Append(SubSeq(s, 1, n), s[n + 1])
<1>1. Len(s) \in Nat /\ \A i \in 1..Len(s) : s[i] \in S
  BY ElementOfSeq, LenProperties
<1>2. SubSeq(s, 1, n) \in Seq(S)
  BY <1>1, SubSeqProperties
<1>3. SubSeq(s, 1, n + 1) = SubSeq(s, 1, n + 1 - 1) \o <<s[n + 1]>>
  <2>1. 1 \in 1..Len(s) /\ n + 1 \in 1..Len(s)
    BY <1>1
  <2> QED
    BY <2>1, SubSeqRecursiveSecond
<1>4. n + 1 - 1 = n /\ s[n + 1] \in S
  BY <1>1
<1> QED
  BY <1>2, <1>3, <1>4, AppendIsConcat

\* What is appended to the end of a concatenation.
LEMMA AppendToConcat ==
    ASSUME NEW S, NEW s \in Seq(S), NEW t \in Seq(S), NEW e \in S
    PROVE  s \o Append(t, e) = Append(s \o t, e)
<1>1. s \o t \in Seq(S)
  BY ConcatProperties
<1>2. <<e>> \in Seq(S)
  OBVIOUS
<1>3. Append(t, e) = t \o <<e>> /\ Append(s \o t, e) = (s \o t) \o <<e>>
  BY <1>1, AppendIsConcat
<1> QED
  BY <1>2, <1>3, ConcatAssociative

-----------------------------------------------------------------------------
(* The same for sequences of features. *)

LEMMA FeaturesMove ==
    \A s, t \in Seq(Features) : t # <<>> =>
        /\ Append(s, Head(t)) \o Tail(t) = s \o t
        /\ Len(Append(s, Head(t))) = Len(s) + 1 /\ Len(Tail(t)) = Len(t) - 1
        /\ Len(s) \in Nat /\ Len(t) \in Nat
BY MoveOne, LenProperties

-----------------------------------------------------------------------------
(* What an action leaves as it was. *)

InputsTyped == \A f \in Filters : Input(f) \in Seq(Features) /\ Len(Input(f)) \in Nat

LEMMA InputTypes == Shapes => InputsTyped
<1> SUFFICES ASSUME Shapes, NEW f \in Filters
             PROVE  Input(f) \in Seq(Features) /\ Len(Input(f)) \in Nat
  BY DEF InputsTyped
<1>1. CASE f[2] % 2 = 1
  BY <1>1, ItemAssumption, LenProperties DEF Input
<1>2. CASE f[2] % 2 # 1
  <2>1. Before(f) \in Filters
    BY <1>2, BeforeIsFilter
  <2>2. got[Before(f)] \in Seq(Features)
    BY <2>1 DEF Shapes
  <2> QED
    BY <1>2, <2>2, LenProperties DEF Input
<1> QED
  BY <1>1, <1>2

LEMMA ThroughType ==
    ASSUME Shapes, NEW f \in Filters
    PROVE  /\ queue[Orig(f)] \in Seq(Features) /\ queue[Filtered(f)] \in Seq(Features)
           /\ got[f] \in Seq(Features) /\ held[f] \in Seq(Features)
           /\ Through(f) \in Seq(Features)
           /\ Through(f) \o held[f] \in Seq(Features)
<1>1. /\ queue[Orig(f)] \in Seq(Features) /\ queue[Filtered(f)] \in Seq(Features)
      /\ got[f] \in Seq(Features) /\ held[f] \in Seq(Features)
  BY PipeNames DEF Shapes
<1>2. Through(f) \in Seq(Features)
  BY <1>1, ConcatProperties DEF Through
<1> QED
  BY <1>1, <1>2, ConcatProperties

LEMMA SameInput ==
    ASSUME NEW f, got' = got
    PROVE  Input(f)' = Input(f)
BY DEF Input

\* What passes a filter is its own business.
LEMMA FlowKept ==
    ASSUME NEW f, FlowOf(f), Input(f)' = Input(f), got'[f] = got[f],
           written'[f] = written[f], writer'[f] = writer[f], habit'[f] = habit[f],
           status'[f] = status[f], held'[f] = held[f], setup'[f] \in Over <=> setup[f] \in Over,
           queue'[Orig(f)] = queue[Orig(f)], queue'[Filtered(f)] = queue[Filtered(f)]
    PROVE  FlowOf(f)'
<1>1. Through(f)' = Through(f) /\ Expected(f)' = Expected(f)
  BY DEF Through, Expected
<1> QED
  BY <1>1 DEF FlowOf

\* Moving a feature changes nothing of who has what open.
LEMMA StandingKept ==
    ASSUME OneAtATime, InStep, ProgramEnds, ChildEnds,
           UNCHANGED <<lock, setup, fds, cloexec, writer, status>>
    PROVE  OneAtATime' /\ InStep' /\ ProgramEnds' /\ ChildEnds'
BY DEF OneAtATime, InStep, InStepOf, ProgramEnds, ProgramEndsOf, ChildEnds, ChildEndsOf

\* While a filter does not write yet, nothing has gone to it.
LEMMA FlowBegins ==
    ASSUME Shapes, Shapes', NEW f \in Filters, FlowOf(f),
           writer[f] = "none", status[f] = "none", setup[f] \notin Over, got'[f] = got[f],
           written'[f] = written[f], writer'[f] = writer[f], habit'[f] = habit[f],
           status'[f] = status[f], held'[f] = held[f], setup'[f] = setup[f],
           queue'[Orig(f)] = queue[Orig(f)], queue'[Filtered(f)] = queue[Filtered(f)]
    PROVE  FlowOf(f)'
<1>1. Through(f)' = Through(f)
  BY DEF Through
<1>2. written[f] = 0 /\ habit[f] = "none"
  BY DEF FlowOf
<1>3. SubSeq(Input(f), 1, 0) = <<>> /\ SubSeq(Input(f)', 1, 0) = <<>>
  BY SubSeqEmpty
<1>4. InputsTyped'
  BY InputTypes, PTL
<1>5. Len(Input(f))' \in Nat
  BY <1>4 DEF InputsTyped
<1>6. written'[f] = 0 /\ written'[f] <= Len(Input(f))'
  BY <1>2, <1>5
<1>7. (Through(f)' \o held'[f]) \o queue'[Orig(f)] = SubSeq(Input(f)', 1, written'[f])
  BY <1>1, <1>2, <1>3, <1>6 DEF FlowOf
<1> QED
  BY <1>1, <1>2, <1>6, <1>7 DEF FlowOf

-----------------------------------------------------------------------------
(* Setting a filter up. *)

LEMMA OneInside ==
    ASSUME OneAtATime, NEW f \in Filters, NEW g \in Filters,
           setup[f] \in Inside, setup[g] \in Inside
    PROVE  f = g
<1>1. f[1] = g[1]
  BY DEF OneAtATime
<1>2. ~(f[2] < g[2]) /\ ~(g[2] < f[2])
  BY <1>1 DEF OneAtATime, Inside
<1>3. f[2] \in Nat /\ g[2] \in Nat /\ f = <<f[1], f[2]>> /\ g = <<g[1], g[2]>>
  BY FilterNames
<1>4. f[2] = g[2]
  BY <1>2, <1>3
<1> QED
  BY <1>1, <1>3, <1>4

\* Every end is one of some filter's four.
LEMMA EndOfSome ==
    ASSUME NEW e \in Ends
    PROVE  \E f \in Filters : e \in Own(f)
<1>1. PICK p \in Pipes, w \in {"write", "read"} : e = <<p, w>>
  BY DEF Ends
<1>2. PICK f \in Filters, d \in {"orig", "filtered"} : p = <<f, d>>
  BY DEF Pipes
<1>3. e \in Own(f)
  BY <1>1, <1>2 DEF Own, In, Out, Orig, Filtered
<1> QED
  BY <1>3

LEMMA InitIInv == Init => IInv
<1> SUFFICES ASSUME Init PROVE IInv
  OBVIOUS
<1> USE DEF Init
<1>1. Shapes
  <2>1. <<>> \in Seq(Features) /\ Len(<<>>) = 0
    BY EmptySeq
  <2>2. \A p \in Pipes : Len(queue[p]) <= Capacity
    BY <2>1, CapacityAssumption
  <2> QED
    BY <2>1, <2>2 DEF Shapes, Stages
<1>2. OneAtATime /\ InStep
  BY DEF OneAtATime, InStep, InStepOf, Inside, Over
<1>3. ProgramEnds /\ ChildEnds
  BY DEF ProgramEnds, ProgramEndsOf, ChildEnds, ChildEndsOf, Processes
<1>4. Flow
  <2> SUFFICES ASSUME NEW f \in Filters PROVE FlowOf(f)
    BY DEF Flow
  <2>1. Through(f) = <<>> /\ Through(f) \o held[f] = <<>>
    BY PipeNames, EmptySeq, ConcatEmptySeq DEF Through
  <2>2. queue[Orig(f)] = <<>> /\ queue[Filtered(f)] = <<>>
    BY PipeNames
  <2>3. (Through(f) \o held[f]) \o queue[Orig(f)] = SubSeq(Input(f), 1, 0)
    <3>1. <<>> \in Seq(Features) /\ held[f] = <<>>
      BY EmptySeq
    <3>2. <<>> \o <<>> = <<>>
      BY <3>1, ConcatEmptySeq
    <3>3. SubSeq(Input(f), 1, 0) = <<>>
      BY SubSeqEmpty
    <3> QED
      BY <2>1, <2>2, <3>1, <3>2, <3>3
  <2>4. Len(Input(f)) \in Nat
    BY <1>1, InputTypes DEF InputsTyped
  <2> QED
    BY <2>1, <2>2, <2>3, <2>4 DEF FlowOf, Over
<1> QED
  BY <1>1, <1>2, <1>3, <1>4 DEF IInv

LEMMA LockIInv ==
    ASSUME IInv, NEW f \in Filters, Lock(f)
    PROVE  IInv'
<1> USE DEF IInv, Lock
<1>1. Shapes'
  BY FilterNames DEF Shapes, Stages
<1>2. setup \in [Filters -> Stages] /\ f[1] \in Threads
  BY FilterNames DEF Shapes
<1>3. OneAtATime'
  <2>1. \A g \in Filters : setup[g] \notin Inside
    BY FilterNames, ThreadAssumption DEF MayLock, OneAtATime
  <2>2. \A g \in Filters : g[1] = f[1] /\ g[2] < f[2] => setup[g] = "returned"
    <3> SUFFICES ASSUME NEW g \in Filters, g[1] = f[1], g[2] < f[2]
                 PROVE  setup[g] = "returned"
      OBVIOUS
    <3>1. f[2] \in Nat \ {0} /\ g[2] \in Nat \ {0}
      BY FilterNames
    <3>2. /\ Before(f) \in Filters /\ Before(f)[1] = f[1] /\ Before(f)[2] = f[2] - 1
          /\ setup[Before(f)] = "returned"
      BY <3>1, BeforeIsFilter DEF Before
    <3>3. CASE g[2] < f[2] - 1
      BY <3>2, <3>3 DEF OneAtATime
    <3>4. CASE g[2] = f[2] - 1
      <4>1. g = Before(f)
        BY <3>4, FilterNames DEF Before
      <4> QED
        BY <4>1, <3>2
    <3> QED
      BY <3>1, <3>3, <3>4
  <2> QED
    BY <1>2, <2>1, <2>2 DEF OneAtATime
<1>4. InStep' /\ ProgramEnds' /\ ChildEnds'
  BY <1>2 DEF InStep, InStepOf, ProgramEnds, ProgramEndsOf, ChildEnds, ChildEndsOf,
      Inside, Over
<1>5. Flow'
  <2> SUFFICES ASSUME NEW g \in Filters PROVE FlowOf(g)'
    BY DEF Flow
  <2>1. setup'[g] \in Over <=> setup[g] \in Over
    BY <1>2 DEF Over
  <2> QED
    BY <2>1, SameInput, FlowKept DEF Flow
<1> QED
  BY <1>1, <1>3, <1>4, <1>5

LEMMA MakePipesIInv ==
    ASSUME IInv, NEW f \in Filters, MakePipes(f)
    PROVE  IInv'
<1> USE DEF IInv, MakePipes
<1>1. /\ setup \in [Filters -> Stages] /\ fds \in [Processes -> SUBSET Ends]
      /\ Program \in Processes /\ \A g \in Filters : g # Program /\ g \in Processes
  BY FilterNames DEF Shapes, Processes
<1>2. fds' = [fds EXCEPT ![Program] = @ \cup Own(f)] /\ Own(f) \subseteq Ends
  BY OwnDistinct DEF Own
<1>3. Shapes'
  <2>1. fds' \in [Processes -> SUBSET Ends]
    BY <1>1, <1>2
  <2> QED
    BY <2>1 DEF Shapes, Stages
<1>4. OneAtATime'
  BY <1>1 DEF OneAtATime, Inside
<1>5. InStep' /\ ChildEnds'
  BY <1>1 DEF InStep, InStepOf, ChildEnds, ChildEndsOf, Inside, Over
<1>6. ProgramEnds'
  <2> SUFFICES ASSUME NEW g \in Filters PROVE ProgramEndsOf(g)'
    BY DEF ProgramEnds
  <2>1. fds'[Program] = fds[Program] \cup Own(f)
    BY <1>1, <1>2
  <2>2. CASE g = f
    BY <1>1, <2>1, <2>2 DEF ProgramEnds, ProgramEndsOf, Own, Inside
  <2>3. CASE g # f
    <3>1. Own(g) \cap Own(f) = {}
      BY <2>3, OwnDistinct
    <3> QED
      BY <1>1, <2>1, <2>3, <3>1 DEF ProgramEnds, ProgramEndsOf, Own
  <2> QED
    BY <2>2, <2>3
<1>7. Flow'
  <2> SUFFICES ASSUME NEW g \in Filters PROVE FlowOf(g)'
    BY DEF Flow
  <2>1. setup'[g] \in Over <=> setup[g] \in Over
    BY <1>1 DEF Over
  <2> QED
    BY <2>1, SameInput, FlowKept DEF Flow
<1> QED
  BY <1>3, <1>4, <1>5, <1>6, <1>7

LEMMA ForkIInv ==
    ASSUME IInv, NEW f \in Filters, Fork(f)
    PROVE  IInv'
<1> USE DEF IInv, Fork
<1>1. /\ setup \in [Filters -> Stages] /\ status \in [Filters -> {"none", "child", "running", "exited"}]
      /\ fds \in [Processes -> SUBSET Ends] /\ cloexec \in [Processes -> SUBSET Ends]
      /\ Program \in Processes /\ \A g \in Filters : g # Program /\ g \in Processes
  BY FilterNames DEF Shapes, Processes
<1>2. fds'[f] = fds[Program] /\ cloexec'[f] = cloexec[Program]
  BY <1>1
<1>3. fds'[Program] = fds[Program] /\ cloexec'[Program] = cloexec[Program]
  BY <1>1
<1>4. Shapes'
  BY <1>1 DEF Shapes, Stages
<1>5. OneAtATime'
  BY <1>1 DEF OneAtATime, Inside
<1>6. InStep'
  BY <1>1 DEF InStep, InStepOf, Inside, Over
<1>7. ProgramEnds'
  BY <1>1, <1>3 DEF ProgramEnds, ProgramEndsOf, Inside
<1>8. ChildEnds'
  <2> SUFFICES ASSUME NEW g \in Filters PROVE ChildEndsOf(g)'
    BY DEF ChildEnds
  <2>1. CASE g # f
    BY <1>1, <2>1 DEF ChildEnds, ChildEndsOf
  <2>2. CASE g = f
    <3>1. Own(f) \subseteq fds[Program] /\ Own(f) \cap cloexec[Program] = {}
      BY DEF ProgramEnds, ProgramEndsOf, Own, Inside
    <3>2. ASSUME NEW e \in fds[Program], e \notin Own(f)
          PROVE  e \in cloexec[Program]
      <4>1. PICK h \in Filters : e \in Own(h)
        BY <1>1, EndOfSome
      <4>2. setup[h] \notin Inside
        BY <3>2, <4>1, OneInside DEF Inside
      <4>3. setup[h] # "idle" /\ e \in Kept(h)
        BY <4>1, <4>2 DEF ProgramEnds, ProgramEndsOf, InStep, InStepOf, Own, Kept, Inside
      <4> QED
        BY <4>2, <4>3 DEF ProgramEnds, ProgramEndsOf
    <3>3. status'[f] = "child"
      BY <1>1
    <3> QED
      BY <1>2, <2>2, <3>1, <3>2, <3>3 DEF ChildEndsOf
  <2> QED
    BY <2>1, <2>2
<1>9. Flow'
  <2> SUFFICES ASSUME NEW g \in Filters PROVE FlowOf(g)'
    BY DEF Flow
  <2>1. setup'[g] \in Over <=> setup[g] \in Over
    BY <1>1 DEF Over
  <2>2. CASE g # f
    BY <1>1, <2>1, <2>2, SameInput, FlowKept DEF Flow
  <2>3. CASE g = f
    <3>1. Through(f)' = Through(f) /\ Input(f)' = Input(f)
      BY SameInput DEF Through
    <3>2. FlowOf(f) /\ status[f] = "none" /\ status'[f] = "child" /\ setup'[f] \notin Over
      BY <1>1 DEF Flow, InStep, InStepOf, Over
    <3> QED
      BY <2>3, <3>1, <3>2 DEF FlowOf
  <2> QED
    BY <2>2, <2>3
<1> QED
  BY <1>4, <1>5, <1>6, <1>7, <1>8, <1>9

LEMMA UnlockIInv ==
    ASSUME IInv, NEW f \in Filters, Unlock(f)
    PROVE  IInv'
<1> USE DEF IInv, Unlock
<1>1. /\ setup \in [Filters -> Stages] /\ writer \in [Filters -> {"none", "writing", "ended"}]
      /\ fds \in [Processes -> SUBSET Ends] /\ cloexec \in [Processes -> SUBSET Ends]
      /\ Program \in Processes /\ \A g \in Filters : g # Program /\ g \in Processes
  BY FilterNames DEF Shapes, Processes
<1>2. /\ fds'[Program] = fds[Program] \ {Out(Orig(f)), In(Filtered(f))}
      /\ cloexec'[Program] = cloexec[Program] \cup Kept(f)
  BY <1>1
<1>3. Kept(f) \subseteq Own(f) /\ Own(f) \subseteq Ends
  BY OwnDistinct DEF Kept, Own
<1>4. Shapes'
  <2>1. cloexec' \in [Processes -> SUBSET Ends] /\ fds' \in [Processes -> SUBSET Ends]
    BY <1>1, <1>3
  <2> QED
    BY <1>1, <2>1 DEF Shapes, Stages
<1>5. OneAtATime'
  <2>1. \A g \in Filters : setup'[g] \notin Inside
    <3> TAKE g \in Filters
    <3>1. CASE g = f
      BY <1>1, <3>1 DEF Inside
    <3>2. CASE g # f
      BY <1>1, <3>2, OneInside DEF Inside
    <3> QED
      BY <3>1, <3>2
  <2> QED
    BY <1>1, <2>1 DEF OneAtATime
<1>6. InStep'
  BY <1>1 DEF InStep, InStepOf, Inside, Over
<1>7. ProgramEnds'
  <2> SUFFICES ASSUME NEW g \in Filters PROVE ProgramEndsOf(g)'
    BY DEF ProgramEnds
  <2>1. CASE g = f
    BY <1>1, <1>2, <2>1, OwnDistinct DEF ProgramEnds, ProgramEndsOf, Inside
  <2>2. CASE g # f
    <3>1. Own(g) \cap Own(f) = {} /\ Own(g) \cap Kept(f) = {}
      BY <1>3, <2>2, OwnDistinct
    <3>2. ProgramEndsOf(g) /\ setup'[g] = setup[g] /\ writer'[g] = writer[g]
      BY <1>1, <2>2 DEF ProgramEnds
    <3> QED
      BY <1>2, <3>1, <3>2 DEF ProgramEndsOf, Own
  <2> QED
    BY <2>1, <2>2
<1>8. ChildEnds'
  BY <1>1 DEF ChildEnds, ChildEndsOf
<1>9. Flow'
  <2> SUFFICES ASSUME NEW g \in Filters PROVE FlowOf(g)'
    BY DEF Flow
  <2>1. setup'[g] \in Over <=> setup[g] \in Over
    BY <1>1 DEF Over
  <2>2. CASE g # f
    BY <1>1, <2>1, <2>2, SameInput, FlowKept DEF Flow
  <2>3. CASE g = f
    <3>1. Through(f)' = Through(f) /\ Input(f)' = Input(f) /\ Expected(f)' = Expected(f)
      BY SameInput DEF Through, Expected
    <3>2. FlowOf(f) /\ writer'[f] = "writing" /\ setup'[f] \notin Over
      BY <1>1 DEF Flow, Over
    <3> QED
      BY <2>3, <3>1, <3>2 DEF FlowOf
  <2> QED
    BY <2>2, <2>3
<1> QED
  BY <1>4, <1>5, <1>6, <1>7, <1>8, <1>9

-----------------------------------------------------------------------------
(* The child and its command. *)

LEMMA ExecIInv ==
    ASSUME IInv, NEW f \in Filters, Exec(f)
    PROVE  IInv'
<1> USE DEF IInv, Exec
<1>1. /\ status \in [Filters -> {"none", "child", "running", "exited"}]
      /\ habit \in [Filters -> AllHabits \cup {"none"}]
      /\ fds \in [Processes -> SUBSET Ends] /\ cloexec \in [Processes -> SUBSET Ends]
      /\ Program \in Processes /\ \A g \in Filters : g # Program /\ g \in Processes
  BY FilterNames DEF Shapes, Processes
<1>2. PICK h \in Habits : habit' = [habit EXCEPT ![f] = h]
  OBVIOUS
<1>3. h \in AllHabits /\ h # "none"
  BY HabitAssumption DEF AllHabits
<1>4. Shapes'
  BY <1>1, <1>2, <1>3 DEF Shapes
<1>5. OneAtATime'
  BY DEF OneAtATime
<1>6. InStep'
  BY <1>1 DEF InStep, InStepOf, Over
<1>7. ProgramEnds'
  BY <1>1 DEF ProgramEnds, ProgramEndsOf
<1>8. ChildEnds'
  <2> SUFFICES ASSUME NEW g \in Filters PROVE ChildEndsOf(g)'
    BY DEF ChildEnds
  <2>1. CASE g # f
    BY <1>1, <2>1 DEF ChildEnds, ChildEndsOf
  <2>2. CASE g = f
    <3>1. fds'[f] = (fds[f] \ cloexec[f]) \ {In(Orig(f)), Out(Filtered(f))}
      BY <1>1
    <3>2. /\ Own(f) \subseteq fds[f] /\ Own(f) \cap cloexec[f] = {}
          /\ fds[f] \ Own(f) \subseteq cloexec[f]
      BY DEF ChildEnds, ChildEndsOf
    <3>3. fds[f] \ cloexec[f] = Own(f)
      BY <3>2
    <3>4. fds'[f] = {Out(Orig(f)), In(Filtered(f))}
      BY <3>1, <3>3, OwnDistinct DEF Own
    <3> QED
      BY <1>1, <2>2, <3>4 DEF ChildEndsOf
  <2> QED
    BY <2>1, <2>2
<1>9. Flow'
  <2> SUFFICES ASSUME NEW g \in Filters PROVE FlowOf(g)'
    BY DEF Flow
  <2>1. CASE g # f
    BY <1>1, <1>2, <2>1, SameInput, FlowKept DEF Flow
  <2>2. CASE g = f
    <3>1. Through(f)' = Through(f) /\ Input(f)' = Input(f)
      BY SameInput DEF Through
    <3>2. FlowOf(f) /\ Through(f) = <<>> /\ held[f] = <<>> /\ held'[f] = <<>>
      BY DEF Flow, FlowOf
    <3>3. habit'[f] = h /\ status'[f] = "running"
      BY <1>1, <1>2
    <3>4. Len(Through(f)) + Len(held[f]) <= 1
      BY <3>2, EmptySeq
    <3> QED
      BY <1>3, <2>2, <3>1, <3>2, <3>3, <3>4 DEF FlowOf
  <2> QED
    BY <2>1, <2>2
<1> QED
  BY <1>4, <1>5, <1>6, <1>7, <1>8, <1>9

LEMMA FilterReadsIInv ==
    ASSUME IInv, NEW f \in Filters, FilterReads(f)
    PROVE  IInv'
<1> USE DEF IInv, FilterReads
<1>1. /\ queue \in [Pipes -> Seq(Features)] /\ held \in [Filters -> Seq(Features)]
      /\ Orig(f) \in Pipes /\ Filtered(f) \in Pipes /\ Orig(f) # Filtered(f)
  BY PipeNames DEF Shapes
<1> DEFINE e == Head(queue[Orig(f)])
<1>2. /\ queue'[Orig(f)] = Tail(queue[Orig(f)]) /\ queue'[Filtered(f)] = queue[Filtered(f)]
      /\ held'[f] = Append(held[f], e)
  BY <1>1
<1>3. e \in Features /\ Tail(queue[Orig(f)]) \in Seq(Features)
  BY <1>1, HeadTailProperties
<1>4. Append(held[f], e) \in Seq(Features) /\ Len(Append(held[f], e)) = Len(held[f]) + 1
  BY <1>1, <1>3, AppendProperties
<1> HIDE DEF e
<1>5. Shapes'
  <2>1. Len(Tail(queue[Orig(f)])) <= Capacity
    <3>1. /\ Len(Tail(queue[Orig(f)])) = Len(queue[Orig(f)]) - 1
          /\ Len(queue[Orig(f)]) \in Nat /\ Len(queue[Orig(f)]) <= Capacity
      BY <1>1, HeadTailProperties, LenProperties DEF Shapes
    <3> QED
      BY <3>1, CapacityAssumption
  <2>2. held' = [held EXCEPT ![f] = Append(held[f], e)]
    BY DEF e
  <2>3. held' \in [Filters -> Seq(Features)] /\ queue' \in [Pipes -> Seq(Features)]
    BY <1>1, <1>3, <1>4, <2>2
  <2>4. \A p \in Pipes : Len(queue'[p]) <= Capacity
    BY <1>1, <2>1 DEF Shapes
  <2> QED
    BY <2>3, <2>4 DEF Shapes
<1>6. OneAtATime' /\ InStep' /\ ProgramEnds' /\ ChildEnds'
  BY StandingKept
<1>7. Flow'
  <2> SUFFICES ASSUME NEW g \in Filters PROVE FlowOf(g)'
    BY DEF Flow
  <2>1. CASE g # f
    BY <1>1, <2>1, PipeNames, SameInput, FlowKept DEF Flow
  <2>2. CASE g = f
    <3>1. Through(f)' = Through(f) /\ Input(f)' = Input(f)
      BY <1>2, SameInput DEF Through
    <3>2. FlowOf(f) /\ status[f] = "running" /\ habit[f] # "ignore"
      BY DEF Flow
    <3>3. /\ Through(f) \in Seq(Features) /\ Through(f) \o held[f] \in Seq(Features)
          /\ Len(Through(f)) = Output(f)
      BY ThroughType, ConcatProperties DEF Through, Output
    <3>4. Through(f) \o Append(held[f], e) = Append(Through(f) \o held[f], e)
      BY <1>1, <1>3, <3>3, AppendToConcat
    <3>5. Append(Through(f) \o held[f], e) \o Tail(queue[Orig(f)])
              = (Through(f) \o held[f]) \o queue[Orig(f)]
      <4>1. queue[Orig(f)] \in Seq(Features) /\ queue[Orig(f)] # <<>>
        BY <1>1
      <4> HIDE DEF IInv, FilterReads
      <4> QED
        BY <3>3, <4>1, FeaturesMove DEF e
    <3>6. (Through(f) \o Append(held[f], e)) \o Tail(queue[Orig(f)])
              = SubSeq(Input(f), 1, written[f])
      BY <3>2, <3>4, <3>5 DEF FlowOf
    <3>7. habit[f] = "head" => Len(Through(f)) + Len(held'[f]) <= 1
      BY <1>2, <1>4, <3>3, EmptySeq
    <3>8. setup[f] \notin Over
      BY <3>2 DEF InStep, InStepOf
    <3> QED
      BY <1>2, <2>2, <3>1, <3>2, <3>6, <3>7, <3>8 DEF FlowOf
  <2> QED
    BY <2>1, <2>2
<1> QED
  BY <1>5, <1>6, <1>7

LEMMA FilterWritesIInv ==
    ASSUME IInv, NEW f \in Filters, FilterWrites(f)
    PROVE  IInv'
<1> USE DEF IInv, FilterWrites
<1>1. /\ queue \in [Pipes -> Seq(Features)] /\ held \in [Filters -> Seq(Features)]
      /\ Orig(f) \in Pipes /\ Filtered(f) \in Pipes /\ Orig(f) # Filtered(f)
  BY PipeNames DEF Shapes
<1> DEFINE e == Head(held[f])
<1>2. /\ queue'[Filtered(f)] = Append(queue[Filtered(f)], e) /\ queue'[Orig(f)] = queue[Orig(f)]
      /\ held'[f] = Tail(held[f]) /\ held[f] # <<>>
  BY <1>1
<1>3. e \in Features /\ Tail(held[f]) \in Seq(Features) /\ Len(Tail(held[f])) = Len(held[f]) - 1
  BY <1>1, HeadTailProperties
<1>4. /\ Append(queue[Filtered(f)], e) \in Seq(Features)
      /\ Len(Append(queue[Filtered(f)], e)) = Len(queue[Filtered(f)]) + 1
  BY <1>1, <1>3, AppendProperties
<1>5. queue' = [queue EXCEPT ![Filtered(f)] = Append(queue[Filtered(f)], e)]
  OBVIOUS
<1> HIDE DEF e
<1>6. Shapes'
  <2>1. Len(Append(queue[Filtered(f)], e)) <= Capacity
    <3>1. Len(queue[Filtered(f)]) \in Nat /\ Len(queue[Filtered(f)]) < Capacity
      BY <1>1, LenProperties
    <3> QED
      BY <1>4, <3>1, CapacityAssumption
  <2>2. held' \in [Filters -> Seq(Features)] /\ queue' \in [Pipes -> Seq(Features)]
    BY <1>1, <1>3, <1>4, <1>5
  <2>3. \A p \in Pipes : Len(queue'[p]) <= Capacity
    BY <1>1, <1>5, <2>1 DEF Shapes
  <2> QED
    BY <2>2, <2>3 DEF Shapes
<1>7. OneAtATime' /\ InStep' /\ ProgramEnds' /\ ChildEnds'
  BY StandingKept
<1>8. Flow'
  <2> SUFFICES ASSUME NEW g \in Filters PROVE FlowOf(g)'
    BY DEF Flow
  <2>1. CASE g # f
    BY <1>1, <2>1, PipeNames, SameInput, FlowKept DEF Flow
  <2>2. CASE g = f
    <3>1. Input(f)' = Input(f)
      BY SameInput
    <3>2. FlowOf(f) /\ status[f] = "running"
      BY DEF Flow
    <3>3. habit[f] # "ignore"
      BY <1>2, <3>2 DEF FlowOf
    <3>4. /\ got[f] \in Seq(Features) /\ queue[Filtered(f)] \in Seq(Features)
          /\ held[f] \in Seq(Features) /\ Through(f) \in Seq(Features)
      BY ThroughType
    <3>5. Through(f)' = Append(Through(f), e)
      <4>1. got' = got
        OBVIOUS
      <4> HIDE DEF IInv, FilterWrites
      <4>2. got[f] \o Append(queue[Filtered(f)], e) = Append(got[f] \o queue[Filtered(f)], e)
        <5>1. e \in Features /\ got[f] \in Seq(Features) /\ queue[Filtered(f)] \in Seq(Features)
          BY <1>3, <3>4
        <5>2. \A s, t \in Seq(Features) : s \o Append(t, e) = Append(s \o t, e)
          BY <5>1, AppendToConcat
        <5> QED
          BY <5>1, <5>2
      <4> QED
        BY <1>2, <4>1, <4>2 DEF Through
    <3>6. /\ Append(Through(f), e) \o Tail(held[f]) = Through(f) \o held[f]
          /\ Len(Append(Through(f), e)) = Len(Through(f)) + 1
      <4> HIDE DEF IInv, FilterWrites
      <4> QED
        BY <1>2, <3>4, FeaturesMove DEF e
    <3>7. Len(Through(f)') + Len(held'[f]) = Len(Through(f)) + Len(held[f])
      <4> DEFINE before == Len(Through(f))
                 beside == Len(held[f])
                 after  == Len(Through(f)')
                 left   == Len(held'[f])
      <4>1. before \in Nat /\ beside \in Nat
        BY <3>4, LenProperties
      <4>2. after = before + 1
        BY <3>5, <3>6
      <4>3. left = beside - 1
        BY <1>2, <1>3
      <4> HIDE DEF before, beside, after, left, IInv, FilterWrites
      <4>4. after + left = before + beside
        BY <4>1, <4>2, <4>3
      <4> QED
        BY <4>4 DEF before, beside, after, left
    <3>8. Through(f)' \o held'[f] = Through(f) \o held[f]
      BY <1>2, <3>5, <3>6
    <3>9. setup[f] \notin Over
      BY <3>2 DEF InStep, InStepOf
    <3> QED
      BY <1>2, <2>2, <3>1, <3>2, <3>3, <3>7, <3>8, <3>9 DEF FlowOf
  <2> QED
    BY <2>1, <2>2
<1> QED
  BY <1>6, <1>7, <1>8

LEMMA WhatIsExpected ==
    ASSUME NEW f
    PROVE  /\ habit[f] = "ignore" => Expected(f) = <<>>
           /\ habit[f] = "head" /\ Input(f) # <<>> => Expected(f) = <<Head(Input(f))>>
           /\ habit[f] \notin {"ignore", "head"} => Expected(f) = Input(f)
           /\ habit[f] = "head" /\ Input(f) = <<>> => Expected(f) = Input(f)
BY Zenon DEF Expected

\* What a filter has written when it exits.
LEMMA ExitedWith ==
    ASSUME IInv, NEW f \in Filters, FilterExits(f)
    PROVE  Through(f) = Expected(f)
<1>1. /\ FlowOf(f) /\ status[f] = "running" /\ held[f] = <<>>
      /\ Through(f) \in Seq(Features) /\ queue[Orig(f)] \in Seq(Features)
      /\ Input(f) \in Seq(Features) /\ Len(Input(f)) \in Nat /\ written[f] \in Nat
  BY ThroughType, InputTypes DEF IInv, Flow, FilterExits, InputsTyped, Shapes
<1>2. Through(f) \o held[f] = Through(f)
  BY <1>1, ConcatEmptySeq
<1>3. Through(f) \o queue[Orig(f)] = SubSeq(Input(f), 1, written[f])
  BY <1>1, <1>2 DEF FlowOf
<1>4. CASE habit[f] = "ignore"
  BY <1>1, <1>4, WhatIsExpected DEF FlowOf
<1>5. CASE habit[f] # "ignore" /\ AtEnd(Orig(f))
  <2>1. queue[Orig(f)] = <<>> /\ In(Orig(f)) \notin fds[Program]
    BY <1>5 DEF AtEnd, Processes
  <2>2. writer[f] = "ended"
    <3>1. setup[f] \notin {"piped", "forked"} /\ writer[f] # "writing"
      BY <2>1 DEF IInv, ProgramEnds, ProgramEndsOf
    <3>2. setup[f] \notin {"idle", "locked"}
      BY <1>1 DEF IInv, InStep, InStepOf
    <3>3. writer[f] # "none"
      BY <3>1, <3>2 DEF IInv, InStep, InStepOf, Inside
    <3> QED
      BY <3>1, <3>3 DEF IInv, Shapes
  <2>3. SubSeq(Input(f), 1, Len(Input(f))) = Input(f)
    BY <1>1, SubSeqFull
  <2>4. Through(f) = Input(f)
    <3>1. Through(f) \o <<>> = Through(f)
      BY <1>1, ConcatEmptySeq
    <3>2. written[f] = Len(Input(f))
      BY <1>1, <2>2 DEF FlowOf
    <3> QED
      BY <1>3, <2>1, <2>3, <3>1, <3>2
  <2>5. CASE habit[f] = "head" /\ Input(f) # <<>>
    <3>1. Len(Input(f)) = 1
      <4>1. Len(Through(f)) + Len(held[f]) <= 1
        BY <1>1, <2>5 DEF FlowOf
      <4>2. Len(held[f]) = 0
        BY <1>1, EmptySeq
      <4>3. Len(Input(f)) \in Nat \ {0}
        BY <1>1, <2>5, EmptySeq
      <4>4. Len(Input(f)) + Len(held[f]) <= 1
        BY <2>4, <4>1
      <4>5. \A a, b \in Nat : a # 0 /\ b = 0 /\ a + b <= 1 => a = 1
        OBVIOUS
      <4>6. Len(held[f]) \in Nat /\ Len(Input(f)) \in Nat /\ Len(Input(f)) # 0
        BY <4>2, <4>3
      <4> QED
        BY <4>2, <4>4, <4>5, <4>6
    <3>2. /\ <<Head(Input(f))>> \in Seq(Features) /\ Len(<<Head(Input(f))>>) = 1
          /\ <<Head(Input(f))>>[1] = Head(Input(f))
      <4>1. Head(Input(f)) \in Features
        BY <1>1, <2>5, HeadTailProperties
      <4> QED
        BY <4>1
    <3>3. Head(Input(f)) = Input(f)[1]
      OBVIOUS
    <3>4. \A i \in 1..Len(Input(f)) : Input(f)[i] = <<Head(Input(f))>>[i]
      BY <3>1, <3>2, <3>3
    <3>5. Input(f) = <<Head(Input(f))>>
      BY <1>1, <3>1, <3>2, <3>4, SeqEqual
    <3> QED
      BY <2>4, <2>5, <3>5, WhatIsExpected
  <2> QED
    BY <1>5, <2>4, <2>5, WhatIsExpected
<1>6. CASE habit[f] = "head" /\ Output(f) > 0
  <2>1. Len(Through(f)) = Output(f)
    BY ThroughType, ConcatProperties DEF Through, Output, IInv
  <2>2. Len(Through(f)) = 1
    <3>1. Len(Through(f)) + Len(held[f]) <= 1 /\ Len(held[f]) = 0
      BY <1>1, <1>6, EmptySeq DEF FlowOf
    <3>2. Len(Through(f)) \in Nat
      BY <1>1, LenProperties
    <3> QED
      BY <1>6, <2>1, <3>1, <3>2
  <2>3. /\ Len(Through(f) \o queue[Orig(f)]) = 1 + Len(queue[Orig(f)])
        /\ (Through(f) \o queue[Orig(f)])[1] = Through(f)[1]
        /\ Len(queue[Orig(f)]) \in Nat
    <3>1. /\ Len(queue[Orig(f)]) \in Nat
          /\ Len(Through(f) \o queue[Orig(f)]) = Len(Through(f)) + Len(queue[Orig(f)])
          /\ \A i \in 1..Len(Through(f)) + Len(queue[Orig(f)]) :
                (Through(f) \o queue[Orig(f)])[i]
                    = IF i <= Len(Through(f)) THEN Through(f)[i]
                      ELSE queue[Orig(f)][i - Len(Through(f))]
      BY <1>1, ConcatProperties, LenProperties
    <3>2. 1 \in 1..Len(Through(f)) + Len(queue[Orig(f)]) /\ 1 <= Len(Through(f))
      BY <2>2, <3>1
    <3> QED
      BY <2>2, <3>1, <3>2
  <2>4. /\ Len(SubSeq(Input(f), 1, written[f])) = written[f]
        /\ written[f] >= 1 => SubSeq(Input(f), 1, written[f])[1] = Input(f)[1]
    <3>1. \A i \in 1..written[f] : Input(f)[i] \in Features
      BY <1>1, ElementOfSeq DEF FlowOf
    <3>2. /\ Len(SubSeq(Input(f), 1, written[f]))
                = IF 1 <= written[f] THEN written[f] - 1 + 1 ELSE 0
          /\ \A i \in 1..written[f] - 1 + 1 : SubSeq(Input(f), 1, written[f])[i] = Input(f)[1 + i - 1]
      BY <1>1, <3>1, SubSeqProperties
    <3>3. Len(SubSeq(Input(f), 1, written[f])) = written[f]
      BY <1>1, <3>2
    <3>4. ASSUME written[f] >= 1 PROVE SubSeq(Input(f), 1, written[f])[1] = Input(f)[1]
      <4>1. 1 \in 1..written[f] - 1 + 1 /\ 1 + 1 - 1 = 1
        BY <1>1, <3>4
      <4>2. SubSeq(Input(f), 1, written[f])[1] = Input(f)[1 + 1 - 1]
        BY <3>2, <4>1
      <4> QED
        BY <4>1, <4>2
    <3> QED
      BY <3>3, <3>4
  <2>5. written[f] >= 1 /\ Through(f)[1] = Input(f)[1] /\ Input(f) # <<>>
    <3>1. written[f] = 1 + Len(queue[Orig(f)])
      BY <1>3, <2>3, <2>4
    <3>2. written[f] >= 1
      BY <2>3, <3>1
    <3>3. Len(Input(f)) # 0
      BY <1>1, <3>2 DEF FlowOf
    <3> QED
      BY <1>3, <2>3, <2>4, <3>2, <3>3, EmptySeq
  <2>6. Through(f) = <<Head(Input(f))>>
    <3>1. /\ <<Head(Input(f))>> \in Seq(Features) /\ Len(<<Head(Input(f))>>) = 1
          /\ <<Head(Input(f))>>[1] = Head(Input(f))
      <4>1. Head(Input(f)) \in Features
        BY <1>1, <2>5, HeadTailProperties
      <4> QED
        BY <4>1
    <3>2. Head(Input(f)) = Input(f)[1]
      OBVIOUS
    <3>3. \A i \in 1..Len(Through(f)) : Through(f)[i] = <<Head(Input(f))>>[i]
      BY <2>2, <2>5, <3>1, <3>2
    <3> QED
      BY <1>1, <2>2, <3>1, <3>3, SeqEqual
  <2> QED
    BY <1>6, <2>5, <2>6, WhatIsExpected
<1> QED
  BY <1>4, <1>5, <1>6 DEF FilterExits

LEMMA FilterExitsIInv ==
    ASSUME IInv, NEW f \in Filters, FilterExits(f)
    PROVE  IInv'
<1> Through(f) = Expected(f)
  BY ExitedWith
<1> USE DEF IInv, FilterExits
<1>1. /\ status \in [Filters -> {"none", "child", "running", "exited"}]
      /\ fds \in [Processes -> SUBSET Ends]
      /\ Program \in Processes /\ \A g \in Filters : g # Program /\ g \in Processes
  BY FilterNames DEF Shapes, Processes
<1>2. Shapes'
  BY <1>1 DEF Shapes
<1>3. OneAtATime'
  BY DEF OneAtATime
<1>4. InStep'
  BY <1>1 DEF InStep, InStepOf, Over
<1>5. ProgramEnds'
  BY <1>1 DEF ProgramEnds, ProgramEndsOf
<1>6. ChildEnds'
  BY <1>1 DEF ChildEnds, ChildEndsOf
<1>7. Flow'
  <2> SUFFICES ASSUME NEW g \in Filters PROVE FlowOf(g)'
    BY DEF Flow
  <2>1. CASE g # f
    BY <1>1, <2>1, SameInput, FlowKept DEF Flow
  <2>2. CASE g = f
    <3>1. Through(f)' = Through(f) /\ Input(f)' = Input(f)
      BY SameInput DEF Through
    <3>2. Expected(f)' = Expected(f)
      BY <3>1, Zenon DEF Expected
    <3>3. FlowOf(f) /\ status'[f] = "exited"
      BY <1>1 DEF Flow
    <3> QED
      BY <2>2, <3>1, <3>2, <3>3 DEF FlowOf
  <2> QED
    BY <2>1, <2>2
<1> QED
  BY <1>2, <1>3, <1>4, <1>5, <1>6, <1>7

-----------------------------------------------------------------------------
(* The writer thread. *)

\* A filter that is yet to exit can still be written to.
LEMMA BrokenWhenExited ==
    ASSUME IInv, NEW f \in Filters, writer[f] = "writing", Broken(Orig(f))
    PROVE  status[f] = "exited"
<1>1. f \in Processes /\ Out(Orig(f)) \notin fds[f]
  BY DEF Broken, Processes
<1>2. status[f] # "running" /\ status[f] # "child"
  BY <1>1 DEF IInv, ChildEnds, ChildEndsOf, Own
<1>3. status[f] # "none"
  BY DEF IInv, InStep, InStepOf, Inside
<1> QED
  BY <1>2, <1>3 DEF IInv, Shapes

LEMMA WriteOutIInv ==
    ASSUME IInv, NEW f \in Filters, WriteOut(f)
    PROVE  IInv'
<1> USE DEF IInv, WriteOut
<1>1. /\ queue \in [Pipes -> Seq(Features)] /\ written \in [Filters -> Nat]
      /\ Orig(f) \in Pipes /\ Filtered(f) \in Pipes /\ Orig(f) # Filtered(f)
  BY PipeNames DEF Shapes
<1> DEFINE e == Input(f)[written[f] + 1]
<1>2. /\ Input(f) \in Seq(Features) /\ Len(Input(f)) \in Nat
      /\ written[f] \in Nat /\ written[f] < Len(Input(f))
  BY <1>1, InputTypes DEF InputsTyped
<1>3. e \in Features
  BY <1>2, ElementOfSeq
<1>4. /\ queue'[Orig(f)] = Append(queue[Orig(f)], e) /\ queue'[Filtered(f)] = queue[Filtered(f)]
      /\ queue' = [queue EXCEPT ![Orig(f)] = Append(queue[Orig(f)], e)]
      /\ written'[f] = written[f] + 1
  BY <1>1
<1> HIDE DEF e
<1>5. /\ Append(queue[Orig(f)], e) \in Seq(Features)
      /\ Len(Append(queue[Orig(f)], e)) = Len(queue[Orig(f)]) + 1
  BY <1>1, <1>3, AppendProperties
<1>6. Shapes'
  <2>1. Len(Append(queue[Orig(f)], e)) <= Capacity
    <3>1. Len(queue[Orig(f)]) \in Nat /\ Len(queue[Orig(f)]) < Capacity
      BY <1>1, LenProperties
    <3> QED
      BY <1>5, <3>1, CapacityAssumption
  <2>2. written' \in [Filters -> Nat] /\ queue' \in [Pipes -> Seq(Features)]
    BY <1>1, <1>4, <1>5
  <2>3. \A p \in Pipes : Len(queue'[p]) <= Capacity
    BY <1>1, <1>4, <2>1 DEF Shapes
  <2> QED
    BY <2>2, <2>3 DEF Shapes
<1>7. OneAtATime' /\ InStep' /\ ProgramEnds' /\ ChildEnds'
  BY StandingKept
<1>8. Flow'
  <2> SUFFICES ASSUME NEW g \in Filters PROVE FlowOf(g)'
    BY DEF Flow
  <2>1. CASE g # f
    BY <1>1, <2>1, PipeNames, SameInput, FlowKept DEF Flow
  <2>2. CASE g = f
    <3>1. Through(f)' = Through(f) /\ Input(f)' = Input(f)
      BY <1>4, SameInput DEF Through
    <3>2. Expected(f)' = Expected(f)
      BY <3>1, Zenon DEF Expected
    <3>3. /\ FlowOf(f) /\ writer[f] = "writing" /\ queue[Orig(f)] \in Seq(Features)
          /\ Through(f) \o held[f] \in Seq(Features)
      BY ThroughType DEF Flow
    <3>4. status[f] # "exited" => (Through(f) \o held[f]) \o Append(queue[Orig(f)], e)
                                     = SubSeq(Input(f), 1, written[f] + 1)
      <4>1. (Through(f) \o held[f]) \o Append(queue[Orig(f)], e)
                = Append((Through(f) \o held[f]) \o queue[Orig(f)], e)
        <5>1. \A s, t \in Seq(Features) : s \o Append(t, e) = Append(s \o t, e)
          BY <1>3, AppendToConcat
        <5> QED
          BY <3>3, <5>1
      <4>2. SubSeq(Input(f), 1, written[f] + 1) = Append(SubSeq(Input(f), 1, written[f]), e)
        BY <1>2, OneMore DEF e
      <4> QED
        BY <3>3, <4>1, <4>2 DEF FlowOf
    <3>5. written[f] + 1 <= Len(Input(f))
      BY <1>2
    <3> QED
      BY <1>4, <2>2, <3>1, <3>2, <3>3, <3>4, <3>5 DEF FlowOf
  <2> QED
    BY <2>1, <2>2
<1> QED
  BY <1>6, <1>7, <1>8

LEMMA WriteBrokenIInv ==
    ASSUME IInv, NEW f \in Filters, WriteBroken(f)
    PROVE  IInv'
<1>1. status[f] = "exited"
  BY BrokenWhenExited DEF WriteBroken
<1> USE DEF IInv, WriteBroken
<1>2. written \in [Filters -> Nat] /\ written'[f] = written[f] + 1
  BY DEF Shapes
<1>3. Len(Input(f)) \in Nat /\ written[f] \in Nat /\ written[f] < Len(Input(f))
  BY <1>2, InputTypes DEF InputsTyped
<1>4. Shapes'
  BY <1>2 DEF Shapes
<1>5. OneAtATime' /\ InStep' /\ ProgramEnds' /\ ChildEnds'
  BY StandingKept
<1>6. Flow'
  <2> SUFFICES ASSUME NEW g \in Filters PROVE FlowOf(g)'
    BY DEF Flow
  <2>1. CASE g # f
    BY <1>2, <2>1, SameInput, FlowKept DEF Flow
  <2>2. CASE g = f
    <3>1. Through(f)' = Through(f) /\ Input(f)' = Input(f)
      BY SameInput DEF Through
    <3>2. Expected(f)' = Expected(f)
      BY <3>1, Zenon DEF Expected
    <3>3. FlowOf(f) /\ writer[f] = "writing"
      BY DEF Flow
    <3>4. written[f] + 1 <= Len(Input(f))
      BY <1>3
    <3> QED
      BY <1>1, <1>2, <2>2, <3>1, <3>2, <3>3, <3>4 DEF FlowOf
  <2> QED
    BY <2>1, <2>2
<1> QED
  BY <1>4, <1>5, <1>6

LEMMA CloseWriterIInv ==
    ASSUME IInv, NEW f \in Filters, CloseWriter(f)
    PROVE  IInv'
<1> USE DEF IInv, CloseWriter
<1>1. /\ setup \in [Filters -> Stages] /\ writer \in [Filters -> {"none", "writing", "ended"}]
      /\ fds \in [Processes -> SUBSET Ends]
      /\ Program \in Processes /\ \A g \in Filters : g # Program /\ g \in Processes
  BY FilterNames DEF Shapes, Processes
<1>2. fds'[Program] = fds[Program] \ {In(Orig(f))} /\ writer'[f] = "ended"
  BY <1>1
<1>3. setup[f] \notin {"idle", "locked", "piped", "forked"}
  BY DEF InStep, InStepOf, Inside
<1>4. Shapes'
  BY <1>1 DEF Shapes
<1>5. OneAtATime'
  BY DEF OneAtATime
<1>6. InStep'
  BY <1>1 DEF InStep, InStepOf
<1>7. ProgramEnds'
  <2> SUFFICES ASSUME NEW g \in Filters PROVE ProgramEndsOf(g)'
    BY DEF ProgramEnds
  <2>1. CASE g = f
    BY <1>2, <1>3, <2>1, OwnDistinct DEF ProgramEnds, ProgramEndsOf
  <2>2. CASE g # f
    <3>1. In(Orig(f)) \notin Own(g)
      BY <2>2, OwnDistinct DEF Own
    <3>2. ProgramEndsOf(g) /\ writer'[g] = writer[g]
      BY <1>1, <2>2 DEF ProgramEnds
    <3> QED
      BY <1>2, <3>1, <3>2 DEF ProgramEndsOf, Own
  <2> QED
    BY <2>1, <2>2
<1>8. ChildEnds'
  BY <1>1 DEF ChildEnds, ChildEndsOf
<1>9. Flow'
  <2> SUFFICES ASSUME NEW g \in Filters PROVE FlowOf(g)'
    BY DEF Flow
  <2>1. CASE g # f
    BY <1>1, <2>1, SameInput, FlowKept DEF Flow
  <2>2. CASE g = f
    <3>1. Through(f)' = Through(f) /\ Input(f)' = Input(f)
      BY SameInput DEF Through
    <3>2. Expected(f)' = Expected(f)
      BY <3>1, Zenon DEF Expected
    <3>3. FlowOf(f) /\ written[f] = Len(Input(f))
      BY DEF Flow, WriterDone
    <3> QED
      BY <1>2, <2>2, <3>1, <3>2, <3>3 DEF FlowOf
  <2> QED
    BY <2>1, <2>2
<1> QED
  BY <1>4, <1>5, <1>6, <1>7, <1>8, <1>9

-----------------------------------------------------------------------------
(* The tile thread again. *)

\* Only a filter that has not begun yet can see its input change.
LEMMA InputKeptByReading ==
    ASSUME IInv, NEW f \in Filters, NEW g \in Filters, setup[f] = "reading",
           setup[g] # "idle", \A h \in Filters : h # f => got'[h] = got[h]
    PROVE  Input(g)' = Input(g)
<1>1. CASE g[2] % 2 = 1
  BY <1>1 DEF Input
<1>2. CASE g[2] % 2 # 1
  <2>1. Before(g) \in Filters /\ Before(g)[1] = g[1] /\ Before(g)[2] < g[2]
    BY <1>2, BeforeIsFilter
  <2>2. setup[Before(g)] = "returned"
    BY <2>1 DEF IInv, OneAtATime
  <2>3. got'[Before(g)] = got[Before(g)]
    BY <2>1, <2>2
  <2> QED
    BY <1>2, <2>3 DEF Input, Before
<1> QED
  BY <1>1, <1>2

LEMMA ReadBackIInv ==
    ASSUME IInv, NEW f \in Filters, ReadBack(f)
    PROVE  IInv'
<1> USE DEF IInv, ReadBack, MayRead
<1>1. /\ queue \in [Pipes -> Seq(Features)] /\ got \in [Filters -> Seq(Features)]
      /\ Orig(f) \in Pipes /\ Filtered(f) \in Pipes /\ Orig(f) # Filtered(f)
  BY PipeNames DEF Shapes
<1> DEFINE e == Head(queue[Filtered(f)])
<1>2. /\ queue'[Filtered(f)] = Tail(queue[Filtered(f)]) /\ queue'[Orig(f)] = queue[Orig(f)]
      /\ got'[f] = Append(got[f], e) /\ queue[Filtered(f)] # <<>>
      /\ got' = [got EXCEPT ![f] = Append(got[f], e)]
  BY <1>1
<1>3. e \in Features /\ Tail(queue[Filtered(f)]) \in Seq(Features)
  BY <1>1, <1>2, HeadTailProperties
<1>4. Append(got[f], e) \in Seq(Features)
  BY <1>1, <1>3, AppendProperties
<1> HIDE DEF e
<1>5. Shapes'
  <2>1. Len(Tail(queue[Filtered(f)])) <= Capacity
    <3>1. /\ Len(Tail(queue[Filtered(f)])) = Len(queue[Filtered(f)]) - 1
          /\ Len(queue[Filtered(f)]) \in Nat /\ Len(queue[Filtered(f)]) <= Capacity
      BY <1>1, <1>2, HeadTailProperties, LenProperties DEF Shapes
    <3> QED
      BY <3>1, CapacityAssumption
  <2>2. got' \in [Filters -> Seq(Features)] /\ queue' \in [Pipes -> Seq(Features)]
    BY <1>1, <1>2, <1>3, <1>4
  <2>3. \A p \in Pipes : Len(queue'[p]) <= Capacity
    BY <1>1, <2>1 DEF Shapes
  <2> QED
    BY <2>2, <2>3 DEF Shapes
<1>6. OneAtATime' /\ InStep' /\ ProgramEnds' /\ ChildEnds'
  BY StandingKept
<1>7. Flow'
  <2> SUFFICES ASSUME NEW g \in Filters PROVE FlowOf(g)'
    BY DEF Flow
  <2>1. \A h \in Filters : h # f => got'[h] = got[h]
    BY <1>1, <1>2
  <2>2. CASE g # f /\ setup[g] # "idle"
    <3>1. Input(g)' = Input(g)
      BY <2>1, <2>2, InputKeptByReading
    <3> QED
      BY <1>1, <2>1, <2>2, <3>1, PipeNames, FlowKept DEF Flow
  <2>3. CASE g # f /\ setup[g] = "idle"
    <3>1. writer[g] = "none" /\ status[g] = "none" /\ setup[g] \notin Over
      BY <2>3 DEF InStep, InStepOf, Over
    <3>2. /\ queue'[Orig(g)] = queue[Orig(g)] /\ queue'[Filtered(g)] = queue[Filtered(g)]
          /\ got'[g] = got[g]
      BY <1>1, <2>1, <2>3, PipeNames
    <3>3. Shapes /\ FlowOf(g)
      BY DEF Flow
    <3>4. UNCHANGED <<written, writer, status, habit, held, setup>>
      OBVIOUS
    <3> HIDE DEF IInv, ReadBack, MayRead
    <3> QED
      BY <1>5, <3>1, <3>2, <3>3, <3>4, FlowBegins
  <2>4. CASE g = f
    <3>1. Input(f)' = Input(f)
      BY <2>1, InputKeptByReading
    <3>2. Through(f)' = Through(f)
      <4>1. got[f] \in Seq(Features) /\ queue[Filtered(f)] \in Seq(Features)
        BY ThroughType
      <4> HIDE DEF IInv, ReadBack, MayRead
      <4>2. Append(got[f], e) \o Tail(queue[Filtered(f)]) = got[f] \o queue[Filtered(f)]
        BY <1>2, <4>1, FeaturesMove DEF e
      <4> QED
        BY <1>2, <4>2 DEF Through
    <3>3. habit' = habit /\ Expected(f)' = Expected(f)
      BY <3>1, Zenon DEF Expected
    <3>4. FlowOf(f) /\ setup[f] \notin Over
      BY DEF Flow, Over
    <3> QED
      BY <1>2, <2>4, <3>1, <3>2, <3>3, <3>4 DEF FlowOf
  <2> QED
    BY <2>2, <2>3, <2>4
<1> QED
  BY <1>5, <1>6, <1>7

\* The end of the file comes when the filter has exited.
LEMMA EndWhenExited ==
    ASSUME IInv, NEW f \in Filters, setup[f] = "reading", AtEnd(Filtered(f))
    PROVE  status[f] = "exited"
<1>1. f \in Processes /\ In(Filtered(f)) \notin fds[f]
  BY DEF AtEnd, Processes
<1>2. status[f] # "running" /\ status[f] # "child"
  BY <1>1 DEF IInv, ChildEnds, ChildEndsOf, Own
<1>3. status[f] # "none"
  BY DEF IInv, InStep, InStepOf
<1> QED
  BY <1>2, <1>3 DEF IInv, Shapes

LEMMA CloseReaderIInv ==
    ASSUME IInv, NEW f \in Filters, CloseReader(f)
    PROVE  IInv'
<1>1. status[f] = "exited" /\ queue[Filtered(f)] = <<>>
  BY EndWhenExited DEF CloseReader, MayRead, AtEnd
<1> USE DEF IInv, CloseReader, MayRead
<1>2. /\ setup \in [Filters -> Stages] /\ fds \in [Processes -> SUBSET Ends]
      /\ Program \in Processes /\ \A g \in Filters : g # Program /\ g \in Processes
  BY FilterNames DEF Shapes, Processes
<1>3. fds'[Program] = fds[Program] \ {Out(Filtered(f))}
  BY <1>2
<1>4. Shapes'
  BY <1>2 DEF Shapes, Stages
<1>5. OneAtATime'
  BY <1>2 DEF OneAtATime, Inside
<1>6. InStep'
  BY <1>1, <1>2 DEF InStep, InStepOf, Inside, Over
<1>7. ProgramEnds'
  <2> SUFFICES ASSUME NEW g \in Filters PROVE ProgramEndsOf(g)'
    BY DEF ProgramEnds
  <2>1. CASE g = f
    BY <1>2, <1>3, <2>1, OwnDistinct DEF ProgramEnds, ProgramEndsOf, Inside
  <2>2. CASE g # f
    <3>1. Out(Filtered(f)) \notin Own(g)
      BY <2>2, OwnDistinct DEF Own
    <3>2. ProgramEndsOf(g) /\ setup'[g] = setup[g]
      BY <1>2, <2>2 DEF ProgramEnds
    <3> QED
      BY <1>3, <3>1, <3>2 DEF ProgramEndsOf, Own
  <2> QED
    BY <2>1, <2>2
<1>8. ChildEnds'
  BY <1>2 DEF ChildEnds, ChildEndsOf
<1>9. Flow'
  <2> SUFFICES ASSUME NEW g \in Filters PROVE FlowOf(g)'
    BY DEF Flow
  <2>1. CASE g # f
    BY <1>2, <2>1, SameInput, FlowKept DEF Flow
  <2>2. CASE g = f
    <3>1. Through(f)' = Through(f) /\ Input(f)' = Input(f)
      BY SameInput DEF Through
    <3>2. habit' = habit /\ Expected(f)' = Expected(f)
      BY <3>1, Zenon DEF Expected
    <3> QED
      BY <1>1, <2>2, <3>1, <3>2 DEF Flow, FlowOf
  <2> QED
    BY <2>1, <2>2
<1> QED
  BY <1>4, <1>5, <1>6, <1>7, <1>8, <1>9

\* waitpid() and pthread_join() change no more than how far the tile thread is.
LEMMA WaitJoinIInv ==
    ASSUME IInv, NEW f \in Filters, Wait(f) \/ Join(f)
    PROVE  IInv'
<1>1. /\ setup[f] \in {"closed", "waited"} /\ setup'[f] \in {"waited", "returned"}
      /\ setup'[f] = "returned" => writer[f] = "ended"
      /\ setup' \in [Filters -> Stages] /\ \A g \in Filters : g # f => setup'[g] = setup[g]
      /\ UNCHANGED <<lock, fds, cloexec, queue, written, writer, status, habit, held, got>>
  BY DEF IInv, Shapes, Stages, Wait, Join, Joined
<1> USE DEF IInv
<1>2. Shapes'
  BY <1>1 DEF Shapes
<1>3. OneAtATime'
  BY <1>1 DEF OneAtATime, Inside
<1>4. InStep' /\ ProgramEnds' /\ ChildEnds'
  BY <1>1 DEF InStep, InStepOf, ProgramEnds, ProgramEndsOf, ChildEnds, ChildEndsOf,
      Inside, Over
<1>5. Flow'
  <2> SUFFICES ASSUME NEW g \in Filters PROVE FlowOf(g)'
    BY DEF Flow
  <2>1. setup'[g] \in Over <=> setup[g] \in Over
    BY <1>1 DEF Over
  <2> QED
    BY <1>1, <2>1, SameInput, FlowKept DEF Flow
<1> QED
  BY <1>2, <1>3, <1>4, <1>5

-----------------------------------------------------------------------------
(* Every step. *)

LEMMA NextIInv == IInv /\ [Next]_vars => IInv'
<1> SUFFICES ASSUME IInv, [Next]_vars PROVE IInv'
  OBVIOUS
<1>1. ASSUME NEW t \in Threads, TileThread(t) PROVE IInv'
  <2>1. PICK n \in 1..Calls[t] :
            LET f == <<t, n>>
            IN  \/ Lock(f) \/ MakePipes(f) \/ Fork(f) \/ Unlock(f)
                \/ ReadBack(f) \/ CloseReader(f) \/ Wait(f) \/ Join(f)
    BY <1>1 DEF TileThread
  <2> DEFINE f == <<t, n>>
  <2>2. f \in Filters
    BY FilterAt
  <2>3. \/ Lock(f) \/ MakePipes(f) \/ Fork(f) \/ Unlock(f)
        \/ ReadBack(f) \/ CloseReader(f) \/ Wait(f) \/ Join(f)
    BY <2>1
  <2> HIDE DEF f
  <2> QED
    BY <2>2, <2>3, LockIInv, MakePipesIInv, ForkIInv, UnlockIInv, ReadBackIInv,
       CloseReaderIInv, WaitJoinIInv
<1>2. ASSUME NEW f \in Filters, WriterThread(f) PROVE IInv'
  BY <1>2, WriteOutIInv, WriteBrokenIInv, CloseWriterIInv DEF WriterThread
<1>3. ASSUME NEW f \in Filters, Filter(f) PROVE IInv'
  BY <1>3, ExecIInv, FilterReadsIInv, FilterWritesIInv, FilterExitsIInv DEF Filter
<1>4. ASSUME UNCHANGED vars PROVE IInv'
  <2>1. /\ Shapes' /\ OneAtATime' /\ InStep' /\ ProgramEnds' /\ ChildEnds'
    BY <1>4, StandingKept DEF IInv, Shapes, vars
  <2>2. Flow'
    BY <1>4, SameInput, FlowKept DEF IInv, Flow, vars
  <2> QED
    BY <2>1, <2>2 DEF IInv
<1> QED
  BY <1>1, <1>2, <1>3, <1>4 DEF Next

LEMMA IInvPassesOn == IInv => PassedOn
<1> SUFFICES ASSUME IInv PROVE PassedOn
  OBVIOUS
<1>1. TypeOK
  BY DEF TypeOK, IInv, Shapes
<1>2. OwnEndsOnly
  BY DEF OwnEndsOnly, IInv, ChildEnds, ChildEndsOf
<1>3. AllThrough
  <2> SUFFICES ASSUME NEW f \in Filters, setup[f] = "returned"
               PROVE  /\ writer[f] = "ended" /\ written[f] = Len(Input(f))
                      /\ got[f] = Expected(f)
                      /\ \A p \in {Orig(f), Filtered(f)} : {In(p), Out(p)} \cap fds[Program] = {}
    BY DEF AllThrough
  <2>1. writer[f] = "ended" /\ status[f] = "exited"
    BY DEF IInv, InStep, InStepOf, Over
  <2>2. /\ written[f] = Len(Input(f)) /\ Through(f) = Expected(f)
        /\ queue[Filtered(f)] = <<>>
    BY <2>1 DEF IInv, Flow, FlowOf, Over
  <2>3. got[f] = Expected(f)
    <3>1. got[f] \in Seq(Features)
      BY DEF IInv, Shapes
    <3> QED
      BY <2>2, <3>1, ConcatEmptySeq DEF Through
  <2>4. \A p \in {Orig(f), Filtered(f)} : {In(p), Out(p)} \cap fds[Program] = {}
    BY <2>1 DEF IInv, ProgramEnds, ProgramEndsOf
  <2> QED
    BY <2>1, <2>2, <2>3, <2>4
<1> QED
  BY <1>1, <1>2, <1>3 DEF PassedOn

-----------------------------------------------------------------------------

\* A filter has its own pipe ends open and nobody else's, whatever is forked meanwhile;
\* and when its call has returned, all that it wrote has been read, all that it should
\* have seen has been written, and none of its pipes is open any more.
THEOREM PassesOn == Spec => []PassedOn
<1>1. Init => IInv
  BY InitIInv
<1>2. IInv /\ [Next]_vars => IInv'
  BY NextIInv
<1>3. IInv => PassedOn
  BY IInvPassesOn
<1> QED
  BY <1>1, <1>2, <1>3, PTL DEF Spec

=============================================================================
