------------------------- MODULE TilePyramidProofs -------------------------
(***************************************************************************)
(* Theorems about TilePyramid.                                             *)
(***************************************************************************)
EXTENDS TilePyramid, TLAPS, WellFoundedInduction

\* A nonempty set of tiles has a first one, in the order of the loops of
\* rewrite().
LEMMA FirstOfIn ==
    ASSUME NEW K, K \subseteq Data, K # {}
    PROVE  FirstOf(K) \in K
<1> DEFINE LT == OpToRel(<, Nat)
           R == LexPairOrdering(LT, LT, Nat, Nat)
           T == {<<c[2], c[3]>> : c \in K}
<1>1. IsWellFoundedOn(R, Nat \X Nat)
  BY NatLessThanWellFounded, WFLexPairOrdering
<1>2. \A c \in K : c[2] \in Nat /\ c[3] \in Nat
  BY DataAssumption DEF DataAssumption
<1>3. T \subseteq Nat \X Nat /\ T # {}
  <2>1. \A c \in K : <<c[2], c[3]>> \in Nat \X Nat
    BY <1>2
  <2> QED
    BY <2>1, Zenon
<1>4. PICK p \in T : \A q \in T : ~ (<<q, p>> \in R)
  BY <1>1, <1>3, WFMin
<1>5. PICK c \in K : p = <<c[2], c[3]>>
  OBVIOUS
<1>6. \A d \in K : c[2] < d[2] \/ (c[2] = d[2] /\ c[3] <= d[3])
  <2> SUFFICES ASSUME NEW d \in K
               PROVE  c[2] < d[2] \/ (c[2] = d[2] /\ c[3] <= d[3])
    OBVIOUS
  <2>1. c[2] \in Nat /\ c[3] \in Nat /\ d[2] \in Nat /\ d[3] \in Nat
    BY <1>2
  <2>2. ~ (<<<<d[2], d[3]>>, <<c[2], c[3]>>>> \in R)
    BY <1>4, <1>5
  <2> QED
    BY <2>1, <2>2 DEF LexPairOrdering, OpToRel
<1> QED
  BY <1>6 DEF FirstOf

-----------------------------------------------------------------------------
(***************************************************************************)
(* Type correctness                                                        *)
(***************************************************************************)
LEMMA Constants ==
    /\ MinZoom \in Nat /\ MaxZoom \in Nat /\ ZoomLimit \in Nat /\ ExtendMax \in Nat
    /\ MaxGamma \in Nat /\ MaxDrop \in Nat
    /\ CPUs \in Nat \ {0} /\ TempFiles \in Nat /\ TempFiles >= 4
    /\ 0 \in Files /\ 0 \in Threads
    /\ 1 \in ThreadCounts /\ ThreadCounts \subseteq Nat \ {0}
    /\ \A t \in Data : t[1] \in Zooms /\ t[1] \in Nat
    /\ Root \in Data
BY ZoomAssumption, DataAssumption, StrategyAssumption, ThreadAssumption
   DEF ZoomAssumption, DataAssumption, StrategyAssumption, ThreadAssumption,
       Files, Threads, ThreadCounts, Zooms

\* The tile a thread is at is a tile.
LEMMA CurrentIsTile ==
    ASSUME TypeOK, NEW w \in Threads, AtTile(w)
    PROVE  /\ thread[w].file \in Files
           /\ thread[w].pos \in DOMAIN files[thread[w].file]
           /\ Current(w) \in Data
<1>1. /\ thread[w].file \in Files /\ thread[w].pos \in Nat \ {0}
      /\ files[thread[w].file] \in Seq(Data)
  BY DEF TypeOK, ThreadType
<1> QED
  BY <1>1 DEF AtTile, Current

\* Rewriting a tile leaves every file for the next zoom as it was, or adds the
\* header of one of the tile's children to it.
LEMMA RewriteOneChild ==
    ASSUME TypeOK, NEW w \in Threads, NEW t \in Data, WriteChildren(w, t)
    PROVE  /\ sub' \in [Files -> Seq(Data)]
           /\ \A j \in Files :
                \/ sub'[j] = sub[j]
                \/ \E c \in Children(t, main.threads) : sub'[j] = Append(sub[j], c)
<1> DEFINE n == main.threads
           kids(j) == {c \in Children(t, n) : Shard(w, c, n) = j}
           R == Rewrite(w, t, n, main.maxzoom, main.extend)
<1>1. sub \in [Files -> Seq(Data)]
  BY DEF TypeOK
<1>2. \A j \in Files : kids(j) \subseteq Data
  BY DEF Children
<1>3. \A j \in Files : kids(j) # {} => FirstOf(kids(j)) \in kids(j)
  BY <1>2, FirstOfIn
<1>4. \A j \in Files : R[j] = sub[j] \/ (kids(j) # {} /\ R[j] = Append(sub[j], FirstOf(kids(j))))
  BY DEF Rewrite
<1>5. \A j \in Files : R[j] = sub[j] \/ \E c \in kids(j) : R[j] = Append(sub[j], c)
  BY <1>3, <1>4
<1>6. R = [j \in Files |-> R[j]]
  BY DEF Rewrite
<1>7. ASSUME NEW j \in Files PROVE R[j] \in Seq(Data)
  <2>1. sub[j] \in Seq(Data)
    BY <1>1
  <2>2. CASE R[j] = sub[j]
    BY <2>1, <2>2
  <2>3. CASE \E c \in kids(j) : R[j] = Append(sub[j], c)
    <3>1. PICK c \in kids(j) : R[j] = Append(sub[j], c)
      BY <2>3
    <3>2. c \in Data
      BY <1>2
    <3> QED
      BY <2>1, <3>1, <3>2
  <2> QED
    BY <1>5, <2>2, <2>3
<1>8. R \in [Files -> Seq(Data)]
  BY <1>6, <1>7
<1>9. sub' = R \/ sub' = sub
  BY DEF WriteChildren
<1> HIDE DEF R, n
<1> QED
  BY <1>1, <1>5, <1>8, <1>9 DEF n

\* The thresholds that a tile needs are at least those of the pass.
LEMMA ThresholdsFor ==
    ASSUME TypeOK, NEW t \in Data
    PROVE  /\ GammaFor(t) \in 0 .. MaxGamma /\ GammaFor(t) >= main.gamma
           /\ DropFor(t) \in Nat /\ DropFor(t) >= main.drop
<1>1. /\ need[t] \in Nat \cup {-1}
      /\ main.gamma \in 0 .. MaxGamma /\ main.drop \in 0 .. MaxDrop
  BY DEF TypeOK, MainType
<1>2. MaxGamma \in Nat /\ MaxDrop \in Nat
  BY Constants
<1>3. GammaFor(t) \in 0 .. MaxGamma /\ GammaFor(t) >= main.gamma
  BY <1>1, <1>2 DEF GammaFor, Fits, Least
<1> HIDE DEF GammaFor
<1> QED
  BY <1>1, <1>2, <1>3 DEF DropFor, Fits

LEMMA FreshThreadType ==
    ASSUME NEW on
    PROVE  FreshThread(on) \in ThreadType
BY Constants DEF FreshThread, ThreadType

LEMMA JoiningType ==
    ASSUME TypeOK, NEW k \in Zooms \cup {-1}
    PROVE  /\ Joining(k) \in MainType
           /\ Joining(k).z = ZoomOut(k) /\ ZoomOut(k) \in Nat /\ ZoomOut(k) >= main.z
           /\ Joining(k).phase = main.phase /\ Joining(k).threads = main.threads
           /\ Joining(k).gamma = main.gamma /\ Joining(k).drop = main.drop
<1>1. main \in MainType /\ thread \in [Threads -> ThreadType]
  BY DEF TypeOK
<1>2. k \in Nat \cup {-1}
  BY Constants DEF Zooms
<1>3. ZoomOut(k) \in Nat /\ ZoomOut(k) >= main.z /\ Most(main.largest, k) \in Nat \cup {-1}
  BY <1>1, <1>2 DEF ZoomOut, Most, MainType
<1>4. FailedOut \in BOOLEAN
  BY <1>1 DEF FailedOut, MainType
<1> DEFINE mz == IF Extends(k) THEN main.maxzoom + 1 ELSE main.maxzoom
           ex == IF Extends(k) /\ main.extend > 0 THEN main.extend - 1 ELSE main.extend
<1>5. mz \in Nat /\ ex \in Nat
  BY <1>1 DEF MainType
<1>6. Joining(k) = [main EXCEPT !.z = ZoomOut(k), !.largest = Most(main.largest, k),
                                !.failed = FailedOut, !.maxzoom = mz, !.extend = ex]
  BY DEF Joining
<1> HIDE DEF mz, ex
<1> QED
  BY <1>1, <1>3, <1>4, <1>5, <1>6 DEF MainType

LEMMA TypeInit == Init => TypeOK
<1> SUFFICES ASSUME Init PROVE TypeOK
  OBVIOUS
<1>1. need \in [Data -> Nat \cup {-1}]
  BY StrategyAssumption DEF StrategyAssumption, Init
<1>2. files \in [Files -> Seq(Data)] /\ sub \in [Files -> Seq(Data)]
  <2>1. <<Root>> \in Seq(Data) /\ <<>> \in Seq(Data)
    BY Constants
  <2> QED
    BY <2>1 DEF Init
<1>3. main \in MainType
  BY Constants DEF Init, MainType, Zooms
<1>4. thread \in [Threads -> ThreadType]
  BY FreshThreadType DEF Init
<1>5. log \in [Zooms -> LogType]
  BY DEF Init, LogType
<1> QED
  BY <1>1, <1>2, <1>3, <1>4, <1>5, Constants DEF Init, TypeOK

LEMMA TiledType ==
    ASSUME NEW th \in ThreadType, NEW t \in Data, NEW leaf \in BOOLEAN,
           NEW g \in 0 .. MaxGamma, NEW d \in 0 .. MaxDrop
    PROVE  Tiled(th, t, g, d, leaf) \in ThreadType
<1>1. /\ Most(g, th.gamma) \in 0 .. MaxGamma /\ Most(d, th.drop) \in 0 .. MaxDrop
      /\ th.pos + 1 \in Nat \ {0} /\ t[1] \in Nat
  BY Constants DEF ThreadType, Most
<1>2. (th.still \/ g > th.gamma \/ d > th.drop) \in BOOLEAN
  BY DEF ThreadType
<1>3. (IF leaf THEN th.skipOut \cup {t} ELSE th.skipOut) \in SUBSET Data
  BY DEF ThreadType
<1> QED
  BY <1>1, <1>2, <1>3 DEF Tiled, ThreadType

\* A thread's state is replaced by another.
LEMMA ThreadUpdate ==
    ASSUME TypeOK, NEW w \in Threads, NEW th \in ThreadType
    PROVE  [thread EXCEPT ![w] = th] \in [Threads -> ThreadType]
BY DEF TypeOK

LEMMA TypeTakeFile ==
    ASSUME TypeOK, NEW w \in Threads, TakeFile(w)
    PROVE  TypeOK'
<1>1. PICK j \in tasks :
        /\ tasks' = tasks \ {j}
        /\ thread' = IF open[j]
                     THEN [thread EXCEPT ![w] = [@ EXCEPT !.pc = "file", !.file = j, !.pos = 1]]
                     ELSE thread
  BY DEF TakeFile
<1>2. thread[w] \in ThreadType /\ j \in Files
  BY DEF TypeOK
<1>3. [thread[w] EXCEPT !.pc = "file", !.file = j, !.pos = 1] \in ThreadType
  <2>1. "file" \in {"take", "file", "done"} /\ 1 \in Nat \ {0}
    OBVIOUS
  <2> QED
    BY <1>2, <2>1, Zenon DEF ThreadType
<1>4. thread' \in [Threads -> ThreadType]
  BY <1>1, <1>3, ThreadUpdate DEF TypeOK
<1> QED
  BY <1>1, <1>4 DEF TakeFile, TypeOK

LEMMA TypeNoMoreFiles ==
    ASSUME TypeOK, NEW w \in Threads, NoMoreFiles(w)
    PROVE  TypeOK'
<1>1. thread[w] \in ThreadType
  BY DEF TypeOK
<1>2. [thread[w] EXCEPT !.pc = "done"] \in ThreadType
  BY <1>1 DEF ThreadType
<1>3. thread' \in [Threads -> ThreadType]
  BY <1>2, ThreadUpdate DEF NoMoreFiles
<1> QED
  BY <1>3 DEF NoMoreFiles, TypeOK

LEMMA TypeSkipTile ==
    ASSUME TypeOK, NEW w \in Threads, SkipTile(w)
    PROVE  TypeOK'
<1>1. thread[w] \in ThreadType
  BY DEF TypeOK
<1>2. [thread[w] EXCEPT !.pos = thread[w].pos + 1] \in ThreadType
  BY <1>1 DEF ThreadType
<1>3. thread' \in [Threads -> ThreadType]
  BY <1>2, ThreadUpdate DEF SkipTile
<1> QED
  BY <1>3 DEF SkipTile, TypeOK

LEMMA TypeCloseFile ==
    ASSUME TypeOK, NEW w \in Threads, CloseFile(w)
    PROVE  TypeOK'
<1>1. thread[w] \in ThreadType
  BY DEF TypeOK
<1>2. [thread[w] EXCEPT !.pc = "take"] \in ThreadType
  BY <1>1 DEF ThreadType
<1>3. thread' \in [Threads -> ThreadType]
  BY <1>2, ThreadUpdate DEF CloseFile
<1>4. open' \in [Files -> BOOLEAN]
  BY DEF CloseFile, TypeOK
<1> QED
  BY <1>3, <1>4 DEF CloseFile, TypeOK

LEMMA TypeWriteTile ==
    ASSUME TypeOK, NEW w \in Threads, WriteTile(w)
    PROVE  TypeOK'
<1> DEFINE t == Current(w)
           g == GammaFor(t)
           d == DropFor(t)
<1>1. t \in Data
  BY CurrentIsTile DEF WriteTile
<1>2. main \in MainType /\ thread[w] \in ThreadType
  BY DEF TypeOK
<1>3. g \in 0 .. MaxGamma /\ d \in 0 .. MaxDrop
  <2>1. d \in Nat /\ (d = main.drop \/ d <= MaxDrop)
    BY <1>1, ThresholdsFor DEF WriteTile
  <2>2. main.drop \in 0 .. MaxDrop
    BY <1>2 DEF MainType
  <2> QED
    BY <1>1, <2>1, <2>2, ThresholdsFor, Constants
<1>4. main' \in MainType
  <2>1. [main EXCEPT !.phase = "exists"] \in MainType
    BY <1>2 DEF MainType
  <2> QED
    BY <1>2, <2>1 DEF WriteTile
<1>5. sub' \in [Files -> Seq(Data)]
  BY <1>1, RewriteOneChild DEF WriteTile
<1>6. db' \subseteq Tileset
  <2>1. [tile |-> t, gamma |-> g, drop |-> d] \in Tileset
    BY <1>1, <1>3 DEF Tileset
  <2> QED
    BY <2>1 DEF WriteTile, TypeOK
<1>7. thread' \in [Threads -> ThreadType]
  <2>1. PICK leaf \in BOOLEAN : thread' = [thread EXCEPT ![w] = Tiled(@, t, g, d, leaf)]
    BY DEF WriteTile
  <2>2. Tiled(thread[w], t, g, d, leaf) \in ThreadType
    BY <1>1, <1>2, <1>3, TiledType
  <2> QED
    BY <2>1, <2>2, ThreadUpdate
<1> QED
  BY <1>4, <1>5, <1>6, <1>7 DEF WriteTile, TypeOK

LEMMA TypeGiveUp ==
    ASSUME TypeOK, NEW w \in Threads, GiveUp(w)
    PROVE  TypeOK'
<1>1. main \in MainType
  BY DEF TypeOK
<1>2. main' \in MainType
  BY <1>1 DEF GiveUp, MainType
<1> QED
  BY <1>2 DEF GiveUp, TypeOK

LEMMA TypeFailTile ==
    ASSUME TypeOK, NEW w \in Threads, FailTile(w)
    PROVE  TypeOK'
<1> DEFINE t == Current(w)
           g == GammaFor(t)
           n == Len(files[thread[w].file]) + 1
           th == Tiled(thread[w], t, g, main.drop, FALSE)
<1>1. t \in Data /\ thread[w].file \in Files
  BY CurrentIsTile DEF FailTile
<1>2. thread[w] \in ThreadType /\ main.drop \in 0 .. MaxDrop
  BY DEF TypeOK, MainType
<1>3. g \in 0 .. MaxGamma /\ n \in Nat \ {0}
  BY <1>1, ThresholdsFor DEF TypeOK
<1>4. sub' \in [Files -> Seq(Data)]
  BY <1>1, RewriteOneChild DEF FailTile
<1>5. thread' = [thread EXCEPT ![w] = [th EXCEPT !.pos = n, !.failed = TRUE]]
  BY DEF FailTile
<1>6. th \in ThreadType
  BY <1>1, <1>2, <1>3, TiledType
<1> HIDE DEF th, n
<1>7. [th EXCEPT !.pos = n, !.failed = TRUE] \in ThreadType
  BY <1>3, <1>6 DEF ThreadType
<1>8. thread' \in [Threads -> ThreadType]
  BY <1>5, <1>7, ThreadUpdate
<1> QED
  BY <1>4, <1>8 DEF FailTile, TypeOK

LEMMA TypeNextPass ==
    ASSUME TypeOK, NextPass
    PROVE  TypeOK'
<1>1. PICK g \in 0 .. MaxGamma, d \in 0 .. MaxDrop, k \in Zooms \cup {-1} : Redo(g, d, k)
  BY DEF NextPass
<1>2. main' \in MainType
  <2> DEFINE J == Joining(k)
             pass == Least(main.pass + 1, 2)
             first == d > 0 /\ main.drop = 0
  <2>1. J \in MainType
    BY JoiningType
  <2>2. pass \in 0 .. 2 /\ first \in BOOLEAN
    BY DEF TypeOK, MainType, Least
  <2>3. main' = [J EXCEPT !.pass = pass, !.gamma = g, !.drop = d, !.first = first]
    BY <1>1 DEF Redo
  <2> HIDE DEF J, pass, first
  <2> QED
    BY <2>1, <2>2, <2>3 DEF MainType
<1>3. \A w \in Threads :
        [FreshThread(w < main.threads) EXCEPT !.gamma = g, !.drop = d] \in ThreadType
  <2> TAKE w \in Threads
  <2> DEFINE th == FreshThread(w < main.threads)
  <2>1. th \in ThreadType
    BY FreshThreadType
  <2> HIDE DEF th
  <2>2. [th EXCEPT !.gamma = g, !.drop = d] \in ThreadType
    BY <2>1 DEF ThreadType
  <2> QED
    BY <2>2 DEF th
<1>4. thread' \in [Threads -> ThreadType]
  BY <1>1, <1>3 DEF Redo
<1>5. need' = need /\ files' = files /\ open' = open /\ sub' = sub /\ skip' = skip
      /\ log' = log /\ tasks' \subseteq Files /\ db' \subseteq db
  BY <1>1 DEF Redo, Useful, Erased
<1> QED
  BY <1>2, <1>4, <1>5 DEF TypeOK

LEMMA SkipOutType ==
    ASSUME TypeOK
    PROVE  SkipOut \subseteq Data /\ Joined \subseteq Threads
<1>1. Joined \subseteq Threads
  <2>1. main.threads \in ThreadCounts
    BY DEF TypeOK, MainType
  <2> QED
    BY <2>1, Constants DEF Joined, Threads, ThreadCounts
<1>2. \A w \in Threads : thread[w].skipOut \subseteq Data
  BY DEF TypeOK, ThreadType
<1> QED
  BY <1>1, <1>2 DEF SkipOut

LEMMA FinishedLogType ==
    ASSUME TypeOK, NEW k \in Zooms \cup {-1}
    PROVE  FinishedLog(k) \in [Zooms -> LogType]
<1> DEFINE entry == [passes |-> main.pass + 1, gamma |-> main.gamma,
                     drop |-> main.drop, leaves |-> SkipOut]
<1>3. SkipOut \subseteq Data
  BY SkipOutType
<1>4. entry \in LogType
  <2>1. main.pass \in 0 .. 2 /\ main.gamma \in Nat /\ main.drop \in Nat
    BY Constants DEF TypeOK, MainType
  <2> QED
    BY <2>1, <1>3 DEF LogType
<1> HIDE DEF entry
<1>5. FinishedLog(k) = [log EXCEPT ![ZoomOut(k)] = entry]
  BY DEF FinishedLog, entry
<1> QED
  BY <1>4, <1>5 DEF TypeOK

LEMMA TypeNextLevel ==
    ASSUME TypeOK, NextLevel
    PROVE  TypeOK'
<1>1. PICK k \in Zooms \cup {-1}, n \in ThreadCounts :
        /\ main' = [Joining(k) EXCEPT !.z = ZoomOut(k) + 1, !.pass = 0, !.gamma = 0,
                                      !.drop = 0, !.first = FALSE, !.threads = n]
        /\ thread' = [w \in Threads |-> FreshThread(w < n)]
        /\ log' = FinishedLog(k)
  BY Zenon DEF NextLevel
<1>2. main' \in MainType
  <2> DEFINE J == Joining(k)
             z == ZoomOut(k) + 1
  <2>1. J \in MainType /\ z \in Nat
    BY JoiningType
  <2>2. 0 \in 0 .. MaxGamma /\ 0 \in 0 .. MaxDrop /\ 0 \in 0 .. 2
    BY Constants
  <2>3. main' = [J EXCEPT !.z = z, !.pass = 0, !.gamma = 0, !.drop = 0,
                          !.first = FALSE, !.threads = n]
    BY <1>1
  <2> HIDE DEF J, z
  <2> QED
    BY <2>1, <2>2, <2>3 DEF MainType
<1>3. thread' \in [Threads -> ThreadType]
  BY <1>1, FreshThreadType
<1>4. log' \in [Zooms -> LogType]
  BY <1>1, FinishedLogType
<1>5. skip' \subseteq Data
  BY SkipOutType DEF NextLevel
<1>6. sub' \in [Files -> Seq(Data)] /\ open' \in [Files -> BOOLEAN]
  BY DEF NextLevel
<1>7. need' = need /\ db' = db /\ files' = sub /\ tasks' \subseteq Files
  BY DEF NextLevel, Useful
<1> QED
  BY <1>2, <1>3, <1>4, <1>5, <1>6, <1>7 DEF TypeOK

LEMMA TypeReturn ==
    ASSUME TypeOK, Return
    PROVE  TypeOK'
<1>1. PICK k \in Zooms \cup {-1} :
        /\ \E last \in {Least(Joining(k).maxzoom, Joining(k).largest), Joining(k).maxzoom} :
             /\ last = Joining(k).maxzoom \/ Joining(k).largest >= 0
             /\ main' = [Joining(k) EXCEPT !.maxzoom = last, !.result = last,
                                           !.phase = "complete"]
        /\ log' = FinishedLog(k)
        /\ UNCHANGED <<need, db, files, open, sub, skip, tasks, thread>>
  BY Zenon DEF Return
<1>2. main' \in MainType
  <2> DEFINE J == Joining(k)
  <2>1. J \in MainType
    BY JoiningType
  <2>2. PICK last : /\ last \in {Least(J.maxzoom, J.largest), J.maxzoom}
                    /\ last = J.maxzoom \/ J.largest >= 0
                    /\ main' = [J EXCEPT !.maxzoom = last, !.result = last,
                                         !.phase = "complete"]
    BY <1>1
  <2> HIDE DEF J
  <2>3. last \in Nat
    BY <2>1, <2>2 DEF MainType, Least
  <2> QED
    BY <2>1, <2>2, <2>3 DEF MainType
<1>3. log' \in [Zooms -> LogType]
  BY <1>1, FinishedLogType
<1> QED
  BY <1>1, <1>2, <1>3 DEF TypeOK

LEMMA TypeReturnFailed ==
    ASSUME TypeOK, ReturnFailed
    PROVE  TypeOK'
<1>1. PICK k \in Zooms \cup {-1} :
        main' = [Joining(k) EXCEPT
            !.result = ZoomOut(k) - 1,
            !.phase = IF ZoomOut(k) - 1 > MinZoom THEN "through" ELSE "nodata"]
  BY Zenon DEF ReturnFailed
<1>2. main' \in MainType
  <2> DEFINE J == Joining(k)
             result == ZoomOut(k) - 1
             phase == IF result > MinZoom THEN "through" ELSE "nodata"
  <2>1. J \in MainType /\ result \in Nat \cup {-1}
    BY JoiningType
  <2>2. phase \in {"pass", "exists", "incomplete", "complete", "through", "nodata"}
    OBVIOUS
  <2>3. main' = [J EXCEPT !.result = result, !.phase = phase]
    BY <1>1
  <2> HIDE DEF J, result, phase
  <2> QED
    BY <2>1, <2>2, <2>3 DEF MainType
<1> QED
  BY <1>2 DEF TypeOK, ReturnFailed

LEMMA TypeNext == TypeOK /\ [Next]_vars => TypeOK'
<1> SUFFICES ASSUME TypeOK, [Next]_vars PROVE TypeOK'
  OBVIOUS
<1>1. ASSUME NEW w \in Threads, ThreadStep(w) PROVE TypeOK'
  BY <1>1, TypeTakeFile, TypeNoMoreFiles, TypeSkipTile, TypeWriteTile, TypeGiveUp,
     TypeFailTile, TypeCloseFile DEF ThreadStep
<1>2. CASE MainStep
  BY <1>2, TypeNextPass, TypeNextLevel, TypeReturn, TypeReturnFailed DEF MainStep
<1>3. CASE UNCHANGED vars
  BY <1>3 DEF vars, TypeOK
<1> QED
  BY <1>1, <1>2, <1>3 DEF Next, Over

\* Every variable keeps its type, for all data, limits and numbers of threads.
THEOREM TypeCorrect == Spec => []TypeOK
BY TypeInit, TypeNext, PTL DEF Spec

-----------------------------------------------------------------------------
(***************************************************************************)
(* The tiles of a finished zoom are alike                                  *)
(***************************************************************************)
InProgress == ZoomsInOrder /\ OneZoom /\ ThreadsReport /\ TilesReported

LEMMA UniformInit == Init => UniformInv
<1> SUFFICES ASSUME Init PROVE UniformInv
  OBVIOUS
<1>1. TypeOK
  BY TypeInit
<1>2. ZoomsUniform /\ TilesReported
  BY DEF Init, ZoomsUniform, TilesReported
<1>3. ZoomsInOrder
  BY DEF Init, ZoomsInOrder, Finished
<1>4. OneZoom
  <2>1. \A j \in Files : \A a \in DOMAIN files[j] : files[j][a] = Root
    BY DEF Init
  <2>2. \A j \in Files : DOMAIN sub[j] = {}
    BY DEF Init
  <2>3. main.z = Root[1] /\ Root[1] \in Nat
    BY Constants DEF Init
  <2> QED
    BY <2>1, <2>2, <2>3 DEF OneZoom
<1>5. ThreadsReport
  BY Constants DEF Init, ThreadsReport, FreshThread, Joined, Threads
<1> QED
  BY <1>1, <1>2, <1>3, <1>4, <1>5 DEF UniformInv

\* Steps of a thread that leave its thresholds and its report alone.
LEMMA QuietStep ==
    ASSUME UniformInv, main.phase = "pass", NEW w \in Threads, NEW th \in ThreadType,
           thread' = [thread EXCEPT ![w] = th],
           th.gamma = thread[w].gamma, th.drop = thread[w].drop,
           th.wrote = thread[w].wrote, th.pc # "done" => thread[w].pc # "done",
           UNCHANGED <<db, files, sub, main, log>>
    PROVE  ZoomsUniform' /\ InProgress'
<1>1. thread \in [Threads -> ThreadType]
  BY DEF UniformInv, TypeOK
<1>2. \A v \in Threads : /\ thread'[v].gamma = thread[v].gamma
                         /\ thread'[v].drop = thread[v].drop
                         /\ thread'[v].wrote = thread[v].wrote
                         /\ thread'[v].pc # "done" => thread[v].pc # "done"
  BY <1>1
<1>3. ZoomsInOrder /\ OneZoom /\ ThreadsReport /\ TilesReported /\ ZoomsUniform
  BY DEF UniformInv
<1>4. ZoomsUniform' /\ ZoomsInOrder'
  BY <1>3 DEF ZoomsUniform, ZoomsInOrder, Finished
<1>5. OneZoom'
  BY <1>3 DEF OneZoom
<1>6. ThreadsReport'
  BY <1>2, <1>3 DEF ThreadsReport, Joined
<1>7. TilesReported'
  <2>1. Joined' = Joined /\ Joined \subseteq Threads
    BY SkipOutType DEF Joined, UniformInv
  <2> QED
    BY <1>2, <1>3, <2>1 DEF TilesReported, Finished
<1> QED
  BY <1>4, <1>5, <1>6, <1>7 DEF InProgress

LEMMA UniformTakeFile ==
    ASSUME UniformInv, NEW w \in Threads, TakeFile(w)
    PROVE  ZoomsUniform' /\ (main'.phase = "pass" => InProgress')
<1>1. PICK j \in tasks :
        thread' = IF open[j]
                  THEN [thread EXCEPT ![w] = [@ EXCEPT !.pc = "file", !.file = j, !.pos = 1]]
                  ELSE thread
  BY DEF TakeFile
<1> DEFINE th == IF open[j] THEN [thread[w] EXCEPT !.pc = "file", !.file = j, !.pos = 1]
                 ELSE thread[w]
<1>2. thread[w] \in ThreadType /\ j \in Files /\ thread \in [Threads -> ThreadType]
  BY DEF TypeOK, UniformInv
<1>3. thread' = [thread EXCEPT ![w] = th]
  BY <1>1, <1>2
<1>4. thread' \in [Threads -> ThreadType]
  BY TypeTakeFile DEF TypeOK, UniformInv
<1>5. th \in ThreadType
  BY <1>2, <1>3, <1>4
<1>6. /\ th.gamma = thread[w].gamma /\ th.drop = thread[w].drop
      /\ th.wrote = thread[w].wrote /\ (th.pc # "done" => thread[w].pc # "done")
  BY <1>2 DEF ThreadType, TakeFile, Running
<1> HIDE DEF th
<1> QED
  BY <1>3, <1>5, <1>6, QuietStep DEF TakeFile, Running

LEMMA UniformNoMoreFiles ==
    ASSUME UniformInv, NEW w \in Threads, NoMoreFiles(w)
    PROVE  ZoomsUniform' /\ (main'.phase = "pass" => InProgress')
<1> DEFINE th == [thread[w] EXCEPT !.pc = "done"]
<1>1. thread[w] \in ThreadType
  BY DEF TypeOK, UniformInv
<1>2. th \in ThreadType /\ th.gamma = thread[w].gamma /\ th.drop = thread[w].drop
      /\ th.wrote = thread[w].wrote /\ th.pc = "done"
  BY <1>1 DEF ThreadType
<1>3. thread' = [thread EXCEPT ![w] = th]
  BY DEF NoMoreFiles
<1> HIDE DEF th
<1> QED
  BY <1>2, <1>3, QuietStep DEF NoMoreFiles, Running

LEMMA UniformSkipTile ==
    ASSUME UniformInv, NEW w \in Threads, SkipTile(w)
    PROVE  ZoomsUniform' /\ (main'.phase = "pass" => InProgress')
<1> DEFINE th == [thread[w] EXCEPT !.pos = thread[w].pos + 1]
<1>1. thread[w] \in ThreadType
  BY DEF TypeOK, UniformInv
<1>2. th \in ThreadType /\ th.gamma = thread[w].gamma /\ th.drop = thread[w].drop
      /\ th.wrote = thread[w].wrote /\ th.pc = thread[w].pc
  BY <1>1 DEF ThreadType
<1>3. thread' = [thread EXCEPT ![w] = th]
  BY DEF SkipTile
<1> HIDE DEF th
<1> QED
  BY <1>2, <1>3, QuietStep DEF SkipTile, AtTile, Tiling

LEMMA UniformCloseFile ==
    ASSUME UniformInv, NEW w \in Threads, CloseFile(w)
    PROVE  ZoomsUniform' /\ (main'.phase = "pass" => InProgress')
<1> DEFINE th == [thread[w] EXCEPT !.pc = "take"]
<1>1. thread[w] \in ThreadType
  BY DEF TypeOK, UniformInv
<1>2. th \in ThreadType /\ th.gamma = thread[w].gamma /\ th.drop = thread[w].drop
      /\ th.wrote = thread[w].wrote /\ thread[w].pc # "done"
  BY <1>1 DEF ThreadType, CloseFile, Tiling
<1>3. thread' = [thread EXCEPT ![w] = th]
  BY DEF CloseFile
<1> HIDE DEF th
<1> QED
  BY <1>2, <1>3, QuietStep DEF CloseFile, Tiling

\* A tile in the tileset whose zoom is not finished is of the zoom in progress.
LEMMA NotFinished ==
    ASSUME UniformInv, main.phase = "pass",
           NEW j \in Files, NEW a \in DOMAIN files[j]
    PROVE  /\ files[j][a] \in Data /\ files[j][a][1] \in Zooms
           /\ ~Finished(files[j][a][1])
           /\ \A r \in db : ~Finished(r.tile[1]) => r.tile[1] = files[j][a][1]
<1>1. ZoomsInOrder /\ OneZoom /\ ThreadsReport /\ TilesReported
  BY DEF UniformInv
<1>2. files[j][a] \in Data /\ files[j][a][1] \in Zooms
  <2>1. files[j] \in Seq(Data)
    BY DEF UniformInv, TypeOK
  <2>2. files[j][a] \in Data
    BY <2>1
  <2> QED
    BY <2>2, Constants
<1>3. ~Finished(files[j][a][1])
  <2>1. files[j][a][1] >= main.z
    BY <1>1 DEF OneZoom
  <2>2. main.z \in Nat
    BY DEF UniformInv, TypeOK, MainType
  <2> QED
    BY <1>1, <1>2, <2>1, <2>2 DEF ZoomsInOrder, Zooms
<1>4. ASSUME NEW r \in db, ~Finished(r.tile[1]) PROVE r.tile[1] = files[j][a][1]
  <2>1. PICK w \in Joined : thread[w].wrote = r.tile[1]
    BY <1>1, <1>4 DEF TilesReported
  <2>2. w \in Threads
    BY SkipOutType DEF UniformInv
  <2>3. r.tile[1] \in Nat
    BY Constants DEF UniformInv, TypeOK, Tileset
  <2>4. PICK i \in Files : \E b \in DOMAIN files[i] : thread[w].wrote = files[i][b][1]
    BY <1>1, <2>1, <2>2, <2>3 DEF ThreadsReport
  <2> QED
    BY <1>1, <2>1, <2>4 DEF OneZoom
<1> QED
  BY <1>2, <1>3, <1>4

\* The children that a tile leaves for the next zoom are all of one zoom.
LEMMA OneZoomBelow ==
    ASSUME UniformInv, main.phase = "pass", NEW w \in Threads, AtTile(w),
           WriteChildren(w, Current(w)), files' = files, main'.z = main.z,
           main'.threads = main.threads
    PROVE  OneZoom'
<1> DEFINE t == Current(w)
           f == thread[w].file
           n == main.threads
<1>1. TypeOK /\ OneZoom
  BY DEF UniformInv
<1>2. f \in Files /\ thread[w].pos \in DOMAIN files[f] /\ t \in Data
      /\ t = files[f][thread[w].pos]
  BY <1>1, CurrentIsTile DEF Current
<1>3. sub \in [Files -> Seq(Data)]
  BY <1>1 DEF TypeOK
<1>4. \A j \in Files : sub'[j] = sub[j] \/ \E c \in Children(t, n) : sub'[j] = Append(sub[j], c)
  BY <1>1, <1>2, RewriteOneChild
<1>5. \A c \in Children(t, n) : c \in Data /\ c[1] = NextZoom(t[1], n)
  BY DEF Children
<1>6. ASSUME NEW j \in Files, NEW a \in DOMAIN sub'[j]
      PROVE  \E i \in Files : \E b \in DOMAIN files[i] :
                sub'[j][a][1] = NextZoom(files[i][b][1], n)
  <2>1. CASE sub'[j] = sub[j]
    BY <1>1, <1>6, <2>1 DEF OneZoom
  <2>2. CASE \E c \in Children(t, n) : sub'[j] = Append(sub[j], c)
    <3>1. PICK c \in Children(t, n) : sub'[j] = Append(sub[j], c)
      BY <2>2
    <3>2. sub[j] \in Seq(Data) /\ c \in Data
      BY <1>3, <1>5
    <3>3. (a \in DOMAIN sub[j] /\ sub'[j][a] = sub[j][a]) \/ sub'[j][a] = c
      BY <1>6, <3>1, <3>2
    <3>4. CASE a \in DOMAIN sub[j] /\ sub'[j][a] = sub[j][a]
      BY <1>1, <3>4 DEF OneZoom
    <3>5. CASE sub'[j][a] = c
      BY <1>2, <1>5, <3>5
    <3> QED
      BY <3>3, <3>4, <3>5
  <2> QED
    BY <1>4, <2>1, <2>2
<1> QED
  BY <1>1, <1>6 DEF OneZoom

\* A tile is done, and at most that tile is added to the tileset.
LEMMA TiledStep ==
    ASSUME UniformInv, main.phase = "pass", NEW w \in Threads, AtTile(w),
           NEW g \in 0 .. MaxGamma, NEW d \in 0 .. MaxDrop, NEW th \in ThreadType,
           g >= main.gamma, d >= main.drop,
           thread' = [thread EXCEPT ![w] = th],
           th.gamma = Most(g, thread[w].gamma), th.drop = Most(d, thread[w].drop),
           th.wrote = Current(w)[1],
           \/ db' = db
           \/ db' = db \cup {[tile |-> Current(w), gamma |-> g, drop |-> d]},
           WriteChildren(w, Current(w)), UNCHANGED <<files, log>>,
           main' = main
    PROVE  ZoomsUniform' /\ InProgress'
<1> DEFINE t == Current(w)
           f == thread[w].file
           new == [tile |-> t, gamma |-> g, drop |-> d]
<1>1. TypeOK /\ ZoomsInOrder /\ OneZoom /\ ThreadsReport /\ TilesReported /\ ZoomsUniform
  BY DEF UniformInv
<1>2. f \in Files /\ thread[w].pos \in DOMAIN files[f] /\ t \in Data
      /\ t = files[f][thread[w].pos]
  BY <1>1, CurrentIsTile DEF Current
<1>3. /\ t[1] \in Zooms /\ ~Finished(t[1])
      /\ \A r \in db : ~Finished(r.tile[1]) => r.tile[1] = t[1]
  <2>1. main.phase = "pass" /\ UniformInv
    OBVIOUS
  <2> DEFINE p == thread[w].pos
  <2>2. p \in DOMAIN files[f] /\ t = files[f][p]
    BY <1>2
  <2> HIDE DEF t, f, p
  <2>3. /\ files[f][p][1] \in Zooms /\ ~Finished(files[f][p][1])
        /\ \A r \in db : ~Finished(r.tile[1]) => r.tile[1] = files[f][p][1]
    BY <1>2, <2>1, <2>2, NotFinished
  <2> QED
    BY <2>2, <2>3
<1>4. thread \in [Threads -> ThreadType] /\ db \subseteq Tileset
  BY <1>1 DEF TypeOK
<1>5. \A k \in Zooms : Finished(k)' <=> Finished(k)
  BY DEF Finished
<1>6. \A r \in db' : r \in db \/ r = new
  OBVIOUS
<1>7. \A r \in db : r.tile[1] \in Zooms
  BY <1>4, Constants DEF Tileset
<1>8. ZoomsUniform'
  BY <1>1, <1>3, <1>5, <1>6, <1>7 DEF ZoomsUniform, Finished
<1>9. ZoomsInOrder'
  BY <1>1, <1>5 DEF ZoomsInOrder, Finished
<1>10. OneZoom'
  BY OneZoomBelow
<1>11. Joined' = Joined /\ Joined \subseteq Threads /\ w \in Joined
  BY <1>1, SkipOutType DEF Joined, ThreadsReport, AtTile, Tiling
<1>12. \A v \in Threads : IF v = w THEN thread'[v] = th ELSE thread'[v] = thread[v]
  BY <1>4
<1>13. ThreadsReport'
  <2> SUFFICES ASSUME NEW v \in Threads
               PROVE  /\ thread'[v].pc # "done" => v \in Joined
                      /\ thread'[v].wrote = -1
                         \/ \E j \in Files : \E a \in DOMAIN files[j] :
                               thread'[v].wrote = files[j][a][1]
    BY <1>11 DEF ThreadsReport
  <2>1. CASE v = w
    BY <1>2, <1>11, <1>12, <2>1
  <2>2. CASE v # w
    BY <1>1, <1>12, <2>2 DEF ThreadsReport
  <2> QED
    BY <2>1, <2>2
<1>14. TilesReported'
  <2> SUFFICES ASSUME NEW r \in db', ~Finished(r.tile[1])'
               PROVE  /\ r.gamma >= main.gamma /\ r.drop >= main.drop
                      /\ \E v \in Joined : /\ thread'[v].wrote = r.tile[1]
                                           /\ thread'[v].gamma >= r.gamma
                                           /\ thread'[v].drop >= r.drop
    BY <1>11 DEF TilesReported
  <2>0. thread[w].gamma \in Nat /\ thread[w].drop \in Nat /\ g \in Nat /\ d \in Nat
    BY <1>4, Constants DEF ThreadType
  <2>1. CASE r \in db
    <3>1. ~Finished(r.tile[1]) /\ r.tile[1] = t[1] /\ r.gamma \in Nat /\ r.drop \in Nat
      BY <1>3, <1>4, <1>5, <1>7, <2>1 DEF Tileset, Finished
    <3>2. /\ r.gamma >= main.gamma /\ r.drop >= main.drop
          /\ \E v \in Joined : /\ thread[v].wrote = r.tile[1]
                               /\ thread[v].gamma >= r.gamma
                               /\ thread[v].drop >= r.drop
      BY <1>1, <2>1, <3>1 DEF TilesReported
    <3>3. PICK v \in Joined : /\ thread[v].wrote = r.tile[1]
                             /\ thread[v].gamma >= r.gamma
                             /\ thread[v].drop >= r.drop
      BY <3>2
    <3>4. CASE v # w
      BY <1>11, <1>12, <3>2, <3>3, <3>4
    <3>5. CASE v = w
      <4>1. th.gamma >= r.gamma /\ th.drop >= r.drop /\ th.wrote = r.tile[1]
        BY <2>0, <3>1, <3>3, <3>5 DEF Most
      <4> QED
        BY <1>11, <1>12, <3>2, <4>1
    <3> QED
      BY <3>4, <3>5
  <2>2. CASE r = new
    <3>1. th.gamma >= g /\ th.drop >= d
      BY <2>0 DEF Most
    <3> QED
      BY <1>11, <1>12, <2>2, <3>1
  <2> QED
    BY <1>6, <2>1, <2>2
<1> QED
  BY <1>8, <1>9, <1>10, <1>13, <1>14 DEF InProgress

\* What Tiled() reports.
LEMMA TiledReport ==
    ASSUME NEW th \in ThreadType, NEW t, NEW g, NEW d, NEW leaf
    PROVE  /\ Tiled(th, t, g, d, leaf).gamma = Most(g, th.gamma)
           /\ Tiled(th, t, g, d, leaf).drop = Most(d, th.drop)
           /\ Tiled(th, t, g, d, leaf).wrote = t[1]
BY DEF Tiled, ThreadType

LEMMA UniformWriteTile ==
    ASSUME UniformInv, NEW w \in Threads, WriteTile(w)
    PROVE  ZoomsUniform' /\ (main'.phase = "pass" => InProgress')
<1> DEFINE t == Current(w)
           g == GammaFor(t)
           d == DropFor(t)
<1>1. TypeOK /\ AtTile(w) /\ main.phase = "pass"
  BY DEF UniformInv, WriteTile, AtTile, Tiling
<1>2. t \in Data
  BY <1>1, CurrentIsTile
<1>3. g \in 0 .. MaxGamma /\ d \in 0 .. MaxDrop /\ g >= main.gamma /\ d >= main.drop
  <2>1. d \in Nat /\ d >= main.drop /\ (d = main.drop \/ d <= MaxDrop)
    BY <1>1, <1>2, ThresholdsFor DEF WriteTile
  <2>2. main.drop \in 0 .. MaxDrop
    BY <1>1 DEF TypeOK, MainType
  <2> QED
    BY <1>1, <1>2, <2>1, <2>2, ThresholdsFor, Constants
<1>4. CASE main'.phase # "pass"
  <2>1. db' = db /\ log' = log
    BY <1>1, <1>4 DEF WriteTile
  <2>2. ZoomsUniform'
    BY <2>1 DEF UniformInv, ZoomsUniform, Finished
  <2> QED
    BY <1>4, <2>2
<1>5. CASE main'.phase = "pass"
  <2>1. main' = main
    BY <1>1, <1>5 DEF WriteTile, TypeOK, MainType
  <2>2. PICK leaf \in BOOLEAN : thread' = [thread EXCEPT ![w] = Tiled(@, t, g, d, leaf)]
    BY DEF WriteTile
  <2> DEFINE th == Tiled(thread[w], t, g, d, leaf)
  <2>3. thread[w] \in ThreadType
    BY <1>1 DEF TypeOK
  <2>4. th \in ThreadType
    BY <1>2, <1>3, <2>3, TiledType
  <2>5. th.gamma = Most(g, thread[w].gamma) /\ th.drop = Most(d, thread[w].drop)
        /\ th.wrote = t[1]
    BY <2>3, TiledReport
  <2>6. thread' = [thread EXCEPT ![w] = th]
    BY <2>2
  <2>7. /\ db' = db \/ db' = db \cup {[tile |-> t, gamma |-> g, drop |-> d]}
        /\ WriteChildren(w, t) /\ files' = files /\ log' = log
    BY DEF WriteTile
  <2> HIDE DEF th, t, g, d
  <2> QED
    BY <1>1, <1>3, <2>1, <2>4, <2>5, <2>6, <2>7, TiledStep DEF t
<1> QED
  BY <1>4, <1>5

LEMMA UniformFailTile ==
    ASSUME UniformInv, NEW w \in Threads, FailTile(w)
    PROVE  ZoomsUniform' /\ (main'.phase = "pass" => InProgress')
<1> DEFINE t == Current(w)
           g == GammaFor(t)
           n == Len(files[thread[w].file]) + 1
           tiled == Tiled(thread[w], t, g, main.drop, FALSE)
           th == [tiled EXCEPT !.pos = n, !.failed = TRUE]
<1>1. TypeOK /\ AtTile(w) /\ main.phase = "pass"
  BY DEF UniformInv, FailTile, AtTile, Tiling
<1>2. t \in Data /\ thread[w].file \in Files
  BY <1>1, CurrentIsTile
<1>3. thread[w] \in ThreadType /\ main.drop \in 0 .. MaxDrop /\ main.drop >= main.drop
  BY <1>1, Constants DEF TypeOK, MainType
<1>4. g \in 0 .. MaxGamma /\ g >= main.gamma
  BY <1>1, <1>2, ThresholdsFor
<1>5. tiled \in ThreadType /\ n \in Nat \ {0}
  <2>1. n \in Nat \ {0}
    BY <1>1, <1>2 DEF TypeOK
  <2>2. FALSE \in BOOLEAN
    OBVIOUS
  <2> HIDE DEF g, t, n
  <2>3. tiled \in ThreadType
    BY <1>2, <1>3, <1>4, <2>2, TiledType
  <2> QED
    BY <2>1, <2>3
<1>6. tiled.gamma = Most(g, thread[w].gamma) /\ tiled.drop = Most(main.drop, thread[w].drop)
      /\ tiled.wrote = t[1]
  BY <1>3 DEF Tiled, ThreadType
<1>7. thread' = [thread EXCEPT ![w] = th]
  BY DEF FailTile
<1>8. /\ db' = db /\ WriteChildren(w, t) /\ files' = files /\ log' = log /\ main' = main
  BY DEF FailTile
<1> HIDE DEF tiled, n
<1>9. th \in ThreadType /\ th.gamma = tiled.gamma /\ th.drop = tiled.drop
      /\ th.wrote = tiled.wrote
  BY <1>5 DEF ThreadType
<1> HIDE DEF th, t, g
<1> QED
  BY <1>1, <1>3, <1>4, <1>6, <1>7, <1>8, <1>9, TiledStep DEF t

LEMMA UniformGiveUp ==
    ASSUME UniformInv, NEW w \in Threads, GiveUp(w)
    PROVE  ZoomsUniform' /\ (main'.phase = "pass" => InProgress')
<1>1. main \in MainType
  BY DEF UniformInv, TypeOK
<1>2. main'.phase = "incomplete"
  BY <1>1 DEF GiveUp, MainType
<1>3. db' = db /\ log' = log
  BY DEF GiveUp
<1> QED
  BY <1>2, <1>3 DEF UniformInv, ZoomsUniform, Finished

\* What joining finds: every tile that is not finished is of the zoom that the
\* loop now takes itself to be at, and was made with at most the thresholds found.
LEMMA JoinsAll ==
    ASSUME UniformInv, NEW g \in 0 .. MaxGamma, NEW d \in 0 .. MaxDrop,
           NEW k \in Zooms \cup {-1}, Joins(g, d, k)
    PROVE  /\ \A r \in db : ~Finished(r.tile[1]) =>
                /\ r.tile[1] = ZoomOut(k) /\ r.gamma <= g /\ r.drop <= d
           /\ \A j \in Files : \A a \in DOMAIN files[j] : files[j][a][1] >= ZoomOut(k)
           /\ ~Finished(ZoomOut(k)) \/ ~(ZoomOut(k) \in Zooms)
<1>1. TypeOK /\ ZoomsInOrder /\ OneZoom /\ ThreadsReport /\ TilesReported
  BY DEF UniformInv, Joins, AllDone
<1>2. Joined \subseteq Threads /\ thread \in [Threads -> ThreadType] /\ db \subseteq Tileset
      /\ main.z \in Nat
  BY <1>1, SkipOutType DEF TypeOK, MainType
<1>3. \A w \in Joined : thread[w].gamma <= g /\ thread[w].drop <= d /\ thread[w].wrote <= k
  BY DEF Joins, IsGreatest
<1>4. k = -1 \/ \E j \in Files : \E a \in DOMAIN files[j] : k = files[j][a][1]
  BY <1>1, <1>2 DEF Joins, IsGreatest, ThreadsReport
<1>5. k \in Nat \cup {-1}
  BY Constants DEF Zooms
<1>6. \A j \in Files : \A a \in DOMAIN files[j] : files[j][a][1] \in Nat
  <2> SUFFICES ASSUME NEW j \in Files, NEW a \in DOMAIN files[j]
               PROVE  files[j][a][1] \in Nat
    OBVIOUS
  <2>1. files[j] \in Seq(Data)
    BY <1>1 DEF TypeOK
  <2>2. files[j][a] \in Data
    BY <2>1
  <2> QED
    BY <2>2, Constants
<1>7. ZoomOut(k) \in Nat /\ ZoomOut(k) >= main.z
  BY <1>2, <1>5 DEF ZoomOut, Most
<1>8. \A j \in Files : \A a \in DOMAIN files[j] : files[j][a][1] >= ZoomOut(k)
  <2>1. CASE k = -1
    BY <1>1, <1>2, <1>6, <2>1 DEF ZoomOut, Most, OneZoom
  <2>2. CASE \E j \in Files : \E a \in DOMAIN files[j] : k = files[j][a][1]
    <3>1. \A j \in Files : \A a \in DOMAIN files[j] : files[j][a][1] = k /\ k >= main.z
      BY <1>1, <2>2 DEF OneZoom
    <3> QED
      BY <1>2, <1>5, <3>1 DEF ZoomOut, Most
  <2> QED
    BY <1>4, <2>1, <2>2
<1>9. ASSUME NEW r \in db, ~Finished(r.tile[1])
      PROVE  r.tile[1] = ZoomOut(k) /\ r.gamma <= g /\ r.drop <= d
  <2>1. r.tile[1] \in Nat /\ r.gamma \in Nat /\ r.drop \in Nat
    BY <1>2, Constants DEF Tileset
  <2>2. PICK w \in Joined : /\ thread[w].wrote = r.tile[1]
                           /\ thread[w].gamma >= r.gamma /\ thread[w].drop >= r.drop
    BY <1>1, <1>9 DEF TilesReported
  <2>3. thread[w].gamma \in Nat /\ thread[w].drop \in Nat
    BY <1>2, Constants DEF ThreadType
  <2>4. r.gamma <= g /\ r.drop <= d /\ r.tile[1] <= k
    BY <1>3, <2>1, <2>2, <2>3, Constants
  <2>5. PICK i \in Files : \E b \in DOMAIN files[i] : r.tile[1] = files[i][b][1]
    BY <1>1, <1>2, <2>1, <2>2 DEF ThreadsReport
  <2>6. k # -1 /\ r.tile[1] >= main.z
    BY <1>1, <1>5, <2>1, <2>4, <2>5 DEF OneZoom
  <2>7. k = r.tile[1]
    BY <1>1, <1>4, <2>5, <2>6 DEF OneZoom
  <2> QED
    BY <1>2, <2>1, <2>4, <2>6, <2>7 DEF ZoomOut, Most
<1>10. ~Finished(ZoomOut(k)) \/ ~(ZoomOut(k) \in Zooms)
  BY <1>1, <1>2, <1>7 DEF ZoomsInOrder
<1> QED
  BY <1>8, <1>9, <1>10

LEMMA UniformNextPass ==
    ASSUME UniformInv, NextPass
    PROVE  ZoomsUniform' /\ InProgress'
<1>1. PICK g \in 0 .. MaxGamma, d \in 0 .. MaxDrop, k \in Zooms \cup {-1} : Redo(g, d, k)
  BY DEF NextPass
<1>2. TypeOK /\ ZoomsInOrder /\ OneZoom /\ ZoomsUniform
  BY <1>1 DEF UniformInv, Redo, Joins, AllDone
<1>3. Joining(k) \in MainType /\ Joining(k).z = ZoomOut(k) /\ Joining(k).threads = main.threads
      /\ ZoomOut(k) \in Nat /\ ZoomOut(k) >= main.z /\ main.z \in Nat
  BY <1>2, JoiningType DEF TypeOK, MainType
<1>4. main'.z = ZoomOut(k) /\ main'.threads = main.threads
  <2> DEFINE J == Joining(k)
             pass == Least(main.pass + 1, 2)
             first == d > 0 /\ main.drop = 0
  <2>1. main' = [J EXCEPT !.pass = pass, !.gamma = g, !.drop = d, !.first = first]
    BY <1>1 DEF Redo
  <2> HIDE DEF J, pass, first
  <2> QED
    BY <1>3, <2>1 DEF MainType, J
<1>5. /\ \A r \in db : ~Finished(r.tile[1]) => r.tile[1] = ZoomOut(k)
      /\ \A j \in Files : \A a \in DOMAIN files[j] : files[j][a][1] >= ZoomOut(k)
  BY <1>1, JoinsAll DEF Redo
<1>6. ZoomsUniform'
  BY <1>1, <1>2 DEF Redo, Erased, ZoomsUniform, Finished
<1>7. ZoomsInOrder'
  <2>1. \A i \in Zooms : Finished(i)' => i < main.z
    BY <1>1, <1>2 DEF Redo, ZoomsInOrder, Finished
  <2> QED
    BY <1>3, <1>4, <2>1, Constants DEF ZoomsInOrder, Zooms
<1>8. OneZoom'
  <2>1. files' = files /\ sub' = sub
    BY <1>1 DEF Redo
  <2> QED
    BY <1>2, <1>4, <1>5, <2>1 DEF OneZoom
<1>9. ThreadsReport'
  <2> SUFFICES ASSUME NEW w \in Threads
               PROVE  thread'[w].wrote = -1 /\ (thread'[w].pc # "done" => w \in Joined')
    BY DEF ThreadsReport
  <2>1. thread'[w].wrote = -1 /\ (thread'[w].pc # "done" => w < main.threads)
    BY <1>1 DEF Redo, FreshThread
  <2>2. main.threads \in Nat \ {0} /\ w \in Nat
    <3>1. main.threads \in ThreadCounts
      BY <1>2 DEF TypeOK, MainType
    <3>2. w \in Nat
      BY Constants DEF Threads
    <3>3. ThreadCounts \subseteq Nat \ {0}
      BY Constants
    <3> QED
      BY <3>1, <3>2, <3>3
  <2>3. Joined' = 0 .. main.threads - 1
    BY <1>4 DEF Joined
  <2> QED
    BY <2>1, <2>2, <2>3
<1>10. TilesReported'
  <2>1. \A r \in db' : Finished(r.tile[1])
    BY <1>1, <1>5 DEF Redo, Erased
  <2> QED
    BY <1>1, <2>1 DEF Redo, TilesReported, Finished
<1> QED
  BY <1>6, <1>7, <1>8, <1>9, <1>10 DEF InProgress

\* The log entry of a finished zoom is that of its tiles.
LEMMA UniformFinish ==
    ASSUME UniformInv, NEW g \in 0 .. MaxGamma, NEW d \in 0 .. MaxDrop,
           NEW k \in Zooms \cup {-1}, Joins(g, d, k), ~Raised(g, d),
           log' = FinishedLog(k), db' = db
    PROVE  /\ ZoomsUniform'
           /\ \A i \in Zooms : Finished(i)' => i <= ZoomOut(k)
           /\ \A r \in db : Finished(r.tile[1])'
<1>1. TypeOK /\ ZoomsInOrder /\ TilesReported /\ ZoomsUniform
  BY DEF UniformInv, Joins, AllDone
<1>2. g = main.gamma /\ d = main.drop
  <2>1. g >= main.gamma /\ d >= main.drop
    BY DEF Joins, IsGreatest
  <2>2. g \in Nat /\ d \in Nat /\ main.gamma \in Nat /\ main.drop \in Nat
    BY <1>1, Constants DEF TypeOK, MainType
  <2> QED
    BY <2>1, <2>2 DEF Raised
<1>3. \A r \in db : /\ r.tile[1] \in Zooms /\ r.gamma \in Nat /\ r.drop \in Nat
                    /\ ~Finished(r.tile[1]) =>
                         /\ r.tile[1] = ZoomOut(k)
                         /\ r.gamma = main.gamma /\ r.drop = main.drop
  <2> SUFFICES ASSUME NEW r \in db
               PROVE  /\ r.tile[1] \in Zooms /\ r.gamma \in Nat /\ r.drop \in Nat
                      /\ ~Finished(r.tile[1]) =>
                           /\ r.tile[1] = ZoomOut(k)
                           /\ r.gamma = main.gamma /\ r.drop = main.drop
    OBVIOUS
  <2>1. r.tile[1] \in Zooms /\ r.gamma \in Nat /\ r.drop \in Nat
    BY <1>1, Constants DEF TypeOK, Tileset
  <2>2. main.gamma \in Nat /\ main.drop \in Nat
    BY <1>1, Constants DEF TypeOK, MainType
  <2>3. CASE ~Finished(r.tile[1])
    <3>1. r.gamma >= main.gamma /\ r.drop >= main.drop
      BY <1>1, <2>3 DEF TilesReported
    <3>2. r.tile[1] = ZoomOut(k) /\ r.gamma <= g /\ r.drop <= d
      BY <2>3, JoinsAll
    <3> QED
      BY <1>2, <2>1, <2>2, <3>1, <3>2
  <2> QED
    BY <2>1, <2>3
<1>4. ZoomOut(k) \in Zooms =>
        \A r \in db : Finished(r.tile[1]) => r.tile[1] # ZoomOut(k)
  BY JoinsAll
<1>5. main.pass \in 0 .. 2 /\ log \in [Zooms -> LogType] /\ ZoomOut(k) \in Nat
      /\ ZoomOut(k) >= main.z /\ main.z \in Nat
  BY <1>1, JoiningType DEF TypeOK, MainType
<1> DEFINE z == ZoomOut(k)
           entry == [passes |-> main.pass + 1, gamma |-> main.gamma,
                     drop |-> main.drop, leaves |-> SkipOut]
<1>6. entry.passes > 0 /\ entry.gamma = main.gamma /\ entry.drop = main.drop
  BY <1>5
<1> HIDE DEF entry, z
<1>7. log' = [log EXCEPT ![z] = entry]
  BY DEF FinishedLog, z, entry
<1>8. \A i \in Zooms : log'[i] = IF i = z THEN entry ELSE log[i]
  BY <1>5, <1>7
<1>9. ZoomsUniform'
  BY <1>1, <1>3, <1>4, <1>6, <1>8 DEF ZoomsUniform, Finished, z
<1>10. \A i \in Zooms : Finished(i)' => i <= ZoomOut(k)
  BY <1>1, <1>5, <1>8 DEF ZoomsInOrder, Finished, Zooms, z
<1>11. \A r \in db : Finished(r.tile[1])'
  BY <1>3, <1>6, <1>8 DEF Finished, z
<1> QED
  BY <1>9, <1>10, <1>11

LEMMA NextZoomDeeper ==
    ASSUME NEW z \in Zooms, NEW n \in ThreadCounts
    PROVE  NextZoom(z, n) \in Nat /\ NextZoom(z, n) >= z + 1
<1>1. MaxZoomIncrement(n) \in Nat \ {0}
  BY IncrementAssumption DEF IncrementAssumption
<1>2. z \in Nat /\ MinZoom \in Nat
  BY Constants DEF Zooms
<1> QED
  BY <1>1, <1>2 DEF NextZoom

LEMMA UniformNextLevel ==
    ASSUME UniformInv, NextLevel
    PROVE  ZoomsUniform' /\ InProgress'
<1>1. PICK g \in 0 .. MaxGamma, d \in 0 .. MaxDrop, k \in Zooms \cup {-1}, n \in ThreadCounts :
        /\ Joins(g, d, k) /\ ~Raised(g, d)
        /\ main' = [Joining(k) EXCEPT !.z = ZoomOut(k) + 1, !.pass = 0, !.gamma = 0,
                                      !.drop = 0, !.first = FALSE, !.threads = n]
        /\ thread' = [w \in Threads |-> FreshThread(w < n)]
        /\ log' = FinishedLog(k)
  BY Zenon DEF NextLevel
<1>2. files' = sub /\ sub' = [j \in Files |-> <<>>] /\ db' = db
  BY DEF NextLevel
<1>3. TypeOK /\ OneZoom
  BY <1>1 DEF UniformInv, Joins, AllDone
<1>4. Joining(k) \in MainType /\ ZoomOut(k) \in Nat
  BY <1>3, JoiningType
<1>5. main'.z = ZoomOut(k) + 1 /\ main'.threads = n
  <2> DEFINE J == Joining(k)
             z == ZoomOut(k) + 1
  <2>1. main' = [J EXCEPT !.z = z, !.pass = 0, !.gamma = 0, !.drop = 0,
                          !.first = FALSE, !.threads = n]
    BY <1>1
  <2> HIDE DEF J, z
  <2>2. main'.z = z /\ main'.threads = n
    BY <1>4, <2>1 DEF MainType, J
  <2> QED
    BY <2>2 DEF z
<1>6. /\ ZoomsUniform'
      /\ \A i \in Zooms : Finished(i)' => i <= ZoomOut(k)
      /\ \A r \in db : Finished(r.tile[1])'
  BY <1>1, <1>2, UniformFinish
<1>7. ZoomsInOrder'
  BY <1>4, <1>5, <1>6, Constants DEF ZoomsInOrder, Zooms
<1>8. TilesReported'
  BY <1>2, <1>6 DEF TilesReported
<1>9. OneZoom'
  <2> DEFINE m == main.threads
  <2>1. \A j \in Files : \A a \in DOMAIN sub[j] :
          \E i \in Files : \E b \in DOMAIN files[i] : sub[j][a][1] = NextZoom(files[i][b][1], m)
    BY <1>3 DEF OneZoom
  <2>2. /\ \A i \in Files : \A b \in DOMAIN files[i] :
            /\ files[i][b][1] >= ZoomOut(k) /\ files[i][b][1] \in Zooms
            /\ \A j \in Files : \A a \in DOMAIN files[j] : files[j][a][1] = files[i][b][1]
    <3>1. \A i \in Files : \A b \in DOMAIN files[i] : files[i][b][1] >= ZoomOut(k)
      BY <1>1, JoinsAll
    <3>2. \A i \in Files : \A b \in DOMAIN files[i] : files[i][b][1] \in Zooms
      BY <1>1, NotFinished DEF Joins, AllDone
    <3> QED
      BY <1>3, <3>1, <3>2 DEF OneZoom
  <2>3. m \in ThreadCounts
    BY <1>3 DEF TypeOK, MainType
  <2>4. \A z \in Zooms : NextZoom(z, m) \in Nat /\ NextZoom(z, m) >= z + 1
    BY <2>3, NextZoomDeeper
  <2>5. \A j \in Files : \A a \in DOMAIN sub[j] :
          /\ sub[j][a][1] >= ZoomOut(k) + 1
          /\ \A i \in Files : \A b \in DOMAIN sub[i] : sub[i][b][1] = sub[j][a][1]
    <3> SUFFICES ASSUME NEW j \in Files, NEW a \in DOMAIN sub[j]
                 PROVE  /\ sub[j][a][1] >= ZoomOut(k) + 1
                        /\ \A i \in Files : \A b \in DOMAIN sub[i] :
                              sub[i][b][1] = sub[j][a][1]
      OBVIOUS
    <3>0. PICK i \in Files : \E b \in DOMAIN files[i] :
                               sub[j][a][1] = NextZoom(files[i][b][1], m)
      BY <2>1
    <3>1. PICK b \in DOMAIN files[i] : sub[j][a][1] = NextZoom(files[i][b][1], m)
      BY <3>0
    <3> DEFINE z == files[i][b][1]
    <3>2. z \in Zooms /\ z >= ZoomOut(k) /\ z \in Nat
      BY <2>2, Constants DEF Zooms
    <3>3. sub[j][a][1] = NextZoom(z, m) /\ NextZoom(z, m) >= z + 1 /\ NextZoom(z, m) \in Nat
      BY <2>4, <3>1, <3>2
    <3>4. \A x \in Files : \A y \in DOMAIN sub[x] : sub[x][y][1] = NextZoom(z, m)
      BY <2>1, <2>2
    <3> QED
      BY <1>4, <3>2, <3>3, <3>4
  <2>6. \A j \in Files : DOMAIN sub'[j] = {}
    BY <1>2
  <2> QED
    BY <1>2, <1>5, <2>5, <2>6 DEF OneZoom
<1>10. ThreadsReport'
  <2> SUFFICES ASSUME NEW w \in Threads
               PROVE  thread'[w].wrote = -1 /\ (thread'[w].pc # "done" => w \in Joined')
    BY DEF ThreadsReport
  <2>1. thread'[w].wrote = -1 /\ (thread'[w].pc # "done" => w < n)
    BY <1>1 DEF FreshThread
  <2>2. n \in Nat \ {0} /\ w \in Nat
    BY Constants DEF Threads
  <2>3. Joined' = 0 .. n - 1
    BY <1>5 DEF Joined
  <2> QED
    BY <2>1, <2>2, <2>3
<1> QED
  BY <1>6, <1>7, <1>8, <1>9, <1>10 DEF InProgress

LEMMA UniformReturn ==
    ASSUME UniformInv, Return
    PROVE  ZoomsUniform' /\ main'.phase # "pass"
<1>1. PICK g \in 0 .. MaxGamma, d \in 0 .. MaxDrop, k \in Zooms \cup {-1} :
        /\ Joins(g, d, k) /\ ~Raised(g, d)
        /\ \E last \in {Least(Joining(k).maxzoom, Joining(k).largest), Joining(k).maxzoom} :
             main' = [Joining(k) EXCEPT !.maxzoom = last, !.result = last, !.phase = "complete"]
        /\ log' = FinishedLog(k) /\ db' = db
  BY Zenon DEF Return
<1>2. Joining(k) \in MainType
  BY JoiningType DEF UniformInv
<1>3. main'.phase = "complete"
  <2> DEFINE J == Joining(k)
  <2>1. \E last \in {Least(J.maxzoom, J.largest), J.maxzoom} :
          main' = [J EXCEPT !.maxzoom = last, !.result = last, !.phase = "complete"]
    BY <1>1
  <2> HIDE DEF J
  <2> QED
    BY <1>2, <2>1 DEF MainType, J
<1>4. ZoomsUniform'
  BY <1>1, UniformFinish
<1> QED
  BY <1>3, <1>4

LEMMA UniformReturnFailed ==
    ASSUME UniformInv, ReturnFailed
    PROVE  ZoomsUniform' /\ main'.phase # "pass"
<1>1. PICK k \in Zooms \cup {-1} :
        main' = [Joining(k) EXCEPT
            !.result = ZoomOut(k) - 1,
            !.phase = IF ZoomOut(k) - 1 > MinZoom THEN "through" ELSE "nodata"]
  BY Zenon DEF ReturnFailed
<1>2. Joining(k) \in MainType
  BY JoiningType DEF UniformInv
<1>3. main'.phase \in {"through", "nodata"}
  <2> DEFINE J == Joining(k)
             result == ZoomOut(k) - 1
             phase == IF result > MinZoom THEN "through" ELSE "nodata"
  <2>1. main' = [J EXCEPT !.result = result, !.phase = phase]
    BY <1>1
  <2>2. phase \in {"through", "nodata"}
    OBVIOUS
  <2> HIDE DEF J, result, phase
  <2> QED
    BY <1>2, <2>1, <2>2 DEF MainType, J
<1>4. db' = db /\ log' = log
  BY DEF ReturnFailed
<1> QED
  BY <1>3, <1>4 DEF UniformInv, ZoomsUniform, Finished

LEMMA UniformNext == UniformInv /\ [Next]_vars => UniformInv'
<1> SUFFICES ASSUME UniformInv, [Next]_vars PROVE UniformInv'
  OBVIOUS
<1>1. TypeOK'
  BY TypeNext DEF UniformInv
<1>2. ASSUME NEW w \in Threads, ThreadStep(w)
      PROVE  ZoomsUniform' /\ (main'.phase = "pass" => InProgress')
  BY <1>2, UniformTakeFile, UniformNoMoreFiles, UniformSkipTile, UniformWriteTile,
     UniformGiveUp, UniformFailTile, UniformCloseFile DEF ThreadStep
<1>3. CASE MainStep
  BY <1>1, <1>3, UniformNextPass, UniformNextLevel, UniformReturn, UniformReturnFailed
     DEF MainStep, UniformInv, InProgress
<1>4. CASE UNCHANGED vars
  BY <1>4 DEF vars, UniformInv, TypeOK, ZoomsUniform, Finished, ZoomsInOrder, OneZoom,
              ThreadsReport, TilesReported, Joined
<1> QED
  BY <1>1, <1>2, <1>3, <1>4 DEF Next, Over, UniformInv, InProgress

\* All the tiles of a finished zoom were made with the thresholds of the zoom's
\* last pass, whatever the data and the number of threads and passes.
THEOREM Uniform == Spec => []ZoomsUniform
<1>1. UniformInv => ZoomsUniform
  BY DEF UniformInv
<1> QED
  BY <1>1, UniformInit, UniformNext, PTL DEF Spec

\* A step takes away no tile of a finished zoom.
LEMMA FinishedStayStep ==
    UniformInv /\ [Next]_vars => [\A r \in db : Finished(r.tile[1]) => r \in db']_vars
<1> SUFFICES ASSUME UniformInv, Next
             PROVE  \A r \in db : Finished(r.tile[1]) => r \in db'
  OBVIOUS
<1>1. ASSUME NEW w \in Threads, ThreadStep(w) PROVE db \subseteq db'
  BY <1>1 DEF ThreadStep, TakeFile, NoMoreFiles, SkipTile, WriteTile, GiveUp, FailTile, CloseFile
<1>2. CASE NextPass
  <2>1. PICK g \in 0 .. MaxGamma, d \in 0 .. MaxDrop, k \in Zooms \cup {-1} : Redo(g, d, k)
    BY <1>2 DEF NextPass
  <2>2. ~Finished(ZoomOut(k)) \/ ~(ZoomOut(k) \in Zooms)
    BY <2>1, JoinsAll DEF Redo
  <2>3. \A r \in db : r.tile[1] \in Zooms
    BY Constants DEF UniformInv, TypeOK, Tileset
  <2> QED
    BY <2>1, <2>2, <2>3 DEF Redo, Erased
<1>3. CASE NextLevel \/ Return \/ ReturnFailed
  BY <1>3 DEF NextLevel, Return, ReturnFailed
<1>4. CASE Over
  BY <1>4 DEF Over, vars
<1> QED
  BY <1>1, <1>2, <1>3, <1>4 DEF Next, MainStep

\* Erasing a zoom to do it over, and everything else, leaves the finished zooms
\* alone.
THEOREM FinishedStays == Spec => FinishedStay
BY UniformInit, UniformNext, FinishedStayStep, PTL DEF Spec, FinishedStay
-----------------------------------------------------------------------------
(***************************************************************************)
(* Nothing is written twice                                                *)
(***************************************************************************)
\* The tile at place b of file i has been passed by in this pass: the file has been taken,
\* and whoever reads it is further on.
Behind(i, b) ==
    /\ i \notin tasks
    /\ \A w \in Threads : thread[w].pc = "file" /\ thread[w].file = i => b < thread[w].pos

\* A file is read by one thread only.
OneReader == \A w \in Threads : thread[w].pc = "file" =>
    /\ thread[w].file \notin tasks
    /\ \A v \in Threads :
        thread[v].pc = "file" /\ thread[v].file = thread[w].file => v = w

\* Dropping begins after the first pass, and in one pass only.
DroppingBegins ==
    /\ main.pass = 0 => main.drop = 0 /\ ~main.first
    /\ main.first => main.drop > 0

\* What must be so if the tile at place b of file i has written its children, in one of the
\* passes over this zoom.
ChildrenWritten(i, b) ==
    IF Parent(files[i][b]) \in skip
    THEN main.drop > 0 /\ (main.first => Behind(i, b))
    ELSE main.pass = 0 => Behind(i, b)

\* Every header for the next zoom comes from such a tile, and every tile that this pass has
\* stored from one that has been passed by.
HeadersBehind == \A j \in Files : \A a \in DOMAIN sub[j] :
    \E i \in Files : \E b \in DOMAIN files[i] :
        sub[j][a] \in Children(files[i][b], main.threads) /\ ChildrenWritten(i, b)
TilesBehind == \A r \in db : ~Finished(r.tile[1]) =>
    \E i \in Files : \E b \in DOMAIN files[i] : files[i][b] = r.tile /\ Behind(i, b)

WithinPass == OneReader /\ DroppingBegins /\ HeadersBehind /\ TilesBehind
OnceInv == UniformInv /\ WrittenOnce /\ (main.phase = "pass" => WithinPass)
LEMMA OnceInit == Init => OnceInv
<1> SUFFICES ASSUME Init PROVE OnceInv
  OBVIOUS
<1>1. UniformInv
  BY UniformInit
<1>2. HeadersOnce
  <2>1. \A j \in Files : files[j] = IF j = 0 THEN <<Root>> ELSE <<>>
    BY DEF Init
  <2>2. \A j \in Files : \A a \in DOMAIN files[j] : j = 0 /\ a = 1
    BY <2>1
  <2>3. \A j \in Files : DOMAIN sub[j] = {}
    BY DEF Init
  <2> QED
    BY <2>2, <2>3 DEF HeadersOnce
<1>3. NeverExists /\ DroppingBegins /\ TilesBehind
  BY DEF Init, NeverExists, DroppingBegins, TilesBehind
<1>4. OneReader
  BY DEF Init, OneReader, FreshThread
<1>5. HeadersBehind
  BY DEF Init, HeadersBehind
<1> QED
  BY <1>1, <1>2, <1>3, <1>4, <1>5 DEF OnceInv, WrittenOnce, WithinPass

\* Whatever has been passed by stays so while a thread moves on in its file or is done
\* with it.
LEMMA MovesOn ==
    ASSUME thread \in [Threads -> ThreadType], OneReader, NEW w \in Threads, NEW th,
           thread' = [thread EXCEPT ![w] = th], tasks' = tasks,
           th.pc = "file" => /\ thread[w].pc = "file" /\ th.file = thread[w].file
                             /\ th.pos \in Nat /\ th.pos >= thread[w].pos
    PROVE  OneReader' /\ \A i \in Files, b \in Nat : Behind(i, b) => Behind(i, b)'
<1>1. \A v \in Threads : thread'[v] = IF v = w THEN th ELSE thread[v]
  OBVIOUS
<1>2. OneReader'
  BY <1>1 DEF OneReader
<1>3. thread[w].pos \in Nat
  BY DEF ThreadType
<1>4. ASSUME NEW i \in Files, NEW b \in Nat, Behind(i, b) PROVE Behind(i, b)'
  <2> SUFFICES ASSUME NEW v \in Threads, thread'[v].pc = "file", thread'[v].file = i
               PROVE  b < thread'[v].pos
    BY <1>4 DEF Behind
  <2>1. CASE v = w
    BY <1>1, <1>3, <1>4, <2>1 DEF Behind
  <2>2. CASE v # w
    BY <1>1, <1>4, <2>2 DEF Behind
  <2> QED
    BY <2>1, <2>2
<1> QED
  BY <1>2, <1>4

\* The places of a file are numbers.
LEMMA PlaceInNat ==
    ASSUME TypeOK, NEW j \in Files
    PROVE  /\ DOMAIN files[j] \subseteq Nat \ {0} /\ DOMAIN sub[j] \subseteq Nat \ {0}
           /\ files[j] \in Seq(Data) /\ sub[j] \in Seq(Data)
BY DEF TypeOK

\* A step that only moves on keeps all that has been passed by where it was.
LEMMA WithinPassKept ==
    ASSUME TypeOK, WithinPass, OneReader',
           \A i \in Files, b \in Nat : Behind(i, b) => Behind(i, b)',
           UNCHANGED <<db, files, sub, skip, main, log>>
    PROVE  WithinPass'
<1>1. DroppingBegins'
  BY DEF WithinPass, DroppingBegins
<1>2. \A i \in Files : \A b \in DOMAIN files[i] : Behind(i, b) => Behind(i, b)'
  BY PlaceInNat
<1>3. \A i \in Files : \A b \in DOMAIN files[i] :
        ChildrenWritten(i, b) => ChildrenWritten(i, b)'
  BY <1>2 DEF ChildrenWritten
<1>4. HeadersBehind'
  <2> SUFFICES ASSUME NEW j \in Files, NEW a \in DOMAIN sub[j]
               PROVE  \E i \in Files : \E b \in DOMAIN files[i] :
                        /\ sub[j][a] \in Children(files[i][b], main.threads)
                        /\ ChildrenWritten(i, b)'
    BY DEF HeadersBehind
  <2> QED
    BY <1>3 DEF WithinPass, HeadersBehind
<1>5. TilesBehind'
  <2> SUFFICES ASSUME NEW r \in db, ~Finished(r.tile[1])
               PROVE  \E i \in Files : \E b \in DOMAIN files[i] :
                        files[i][b] = r.tile /\ Behind(i, b)'
    BY DEF TilesBehind, Finished
  <2> QED
    BY <1>2 DEF WithinPass, TilesBehind
<1> QED
  BY <1>1, <1>4, <1>5 DEF WithinPass

LEMMA OnceTakeFile ==
    ASSUME OnceInv, NEW w \in Threads, TakeFile(w)
    PROVE  WrittenOnce' /\ WithinPass'
<1>1. TypeOK /\ WithinPass /\ OneReader /\ WrittenOnce
  BY DEF OnceInv, UniformInv, TakeFile, Running, WithinPass
<1>2. PICK j \in tasks :
        /\ tasks' = tasks \ {j}
        /\ thread' = IF open[j]
                     THEN [thread EXCEPT ![w] = [@ EXCEPT !.pc = "file", !.file = j, !.pos = 1]]
                     ELSE thread
  BY DEF TakeFile
<1>3. /\ thread \in [Threads -> ThreadType] /\ thread[w].pc = "take"
      /\ UNCHANGED <<db, files, sub, skip, main, log>>
  BY <1>1 DEF TypeOK, TakeFile, Running
<1>4. \A v \in Threads :
        \/ thread'[v] = thread[v]
        \/ v = w /\ thread'[v].pc = "file" /\ thread'[v].file = j
  BY <1>2, <1>3 DEF ThreadType
<1>5. OneReader'
  BY <1>1, <1>2, <1>3, <1>4 DEF OneReader
<1>6. \A i \in Files, b \in Nat : Behind(i, b) => Behind(i, b)'
  BY <1>2, <1>4 DEF Behind
<1>7. WrittenOnce'
  BY <1>1, <1>3 DEF WrittenOnce, HeadersOnce, NeverExists
<1> QED
  BY <1>1, <1>3, <1>5, <1>6, <1>7, WithinPassKept

\* The steps of a thread that only move on.
LEMMA OnceQuietStep ==
    ASSUME OnceInv, main.phase = "pass", NEW w \in Threads, NEW th,
           thread' = [thread EXCEPT ![w] = th],
           UNCHANGED <<db, files, sub, skip, main, log, tasks>>,
           th.pc = "file" => /\ thread[w].pc = "file" /\ th.file = thread[w].file
                             /\ th.pos \in Nat /\ th.pos >= thread[w].pos
    PROVE  WrittenOnce' /\ WithinPass'
<1>1. TypeOK /\ WithinPass /\ OneReader /\ WrittenOnce /\ thread \in [Threads -> ThreadType]
  BY DEF OnceInv, UniformInv, TypeOK, WithinPass
<1>2. OneReader' /\ \A i \in Files, b \in Nat : Behind(i, b) => Behind(i, b)'
  BY <1>1, MovesOn
<1>3. WrittenOnce'
  BY <1>1 DEF WrittenOnce, HeadersOnce, NeverExists
<1> QED
  BY <1>1, <1>2, <1>3, WithinPassKept

LEMMA OnceNoMoreFiles ==
    ASSUME OnceInv, NEW w \in Threads, NoMoreFiles(w)
    PROVE  WrittenOnce' /\ WithinPass'
<1> DEFINE th == [thread[w] EXCEPT !.pc = "done"]
<1>1. th.pc = "done"
  BY DEF OnceInv, UniformInv, TypeOK, ThreadType
<1>2. thread' = [thread EXCEPT ![w] = th]
  BY DEF NoMoreFiles
<1> HIDE DEF th
<1> QED
  BY <1>1, <1>2, OnceQuietStep DEF NoMoreFiles, Running

LEMMA OnceSkipTile ==
    ASSUME OnceInv, NEW w \in Threads, SkipTile(w)
    PROVE  WrittenOnce' /\ WithinPass'
<1> DEFINE th == [thread[w] EXCEPT !.pos = thread[w].pos + 1]
<1>1. thread[w] \in ThreadType
  BY DEF OnceInv, UniformInv, TypeOK
<1>2. /\ thread[w].pos \in Nat /\ th.pos = thread[w].pos + 1 /\ th.file = thread[w].file
      /\ thread[w].pc = "file" /\ main.phase = "pass"
  BY <1>1 DEF ThreadType, SkipTile, AtTile, Tiling
<1>3. thread' = [thread EXCEPT ![w] = th]
  BY DEF SkipTile
<1>4. th.pos \in Nat /\ th.pos >= thread[w].pos
  BY <1>2
<1> HIDE DEF th
<1> QED
  BY <1>2, <1>3, <1>4, OnceQuietStep DEF SkipTile

LEMMA OnceCloseFile ==
    ASSUME OnceInv, NEW w \in Threads, CloseFile(w)
    PROVE  WrittenOnce' /\ WithinPass'
<1> DEFINE th == [thread[w] EXCEPT !.pc = "take"]
<1>1. th.pc = "take"
  BY DEF OnceInv, UniformInv, TypeOK, ThreadType
<1>2. thread' = [thread EXCEPT ![w] = th]
  BY DEF CloseFile
<1> HIDE DEF th
<1> QED
  BY <1>1, <1>2, OnceQuietStep DEF CloseFile, Tiling

LEMMA OnceGiveUp ==
    ASSUME OnceInv, NEW w \in Threads, GiveUp(w)
    PROVE  WrittenOnce' /\ main'.phase # "pass"
<1>1. main'.phase = "incomplete"
  BY DEF OnceInv, UniformInv, TypeOK, MainType, GiveUp
<1> QED
  BY <1>1 DEF OnceInv, WrittenOnce, HeadersOnce, NeverExists, GiveUp

\* What rewriting adds: to a file, the header of a child of its shard.
LEMMA RewriteByShard ==
    ASSUME TypeOK, NEW w \in Threads, NEW t \in Data, WriteChildren(w, t)
    PROVE  \A j \in Files :
             \/ sub'[j] = sub[j]
             \/ /\ WritesChildren(t)
                /\ \E c \in Children(t, main.threads) :
                     c \in Data /\ Shard(w, c, main.threads) = j /\ sub'[j] = Append(sub[j], c)
<1> SUFFICES ASSUME NEW j \in Files, sub'[j] # sub[j]
             PROVE  /\ WritesChildren(t)
                    /\ \E c \in Children(t, main.threads) :
                         c \in Data /\ Shard(w, c, main.threads) = j /\ sub'[j] = Append(sub[j], c)
  OBVIOUS
<1> DEFINE n == main.threads
           kids == {c \in Children(t, n) : Shard(w, c, n) = j}
<1>1. WritesChildren(t) /\ sub' = Rewrite(w, t, n, main.maxzoom, main.extend)
  BY DEF WriteChildren
<1>2. kids # {} /\ sub'[j] = Append(sub[j], FirstOf(kids))
  BY <1>1 DEF Rewrite
<1>3. kids \subseteq Data
  BY DEF Children
<1>4. FirstOf(kids) \in kids
  BY <1>2, <1>3, FirstOfIn
<1> QED
  BY <1>1, <1>2, <1>3, <1>4

\* None of the children of the tile that a thread is at has a header yet, if it is to
\* write them.
LEMMA NoHeaderYet ==
    ASSUME OnceInv, main.phase = "pass", NEW w \in Threads, AtTile(w),
           WritesChildren(Current(w)),
           NEW j \in Files, NEW a \in DOMAIN sub[j]
    PROVE  sub[j][a] \notin Children(Current(w), main.threads)
<1> DEFINE f == thread[w].file
           p == thread[w].pos
           t == Current(w)
<1>1. TypeOK /\ OneZoom /\ HeadersOnce /\ HeadersBehind
  BY DEF OnceInv, UniformInv, WrittenOnce, WithinPass
<1>2. f \in Files /\ p \in DOMAIN files[f] /\ t = files[f][p] /\ t \in Data
  BY <1>1, CurrentIsTile DEF Current
<1>3. ~Behind(f, p)
  <2>1. p \in Nat /\ thread[w].pc = "file"
    BY <1>1, <1>2, PlaceInNat DEF AtTile, Tiling
  <2> QED
    BY <2>1 DEF Behind
<1> SUFFICES ASSUME sub[j][a] \in Children(t, main.threads) PROVE FALSE
  OBVIOUS
<1>4. PICK i \in Files : \E b \in DOMAIN files[i] :
        sub[j][a] \in Children(files[i][b], main.threads) /\ ChildrenWritten(i, b)
  BY <1>1 DEF HeadersBehind
<1>5. PICK b \in DOMAIN files[i] :
        sub[j][a] \in Children(files[i][b], main.threads) /\ ChildrenWritten(i, b)
  BY <1>4
<1>6. files[i][b][1] = t[1]
  BY <1>1, <1>2 DEF OneZoom
<1>7. files[i][b] = t
  BY <1>5, <1>6 DEF Children
<1>8. i = f /\ b = p
  BY <1>1, <1>2, <1>7 DEF HeadersOnce
<1> QED
  BY <1>2, <1>3, <1>5, <1>8 DEF ChildrenWritten, WritesChildren

\* A tile is tiled, and at most that tile is added to the tileset.
LEMMA OnceTiledStep ==
    ASSUME OnceInv, main.phase = "pass", NEW w \in Threads, AtTile(w), ~Skipped(Current(w)),
           NEW th, thread' = [thread EXCEPT ![w] = th], WriteChildren(w, Current(w)),
           th.file = thread[w].file, th.pos \in Nat, th.pos > thread[w].pos,
           \A r \in db' : r \in db \/ r.tile = Current(w),
           UNCHANGED <<files, skip, log, tasks>>,
           main' = main
    PROVE  WrittenOnce' /\ WithinPass'
<1>1. /\ TypeOK /\ HeadersOnce /\ NeverExists /\ OneReader /\ DroppingBegins
      /\ HeadersBehind /\ TilesBehind /\ thread \in [Threads -> ThreadType]
  BY DEF OnceInv, UniformInv, WrittenOnce, WithinPass, TypeOK
<1>2. PICK f \in Files, p \in Nat, t \in Data, n \in ThreadCounts :
        /\ f = thread[w].file /\ p = thread[w].pos /\ t = Current(w) /\ n = main.threads
        /\ p \in DOMAIN files[f] /\ t = files[f][p] /\ thread[w].pc = "file" /\ p < th.pos
  <2>1. /\ thread[w].file \in Files /\ thread[w].pos \in DOMAIN files[thread[w].file]
        /\ Current(w) = files[thread[w].file][thread[w].pos] /\ Current(w) \in Data
        /\ thread[w].pc = "file"
    BY <1>1, CurrentIsTile DEF Current, AtTile, Tiling
  <2>2. thread[w].pos \in Nat /\ main.threads \in ThreadCounts
    BY <1>1, <2>1, PlaceInNat DEF TypeOK, MainType
  <2>3. thread[w].pos < th.pos
    BY <2>2
  <2> QED
    BY <2>1, <2>2, <2>3
<1>3. OneReader' /\ \A i \in Files, b \in Nat : Behind(i, b) => Behind(i, b)'
  <2>1. th.pos >= thread[w].pos /\ th.file = thread[w].file /\ thread[w].pc = "file"
    BY <1>2
  <2> QED
    BY <1>1, <2>1, MovesOn
<1>4. Behind(f, p)'
  <2>1. f \notin tasks' /\ \A v \in Threads : thread[v].pc = "file" /\ thread[v].file = f => v = w
    BY <1>1, <1>2 DEF OneReader
  <2>2. \A v \in Threads : thread'[v] = IF v = w THEN th ELSE thread[v]
    BY <1>1
  <2> QED
    BY <1>2, <2>1, <2>2 DEF Behind
<1>5. \A i \in Files : \A b \in DOMAIN files[i] : Behind(i, b) => Behind(i, b)'
  BY <1>1, <1>3, PlaceInNat
<1>6. ASSUME WritesChildren(t) PROVE ChildrenWritten(f, p)'
  <2>1. Parent(t) \in skip => main.drop > 0
    BY <1>1, <1>2 DEF Skipped, TypeOK, MainType
  <2> QED
    BY <1>2, <1>4, <2>1 DEF ChildrenWritten
<1>7. \A i \in Files : \A b \in DOMAIN files[i] :
        ChildrenWritten(i, b) => ChildrenWritten(i, b)'
  BY <1>5 DEF ChildrenWritten
<1>8. \A j \in Files :
        \/ sub'[j] = sub[j]
        \/ /\ WritesChildren(t)
           /\ \E c \in Children(t, n) :
                c \in Data /\ Shard(w, c, n) = j /\ sub'[j] = Append(sub[j], c)
  BY <1>1, <1>2, RewriteByShard
\* a header of sub' is one of sub, or the last of its file and of a child of t
<1> DEFINE Old(j, a) == a \in DOMAIN sub[j] /\ sub'[j][a] = sub[j][a]
           New(j, a) == /\ WritesChildren(t) /\ sub'[j][a] \in Children(t, n)
                        /\ Shard(w, sub'[j][a], n) = j /\ a = Len(sub[j]) + 1
<1>9. ASSUME NEW j \in Files, NEW a \in DOMAIN sub'[j] PROVE Old(j, a) \/ New(j, a)
  <2>1. CASE sub'[j] = sub[j]
    BY <1>9, <2>1
  <2>2. CASE sub'[j] # sub[j]
    <3>1. PICK c \in Children(t, n) :
            c \in Data /\ Shard(w, c, n) = j /\ sub'[j] = Append(sub[j], c)
      BY <1>8, <2>2
    <3>2. sub[j] \in Seq(Data) /\ WritesChildren(t)
      BY <1>1, <1>8, <2>2, PlaceInNat
    <3>3. (a \in DOMAIN sub[j] /\ sub'[j][a] = sub[j][a])
          \/ (a = Len(sub[j]) + 1 /\ sub'[j][a] = c)
      BY <1>9, <3>1, <3>2
    <3> QED
      BY <3>1, <3>2, <3>3
  <2> QED
    BY <2>1, <2>2
<1> HIDE DEF Old, New
<1>10. ASSUME NEW j \in Files, NEW a \in DOMAIN sub'[j], NEW k \in Files, NEW b \in DOMAIN sub'[k],
              sub'[j][a] = sub'[k][b]
       PROVE  j = k /\ a = b
  <2>1. CASE Old(j, a) /\ Old(k, b)
    <3>1. a \in DOMAIN sub[j] /\ b \in DOMAIN sub[k] /\ sub[j][a] = sub[k][b]
      BY <1>10, <2>1 DEF Old
    <3> QED
      BY <1>1, <3>1 DEF HeadersOnce
  <2>2. CASE Old(j, a) /\ New(k, b)
    <3>1. a \in DOMAIN sub[j] /\ sub[j][a] \in Children(t, n) /\ WritesChildren(t)
      BY <1>10, <2>2 DEF Old, New
    <3> QED
      BY <1>2, <3>1, NoHeaderYet
  <2>3. CASE New(j, a) /\ Old(k, b)
    <3>1. b \in DOMAIN sub[k] /\ sub[k][b] \in Children(t, n) /\ WritesChildren(t)
      BY <1>10, <2>3 DEF Old, New
    <3> QED
      BY <1>2, <3>1, NoHeaderYet
  <2>4. CASE New(j, a) /\ New(k, b)
    BY <1>10, <2>4 DEF New
  <2> QED
    BY <1>9, <1>10, <2>1, <2>2, <2>3, <2>4
<1>11. WrittenOnce'
  <2>1. \A j, k \in Files : \A a \in DOMAIN files[j], b \in DOMAIN files[k] :
          files[j][a] = files[k][b] => j = k /\ a = b
    BY <1>1 DEF HeadersOnce
  <2>2. HeadersOnce'
    BY <1>10, <2>1 DEF HeadersOnce
  <2> QED
    BY <1>1, <2>2 DEF WrittenOnce, NeverExists
<1>12. HeadersBehind'
  <2> SUFFICES ASSUME NEW j \in Files, NEW a \in DOMAIN sub'[j]
               PROVE  \E i \in Files : \E b \in DOMAIN files[i] :
                        sub'[j][a] \in Children(files[i][b], n) /\ ChildrenWritten(i, b)'
    BY <1>2 DEF HeadersBehind
  <2>1. CASE Old(j, a)
    BY <1>1, <1>2, <1>7, <2>1 DEF Old, HeadersBehind
  <2>2. CASE New(j, a)
    BY <1>2, <1>6, <2>2 DEF New
  <2> QED
    BY <1>9, <2>1, <2>2
<1>13. TilesBehind'
  <2> SUFFICES ASSUME NEW r \in db', ~Finished(r.tile[1])
               PROVE  \E i \in Files : \E b \in DOMAIN files[i] :
                        files[i][b] = r.tile /\ Behind(i, b)'
    BY DEF TilesBehind, Finished
  <2>1. CASE r \in db
    BY <1>1, <1>5, <2>1 DEF TilesBehind
  <2>2. CASE r.tile = t
    BY <1>2, <1>4, <2>2
  <2> QED
    BY <1>2, <2>1, <2>2
<1>14. DroppingBegins'
  BY <1>1 DEF DroppingBegins
<1> QED
  BY <1>3, <1>11, <1>12, <1>13, <1>14 DEF WithinPass

\* What Tiled() does to a thread's place.
LEMMA TiledPlace ==
    ASSUME NEW th \in ThreadType, NEW t, NEW g, NEW d, NEW leaf
    PROVE  /\ Tiled(th, t, g, d, leaf).file = th.file
           /\ Tiled(th, t, g, d, leaf).pos = th.pos + 1
BY DEF Tiled, ThreadType

LEMMA OnceWriteTile ==
    ASSUME OnceInv, NEW w \in Threads, WriteTile(w)
    PROVE  WrittenOnce' /\ WithinPass'
<1> DEFINE t == Current(w)
           g == GammaFor(t)
           d == DropFor(t)
<1>1. /\ TypeOK /\ UniformInv /\ HeadersOnce /\ AtTile(w) /\ main.phase = "pass"
      /\ TilesBehind /\ thread[w] \in ThreadType /\ ~Skipped(t)
  BY DEF OnceInv, UniformInv, WrittenOnce, WithinPass, WriteTile, AtTile, Tiling, TypeOK
<1>2. /\ thread[w].file \in Files /\ thread[w].pos \in DOMAIN files[thread[w].file]
      /\ t = files[thread[w].file][thread[w].pos] /\ thread[w].pos \in Nat
  BY <1>1, CurrentIsTile, PlaceInNat DEF Current
<1>3. ASSUME NEW r \in db, r.tile = t PROVE FALSE
  <2>1. ~Finished(r.tile[1])
    BY <1>1, <1>2, <1>3, NotFinished
  <2>2. PICK i \in Files : \E b \in DOMAIN files[i] : files[i][b] = t /\ Behind(i, b)
    BY <1>1, <1>3, <2>1 DEF TilesBehind
  <2>3. Behind(thread[w].file, thread[w].pos)
    BY <1>1, <1>2, <2>2 DEF HeadersOnce
  <2>4. thread[w].pc = "file"
    BY <1>1 DEF AtTile, Tiling
  <2> QED
    BY <1>2, <2>3, <2>4 DEF Behind
<1>4. main' = main /\ \A r \in db' : r \in db \/ r.tile = t
  BY <1>3 DEF WriteTile
<1>5. PICK leaf \in BOOLEAN : thread' = [thread EXCEPT ![w] = Tiled(@, t, g, d, leaf)]
  BY DEF WriteTile
<1> DEFINE th == Tiled(thread[w], t, g, d, leaf)
<1>6. thread' = [thread EXCEPT ![w] = th]
  BY <1>5
<1>7. th.file = thread[w].file /\ th.pos = thread[w].pos + 1
  BY <1>1, TiledPlace
<1>8. WriteChildren(w, t) /\ UNCHANGED <<files, skip, log, tasks>>
  BY DEF WriteTile
<1> HIDE DEF th, g, d
<1>9. th.pos \in Nat /\ th.pos > thread[w].pos
  BY <1>2, <1>7
<1> QED
  BY <1>1, <1>4, <1>6, <1>7, <1>8, <1>9, OnceTiledStep

LEMMA OnceFailTile ==
    ASSUME OnceInv, NEW w \in Threads, FailTile(w)
    PROVE  WrittenOnce' /\ WithinPass'
<1> DEFINE t == Current(w)
           n == Len(files[thread[w].file]) + 1
           tiled == Tiled(thread[w], t, GammaFor(t), main.drop, FALSE)
           th == [tiled EXCEPT !.pos = n, !.failed = TRUE]
<1>1. /\ TypeOK /\ AtTile(w) /\ main.phase = "pass" /\ thread[w] \in ThreadType /\ ~Skipped(t)
  BY DEF OnceInv, UniformInv, FailTile, AtTile, Tiling, TypeOK
<1>2. /\ thread[w].file \in Files /\ thread[w].pos \in DOMAIN files[thread[w].file]
      /\ files[thread[w].file] \in Seq(Data)
  BY <1>1, CurrentIsTile, PlaceInNat
<1>3. n \in Nat /\ n > thread[w].pos
  BY <1>2
<1>4. th.file = thread[w].file /\ th.pos = n
  <2>1. tiled.file = thread[w].file
    BY <1>1 DEF Tiled, ThreadType
  <2>2. DOMAIN tiled = DOMAIN thread[w] /\ "pos" \in DOMAIN thread[w] /\ "file" \in DOMAIN thread[w]
    BY <1>1 DEF Tiled, ThreadType
  <2> HIDE DEF tiled, n
  <2> QED
    BY <2>1, <2>2
<1>5. thread' = [thread EXCEPT ![w] = th]
  BY DEF FailTile
<1>6. /\ WriteChildren(w, t) /\ UNCHANGED <<db, files, skip, log, tasks>> /\ main' = main
  BY DEF FailTile
<1> HIDE DEF th, n, tiled
<1> QED
  BY <1>1, <1>3, <1>4, <1>5, <1>6, OnceTiledStep

\* A pass begins with nobody at any tile.
LEMMA FreshReaders ==
    ASSUME \A w \in Threads : thread'[w].pc \in {"take", "done"}
    PROVE  OneReader'
BY DEF OneReader

LEMMA OnceNextPass ==
    ASSUME OnceInv, NextPass
    PROVE  WrittenOnce' /\ WithinPass'
<1>1. PICK g \in 0 .. MaxGamma, d \in 0 .. MaxDrop, k \in Zooms \cup {-1} : Redo(g, d, k)
  BY DEF NextPass
<1>2. TypeOK /\ UniformInv /\ WithinPass /\ WrittenOnce /\ main.phase = "pass"
  BY <1>1 DEF OnceInv, UniformInv, Redo, Joins, AllDone
<1>3. /\ Joining(k) \in MainType /\ Joining(k).threads = main.threads
      /\ Joining(k).phase = main.phase
  BY <1>2, JoiningType
<1>4. /\ main.drop \in Nat /\ d \in Nat /\ d >= main.drop /\ main.pass \in 0 .. 2
  <2>1. d >= main.drop
    BY <1>1 DEF Redo, Joins, IsGreatest
  <2> QED
    BY <1>2, <2>1, Constants DEF TypeOK, MainType
<1>5. /\ main'.pass \in Nat \ {0} /\ main'.drop = d /\ main'.threads = main.threads
      /\ main'.first = (d > 0 /\ main.drop = 0) /\ main'.phase = main.phase
  <2> DEFINE J == Joining(k)
             pass == Least(main.pass + 1, 2)
             first == d > 0 /\ main.drop = 0
  <2>1. main' = [J EXCEPT !.pass = pass, !.gamma = g, !.drop = d, !.first = first]
    BY <1>1 DEF Redo
  <2>2. pass \in Nat \ {0}
    BY <1>4 DEF Least
  <2> HIDE DEF J, pass
  <2> QED
    BY <1>3, <2>1, <2>2 DEF MainType, J
<1>6. UNCHANGED <<files, sub, skip, log>>
  BY <1>1 DEF Redo
<1>7. OneReader'
  <2>1. \A w \in Threads : thread'[w].pc \in {"take", "done"}
    BY <1>1 DEF Redo, FreshThread
  <2> QED
    BY <2>1, FreshReaders
<1>8. DroppingBegins'
  BY <1>4, <1>5 DEF DroppingBegins
<1>9. HeadersBehind'
  <2> SUFFICES ASSUME NEW j \in Files, NEW a \in DOMAIN sub[j]
               PROVE  \E i \in Files : \E b \in DOMAIN files[i] :
                        /\ sub[j][a] \in Children(files[i][b], main.threads)
                        /\ ChildrenWritten(i, b)'
    BY <1>5, <1>6 DEF HeadersBehind
  <2>1. PICK i \in Files : \E b \in DOMAIN files[i] :
          sub[j][a] \in Children(files[i][b], main.threads) /\ ChildrenWritten(i, b)
    BY <1>2 DEF WithinPass, HeadersBehind
  <2>2. PICK b \in DOMAIN files[i] :
          sub[j][a] \in Children(files[i][b], main.threads) /\ ChildrenWritten(i, b)
    BY <2>1
  <2>3. ChildrenWritten(i, b)'
    <3>1. CASE Parent(files[i][b]) \in skip
      <4>1. main.drop > 0
        BY <2>2, <3>1 DEF ChildrenWritten
      <4>2. main'.drop > 0 /\ ~main'.first
        <5>1. d > 0 /\ main.drop # 0
          BY <1>4, <4>1
        <5> QED
          BY <1>5, <5>1
      <4> QED
        BY <1>6, <3>1, <4>2 DEF ChildrenWritten
    <3>2. CASE Parent(files[i][b]) \notin skip
      BY <1>5, <1>6, <3>2 DEF ChildrenWritten
    <3> QED
      BY <3>1, <3>2
  <2> QED
    BY <2>2, <2>3
<1>10. TilesBehind'
  <2>1. \A r \in db : ~Finished(r.tile[1]) => r.tile[1] = ZoomOut(k)
    BY <1>1, <1>2, JoinsAll DEF Redo
  <2>2. \A r \in db' : Finished(r.tile[1])
    BY <1>1, <2>1 DEF Redo, Erased
  <2> QED
    BY <1>6, <2>2 DEF TilesBehind, Finished
<1>11. WrittenOnce'
  BY <1>2, <1>5, <1>6 DEF WrittenOnce, HeadersOnce, NeverExists
<1> QED
  BY <1>7, <1>8, <1>9, <1>10, <1>11 DEF WithinPass

LEMMA OnceNextLevel ==
    ASSUME OnceInv, NextLevel
    PROVE  WrittenOnce' /\ WithinPass'
<1>1. PICK g \in 0 .. MaxGamma, d \in 0 .. MaxDrop, k \in Zooms \cup {-1}, n \in ThreadCounts :
        /\ Joins(g, d, k) /\ ~Raised(g, d)
        /\ main' = [Joining(k) EXCEPT !.z = ZoomOut(k) + 1, !.pass = 0, !.gamma = 0,
                                      !.drop = 0, !.first = FALSE, !.threads = n]
        /\ thread' = [w \in Threads |-> FreshThread(w < n)]
        /\ log' = FinishedLog(k)
  BY Zenon DEF NextLevel
<1>2. files' = sub /\ sub' = [j \in Files |-> <<>>] /\ db' = db
  BY DEF NextLevel
<1>3. TypeOK /\ UniformInv /\ WrittenOnce /\ main.phase = "pass"
  BY <1>1 DEF OnceInv, UniformInv, Joins, AllDone
<1>4. main'.pass = 0 /\ main'.drop = 0 /\ main'.first = FALSE /\ main'.phase = main.phase
  <2> DEFINE J == Joining(k)
             z == ZoomOut(k) + 1
  <2>1. J \in MainType /\ J.phase = main.phase
    BY <1>3, JoiningType
  <2>2. main' = [J EXCEPT !.z = z, !.pass = 0, !.gamma = 0, !.drop = 0,
                          !.first = FALSE, !.threads = n]
    BY <1>1
  <2> HIDE DEF J, z
  <2> QED
    BY <2>1, <2>2 DEF MainType
<1>5. OneReader'
  <2>1. \A w \in Threads : thread'[w].pc \in {"take", "done"}
    BY <1>1 DEF FreshThread
  <2> QED
    BY <2>1, FreshReaders
<1>6. DroppingBegins'
  BY <1>4 DEF DroppingBegins
<1>7. \A j \in Files : DOMAIN sub'[j] = {}
  BY <1>2
<1>8. HeadersBehind'
  BY <1>7 DEF HeadersBehind
<1>9. TilesBehind'
  <2>1. \A r \in db : Finished(r.tile[1])'
    BY <1>1, <1>2, <1>3, UniformFinish
  <2> QED
    BY <1>2, <2>1 DEF TilesBehind
<1>10. WrittenOnce'
  BY <1>2, <1>3, <1>4, <1>7 DEF WrittenOnce, HeadersOnce, NeverExists
<1> QED
  BY <1>5, <1>6, <1>8, <1>9, <1>10 DEF WithinPass

LEMMA OnceReturn ==
    ASSUME OnceInv, Return \/ ReturnFailed
    PROVE  WrittenOnce' /\ main'.phase # "pass"
<1>1. main'.phase \in {"complete", "through", "nodata"}
  <2>1. PICK k \in Zooms \cup {-1} :
          \E last \in Nat \cup {-1}, phase \in {"complete", "through", "nodata"} :
            \/ main' = [Joining(k) EXCEPT !.maxzoom = last, !.result = last, !.phase = "complete"]
            \/ main' = [Joining(k) EXCEPT !.result = ZoomOut(k) - 1, !.phase = phase]
    <3>1. CASE Return
      <4>1. PICK k \in Zooms \cup {-1} :
              \E last \in {Least(Joining(k).maxzoom, Joining(k).largest), Joining(k).maxzoom} :
                main' = [Joining(k) EXCEPT !.maxzoom = last, !.result = last, !.phase = "complete"]
        BY <3>1, Zenon DEF Return
      <4>2. Joining(k) \in MainType
        BY JoiningType DEF OnceInv, UniformInv
      <4>3. Joining(k).maxzoom \in Nat /\ Joining(k).largest \in Nat \cup {-1}
        BY <4>2 DEF MainType
      <4>4. Least(Joining(k).maxzoom, Joining(k).largest) \in Nat \cup {-1}
        BY <4>3 DEF Least
      <4> QED
        BY <4>1, <4>3, <4>4
    <3>2. CASE ReturnFailed
      <4>1. PICK k \in Zooms \cup {-1} :
              main' = [Joining(k) EXCEPT
                  !.result = ZoomOut(k) - 1,
                  !.phase = IF ZoomOut(k) - 1 > MinZoom THEN "through" ELSE "nodata"]
        BY <3>2, Zenon DEF ReturnFailed
      <4> QED
        BY <4>1
    <3> QED
      BY <3>1, <3>2
  <2>2. Joining(k) \in MainType
    BY JoiningType DEF OnceInv, UniformInv
  <2> DEFINE J == Joining(k)
             result == ZoomOut(k) - 1
  <2>3. \E last \in Nat \cup {-1}, phase \in {"complete", "through", "nodata"} :
            \/ main' = [J EXCEPT !.maxzoom = last, !.result = last, !.phase = "complete"]
            \/ main' = [J EXCEPT !.result = result, !.phase = phase]
    BY <2>1
  <2> HIDE DEF J, result
  <2> QED
    BY <2>2, <2>3 DEF MainType, J
<1>2. UNCHANGED <<files, sub>>
  BY DEF Return, ReturnFailed
<1> QED
  BY <1>1, <1>2 DEF OnceInv, WrittenOnce, HeadersOnce, NeverExists

LEMMA OnceNext == OnceInv /\ [Next]_vars => OnceInv'
<1> SUFFICES ASSUME OnceInv, [Next]_vars PROVE OnceInv'
  OBVIOUS
<1>1. UniformInv'
  BY UniformNext DEF OnceInv
<1>2. ASSUME NEW w \in Threads, ThreadStep(w)
      PROVE  WrittenOnce' /\ (main'.phase = "pass" => WithinPass')
  BY <1>2, OnceTakeFile, OnceNoMoreFiles, OnceSkipTile, OnceWriteTile, OnceGiveUp,
     OnceFailTile, OnceCloseFile DEF ThreadStep
<1>3. CASE MainStep
  BY <1>1, <1>3, OnceNextPass, OnceNextLevel, OnceReturn DEF MainStep, OnceInv
<1>4. CASE UNCHANGED vars
  <2>1. WrittenOnce'
    BY <1>4 DEF vars, OnceInv, WrittenOnce, HeadersOnce, NeverExists
  <2>2. ASSUME main.phase = "pass" PROVE WithinPass'
    <3>1. OneReader'
      BY <1>4, <2>2 DEF vars, OnceInv, WithinPass, OneReader
    <3>2. \A i \in Files, b \in Nat : Behind(i, b) => Behind(i, b)'
      BY <1>4 DEF vars, Behind
    <3> QED
      BY <1>4, <2>2, <3>1, <3>2, WithinPassKept DEF vars, OnceInv, UniformInv
  <2> QED
    BY <1>1, <1>4, <2>1, <2>2 DEF vars, OnceInv
<1> QED
  BY <1>1, <1>2, <1>3, <1>4 DEF Next, Over, OnceInv

\* However many passes a zoom takes and however the threads interleave, the features of a
\* tile go into one place only for the next zoom, and no tile is stored over another.
THEOREM WritesOnce == Spec => []WrittenOnce
<1>1. OnceInv => WrittenOnce
  BY DEF OnceInv
<1> QED
  BY <1>1, OnceInit, OnceNext, PTL DEF Spec

-----------------------------------------------------------------------------
(***************************************************************************)
(* Numbers, and the ancestors of a tile                                    *)
(***************************************************************************)

\* A set of numbers has a least one.
LEMMA LeastNumber ==
    ASSUME NEW S, S \subseteq Nat, S # {}
    PROVE  \E m \in S : \A i \in S : m <= i
<1>1. PICK m \in S : \A i \in S : ~ (<<i, m>> \in OpToRel(<, Nat))
  BY NatLessThanWellFounded, WFMin
<1>2. SUFFICES ASSUME NEW i \in S
               PROVE  m <= i
  OBVIOUS
<1>3. m \in Nat /\ i \in Nat /\ ~ (<<i, m>> \in OpToRel(<, Nat))
  BY <1>1
<1> QED
  BY <1>3 DEF OpToRel

\* Half of a whole part is the whole part of half.
LEMMA HalfOf ==
    ASSUME NEW x \in Nat, NEW a \in Nat \ {0}
    PROVE  x \div (2 * a) = (x \div a) \div 2 /\ x \div a \in Nat
<1> DEFINE q == x \div a
           r == x % a
           p == q \div 2
           s == q % 2
<1>1. q \in Nat /\ r \in 0 .. a - 1 /\ x = a * q + r
  OBVIOUS
<1>2. p \in Nat /\ s \in 0 .. 1 /\ q = 2 * p + s
  BY <1>1
<1> HIDE DEF q, r, p, s
<1>3. a * s \in 0 .. a
  BY <1>2
<1>4. a * q = (2 * a) * p + a * s
  BY <1>1, <1>2
<1> DEFINE u == a * s + r
<1>5. u \in 0 .. 2 * a - 1
  BY <1>1, <1>3
<1>6. x = (2 * a) * p + u
  BY <1>1, <1>2, <1>3, <1>4
<1> HIDE DEF u
<1> DEFINE b == 2 * a
<1>7. b \in Nat \ {0} /\ u \in 0 .. b - 1 /\ x = b * p + u
  BY <1>5, <1>6
<1> HIDE DEF b
<1>8. x \div b = p
  BY <1>2, <1>7
<1> QED
  BY <1>1, <1>8 DEF b, p, q

\* A tile is made of three numbers.
LEMMA TileParts ==
    ASSUME NEW t \in Data
    PROVE  /\ t[1] \in Nat /\ t[2] \in Nat /\ t[3] \in Nat /\ t[1] \in Zooms
           /\ t = <<t[1], t[2], t[3]>> /\ Root[1] \in Nat /\ Root[1] <= t[1] /\ t[1] <= ZoomLimit
<1>1. Data \subseteq Zooms \X Nat \X Nat /\ Root \in Data /\ ZoomLimit \in Nat
      /\ \A u \in Data : u[1] >= Root[1]
  BY DataAssumption, ZoomAssumption DEF DataAssumption, ZoomAssumption
<1>2. t \in Zooms \X Nat \X Nat /\ Root \in Zooms \X Nat \X Nat
  BY <1>1
<1>3. t[1] \in Zooms /\ t[2] \in Nat /\ t[3] \in Nat /\ t = <<t[1], t[2], t[3]>> /\ Root[1] \in Zooms
  BY <1>2
<1> QED
  BY <1>1, <1>3 DEF Zooms

\* The ancestor of a tile one zoom further up is its parent.
LEMMA AncestorStep ==
    ASSUME NEW t \in Data, NEW k \in Nat, k < t[1]
    PROVE  AncestorAt(t, k) = Parent(AncestorAt(t, k + 1))
<1> DEFINE i == t[1] - (k + 1)
           a == 2^i
<1>1. t[1] \in Nat /\ t[2] \in Nat /\ t[3] \in Nat /\ t[1] <= ZoomLimit /\ ZoomLimit \in Nat
      /\ TempFiles \in Nat
  BY TileParts, Constants
<1>2. i \in Nat /\ i <= ZoomLimit /\ i + 1 = t[1] - k
  BY <1>1
<1>3. a \in Nat \ {0} /\ 2^(i + 1) = 2 * a
  BY <1>1, <1>2, PowerAssumption DEF PowerAssumption
<1>4. 2^(t[1] - k) = 2 * a
  BY <1>2, <1>3
<1> HIDE DEF a
<1>5. AncestorAt(t, k) = <<k, t[2] \div (2 * a), t[3] \div (2 * a)>>
  BY <1>4 DEF AncestorAt
<1>6. AncestorAt(t, k + 1) = <<k + 1, t[2] \div a, t[3] \div a>>
  BY DEF AncestorAt, a
<1>7. Parent(AncestorAt(t, k + 1)) = <<(k + 1) - 1, (t[2] \div a) \div 2, (t[3] \div a) \div 2>>
  BY <1>6 DEF Parent
<1>8. /\ t[2] \div (2 * a) = (t[2] \div a) \div 2
      /\ t[3] \div (2 * a) = (t[3] \div a) \div 2
  BY <1>1, <1>3, HalfOf
<1> QED
  BY <1>5, <1>7, <1>8

LEMMA AncestorSelf ==
    ASSUME NEW t \in Data
    PROVE  AncestorAt(t, t[1]) = t
<1>1. t[1] \in Nat /\ t[2] \in Nat /\ t[3] \in Nat /\ t = <<t[1], t[2], t[3]>>
  BY TileParts
<1>2. t[1] - t[1] = 0 /\ 2^0 = 1
  BY <1>1, PowerAssumption DEF PowerAssumption
<1>3. 2^(t[1] - t[1]) = 1
  BY <1>2
<1>4. t[2] \div 1 = t[2] /\ t[3] \div 1 = t[3]
  BY <1>1
<1> QED
  BY <1>1, <1>3, <1>4 DEF AncestorAt

\* All the ancestors of a tile down from the first zoom are tiles.
LEMMA AncestorIn ==
    ASSUME NEW t \in Data, NEW k \in Root[1] .. t[1]
    PROVE  AncestorAt(t, k) \in Data /\ AncestorAt(t, k)[1] = k
<1>1. t[1] \in Nat /\ Root[1] \in Nat /\ Root[1] <= t[1]
  BY TileParts
<1>2. \A i \in Root[1] .. t[1] : AncestorAt(t, i)[1] = i
  BY DEF AncestorAt
<1> DEFINE S == {j \in Nat : j <= t[1] - Root[1] /\ AncestorAt(t, t[1] - j) \notin Data}
<1>3. S = {}
  <2> SUFFICES ASSUME S # {} PROVE FALSE
    OBVIOUS
  <2>1. S \subseteq Nat
    OBVIOUS
  <2>2. PICK j \in S : \A i \in S : j <= i
    BY <2>1, LeastNumber
  <2>3. j \in Nat /\ j <= t[1] - Root[1] /\ AncestorAt(t, t[1] - j) \notin Data
    OBVIOUS
  <2>4. j # 0
    <3> SUFFICES ASSUME j = 0 PROVE FALSE
      OBVIOUS
    <3>1. t[1] - j = t[1]
      BY <1>1
    <3> QED
      BY <2>3, <3>1, AncestorSelf
  <2>5. j - 1 \in Nat /\ j - 1 <= t[1] - Root[1] /\ j - 1 < j
    BY <1>1, <2>3, <2>4
  <2>6. j - 1 \notin S
    BY <2>1, <2>2, <2>3, <2>5
  <2> DEFINE m == t[1] - j
             u == AncestorAt(t, m + 1)
  <2>7. m \in Nat /\ m < t[1] /\ m + 1 = t[1] - (j - 1) /\ Root[1] < m + 1 /\ m + 1 \in Root[1] .. t[1]
    BY <1>1, <2>3, <2>5
  <2>8. u \in Data
    BY <2>5, <2>6, <2>7
  <2>9. u[1] = m + 1
    BY <1>2, <2>7
  <2> HIDE DEF u
  <2>10. u # Root
    BY <2>7, <2>9
  <2>11. Parent(u) \in Data
    BY <2>8, <2>10, DataAssumption DEF DataAssumption
  <2>12. AncestorAt(t, m) = Parent(u)
    BY <2>7, AncestorStep DEF u
  <2> QED
    BY <2>3, <2>11, <2>12
<1>4. t[1] - k \in Nat /\ t[1] - k <= t[1] - Root[1] /\ t[1] - (t[1] - k) = k
  BY <1>1
<1>5. t[1] - k \notin S
  BY <1>3
<1> QED
  BY <1>2, <1>4, <1>5

\* An ancestor's ancestor is an ancestor.
LEMMA AncestorOfAncestor ==
    ASSUME NEW t \in Data, NEW k \in Root[1] .. t[1], NEW i \in Root[1] .. k
    PROVE  AncestorAt(AncestorAt(t, k), i) = AncestorAt(t, i)
<1> DEFINE a == AncestorAt(t, k)
           S == {j \in Nat : j <= k - Root[1] /\ AncestorAt(a, k - j) # AncestorAt(t, k - j)}
<1>1. t[1] \in Nat /\ Root[1] \in Nat /\ k \in Nat /\ i \in Nat /\ k <= t[1] /\ i <= k
  BY TileParts
<1>2. a \in Data /\ a[1] = k
  BY AncestorIn
<1> HIDE DEF a
<1>3. S = {}
  <2> SUFFICES ASSUME S # {} PROVE FALSE
    OBVIOUS
  <2>1. S \subseteq Nat
    OBVIOUS
  <2>2. PICK j \in S : \A n \in S : j <= n
    BY <2>1, LeastNumber
  <2>3. j \in Nat /\ j <= k - Root[1] /\ AncestorAt(a, k - j) # AncestorAt(t, k - j)
    OBVIOUS
  <2>4. j # 0
    <3> SUFFICES ASSUME j = 0 PROVE FALSE
      OBVIOUS
    <3>1. k - j = k
      BY <1>1
    <3>2. AncestorAt(a, k) = a
      BY <1>2, AncestorSelf
    <3> QED
      BY <2>3, <3>1, <3>2 DEF a
  <2>5. j - 1 \in Nat /\ j - 1 <= k - Root[1] /\ j - 1 < j
    BY <1>1, <2>3, <2>4
  <2>6. j - 1 \notin S
    BY <2>1, <2>2, <2>3, <2>5
  <2> DEFINE m == k - j
  <2>7. m \in Nat /\ m < k /\ m < t[1] /\ m + 1 = k - (j - 1)
    BY <1>1, <2>3, <2>5
  <2>8. AncestorAt(a, m + 1) = AncestorAt(t, m + 1)
    BY <2>5, <2>6, <2>7
  <2>9. /\ AncestorAt(t, m) = Parent(AncestorAt(t, m + 1))
        /\ AncestorAt(a, m) = Parent(AncestorAt(a, m + 1))
    BY <1>2, <2>7, AncestorStep
  <2> QED
    BY <2>3, <2>8, <2>9
<1>4. k - i \in Nat /\ k - i <= k - Root[1] /\ k - (k - i) = i
  BY <1>1
<1>5. k - i \notin S
  BY <1>3
<1> QED
  BY <1>4, <1>5 DEF a

\* No zoom is empty.
LEMMA ZoomsHaveTiles ==
    ASSUME NEW z \in Root[1] .. ZoomLimit
    PROVE  \E t \in Data : t[1] = z
<1> DEFINE S == {j \in Nat : Root[1] <= j /\ j <= ZoomLimit /\ \A t \in Data : t[1] # j}
<1>1. Root \in Data /\ Root[1] \in Nat /\ ZoomLimit \in Nat
  BY Constants
<1>2. S = {}
  <2> SUFFICES ASSUME S # {} PROVE FALSE
    OBVIOUS
  <2>1. S \subseteq Nat
    OBVIOUS
  <2>2. PICK j \in S : \A i \in S : j <= i
    BY <2>1, LeastNumber
  <2>3. j \in Nat /\ Root[1] <= j /\ j <= ZoomLimit /\ \A t \in Data : t[1] # j
    OBVIOUS
  <2>4. j # Root[1]
    BY <1>1, <2>3
  <2>5. j - 1 \in Nat /\ Root[1] <= j - 1 /\ j - 1 <= ZoomLimit /\ j - 1 < j
    BY <1>1, <2>3, <2>4
  <2>6. PICK t \in Data : t[1] = j - 1
    BY <2>1, <2>2, <2>3, <2>5
  <2>7. t[1] < ZoomLimit
    BY <1>1, <2>3, <2>6
  <2>8. PICK c \in Data : Parent(c) = t
    BY <2>7, DataAssumption DEF DataAssumption
  <2>9. c[1] - 1 = t[1] /\ c[1] \in Nat
    BY <2>8, TileParts DEF Parent
  <2>10. c[1] = j
    BY <2>3, <2>6, <2>9
  <2> QED
    BY <2>3, <2>10
<1> QED
  BY <1>1, <1>2

\* Powers of 2 grow.
LEMMA PowersGrow ==
    ASSUME NEW m \in Nat, NEW e \in m .. ZoomLimit + TempFiles
    PROVE  2^m \in Nat \ {0} /\ 2^e \in Nat \ {0} /\ 2^m <= 2^e
<1>1. ZoomLimit \in Nat /\ TempFiles \in Nat
  BY Constants
<1>2. \A i \in 0 .. ZoomLimit + TempFiles : 2^i \in Nat \ {0} /\ 2^(i + 1) = 2 * 2^i
  BY PowerAssumption DEF PowerAssumption
<1> DEFINE S == {j \in Nat : j <= e - m /\ ~ (2^m <= 2^(m + j))}
<1>3. S = {}
  <2> SUFFICES ASSUME S # {} PROVE FALSE
    OBVIOUS
  <2>1. S \subseteq Nat
    OBVIOUS
  <2>2. PICK j \in S : \A i \in S : j <= i
    BY <2>1, LeastNumber
  <2>3. j \in Nat /\ j <= e - m /\ ~ (2^m <= 2^(m + j))
    OBVIOUS
  <2>4. j # 0
    <3> SUFFICES ASSUME j = 0 PROVE FALSE
      OBVIOUS
    <3>1. m + j = m /\ m \in 0 .. ZoomLimit + TempFiles
      BY <1>1
    <3>2. 2^m \in Nat
      BY <1>2, <3>1
    <3>3. 2^m <= 2^m
      BY <3>2
    <3> QED
      BY <2>3, <3>1, <3>3
  <2>5. j - 1 \in Nat /\ j - 1 <= e - m /\ j - 1 < j
    BY <1>1, <2>3, <2>4
  <2>6. 2^m <= 2^(m + (j - 1))
    BY <2>1, <2>2, <2>3, <2>5
  <2> DEFINE i == m + (j - 1)
  <2>7. i \in 0 .. ZoomLimit + TempFiles /\ m \in 0 .. ZoomLimit + TempFiles /\ i + 1 = m + j
    BY <1>1, <2>3, <2>5
  <2>8. 2^i \in Nat /\ 2^m \in Nat /\ 2^(m + j) = 2 * 2^i
    BY <1>2, <2>7
  <2>9. 2^m <= 2^i
    BY <2>6
  <2>10. 2^m <= 2 * 2^i
    BY <2>8, <2>9
  <2> QED
    BY <2>3, <2>8, <2>10
<1>4. e - m \in Nat /\ e - m <= e - m /\ m + (e - m) = e
  BY <1>1
<1>5. 2^m <= 2^(m + (e - m))
  BY <1>3, <1>4
<1>6. m \in 0 .. ZoomLimit + TempFiles /\ e \in 0 .. ZoomLimit + TempFiles
  BY <1>1
<1> QED
  BY <1>2, <1>4, <1>5, <1>6

\* Numbers with the same whole part are close, and close ones with the same rest are equal.
LEMMA SameWhole ==
    ASSUME NEW a \in Nat \ {0}, NEW x \in Nat, NEW y \in Nat, x \div a = y \div a
    PROVE  x - y < a /\ y - x < a
<1> DEFINE q == x \div a
           r == x % a
           s == y % a
<1>1. r \in 0 .. a - 1 /\ s \in 0 .. a - 1 /\ q \in Nat /\ x = a * q + r /\ y = a * q + s
  OBVIOUS
<1> HIDE DEF q, r, s
<1>2. a * q \in Nat
  BY <1>1
<1> QED
  BY <1>1, <1>2

LEMMA SameRest ==
    ASSUME NEW a \in Nat \ {0}, NEW x \in Nat, NEW y \in Nat, x % a = y % a,
           x - y < a, y - x < a
    PROVE  x = y
<1> DEFINE p == x \div a
           q == y \div a
           r == x % a
<1>1. r \in 0 .. a - 1 /\ p \in Nat /\ q \in Nat /\ x = a * p + r /\ y = a * q + r
  OBVIOUS
<1> HIDE DEF p, q, r
<1>2. CASE p = q
  BY <1>1, <1>2
<1>3. ASSUME NEW i \in Nat, NEW j \in Nat, i < j PROVE a * j >= a * i + a
  <2>1. j >= i + 1
    BY <1>3
  <2>2. a * (j - (i + 1)) >= 0 /\ a * (j - (i + 1)) = a * j - (a * i + a)
    BY <2>1
  <2> QED
    BY <2>2
<1>4. CASE p < q
  <2>1. a * q >= a * p + a
    BY <1>1, <1>3, <1>4
  <2>2. a * q \in Nat /\ a * p \in Nat
    BY <1>1
  <2> QED
    BY <1>1, <2>1, <2>2
<1>5. CASE q < p
  <2>1. a * p >= a * q + a
    BY <1>1, <1>3, <1>5
  <2>2. a * q \in Nat /\ a * p \in Nat
    BY <1>1
  <2> QED
    BY <1>1, <2>1, <2>2
<1> QED
  BY <1>1, <1>2, <1>4, <1>5

\* Two places in a square of side p that are numbered row by row have the same number
\* modulo p * p or more only if they are the same.
LEMMA PlacesApart ==
    ASSUME NEW p \in Nat \ {0}, NEW s \in Nat, p * p <= s,
           NEW x \in Nat, NEW y \in Nat, NEW u \in Nat, NEW v \in Nat,
           x - u < p, u - x < p, y - v < p, v - y < p,
           (x * p + (y % p)) % s = (u * p + (v % p)) % s
    PROVE  x = u /\ y = v
<1> DEFINE i == y % p
           j == v % p
           m == x * p + i
           n == u * p + j
<1>1. i \in 0 .. p - 1 /\ j \in 0 .. p - 1
  OBVIOUS
<1> HIDE DEF i, j
<1>2. x * p \in Nat /\ u * p \in Nat /\ p * p \in Nat \ {0} /\ p * p >= p
  OBVIOUS
<1>3. \A a, b \in Nat : a - b < p => a * p <= b * p + (p * p - p)
  <2> SUFFICES ASSUME NEW a \in Nat, NEW b \in Nat, a - b < p
               PROVE  a * p <= b * p + (p * p - p)
    OBVIOUS
  <2> DEFINE e == b + (p - 1) - a
  <2>1. e \in Nat
    OBVIOUS
  <2>2. e * p >= 0
    BY <2>1
  <2>3. e * p = b * p + (p * p - p) - a * p
    OBVIOUS
  <2> HIDE DEF e
  <2>4. a * p \in Nat /\ b * p \in Nat /\ p * p \in Nat
    OBVIOUS
  <2> QED
    BY <2>2, <2>3, <2>4
<1>4. x * p <= u * p + (p * p - p) /\ u * p <= x * p + (p * p - p)
  BY <1>3
<1>5. m \in Nat /\ n \in Nat /\ m - n < s /\ n - m < s /\ s \in Nat \ {0}
  BY <1>1, <1>2, <1>4
<1>6. m % s = n % s
  BY DEF i, j
<1> HIDE DEF m, n
<1>7. m = n
  BY <1>5, <1>6, SameRest
<1>8. x * p + i = u * p + j
  BY <1>7 DEF m, n
<1>9. ASSUME NEW a \in Nat, NEW b \in Nat, a < b PROVE b * p >= a * p + p
  <2>1. (b - (a + 1)) * p >= 0 /\ (b - (a + 1)) * p = b * p - (a * p + p)
    BY <1>9
  <2> QED
    BY <2>1
<1>10. x = u
  <2>1. CASE x < u
    <3>1. u * p >= x * p + p
      BY <1>9, <2>1
    <3> QED
      BY <1>1, <1>2, <1>8, <3>1
  <2>2. CASE u < x
    <3>1. x * p >= u * p + p
      BY <1>9, <2>2
    <3> QED
      BY <1>1, <1>2, <1>8, <3>1
  <2> QED
    BY <2>1, <2>2
<1>11. i = j
  BY <1>1, <1>2, <1>8, <1>10
<1>12. y = v
  BY <1>11, SameRest DEF i, j
<1> QED
  BY <1>10, <1>12

\* A zoom is followed by one of those that there are shards for, and below MinZoom by one
\* not beyond it.
LEMMA NextZoomNear ==
    ASSUME NEW z \in Zooms, NEW n \in ThreadCounts
    PROVE  /\ NextZoom(z, n) \in z + 1 .. z + MaxZoomIncrement(n)
           /\ IF z < MinZoom THEN NextZoom(z, n) <= MinZoom ELSE NextZoom(z, n) = z + 1
<1>1. MaxZoomIncrement(n) \in Nat \ {0}
  BY Constants, IncrementAssumption DEF IncrementAssumption
<1>2. z \in Nat /\ MinZoom \in Nat
  BY Constants DEF Zooms
<1> QED
  BY <1>1, <1>2 DEF NextZoom

\* The children of a tile have files of their own.
LEMMA ShardsApart ==
    ASSUME NEW t \in Data, NEW n \in ThreadCounts, NEW w \in 0 .. n - 1,
           NEW c \in Children(t, n), NEW d \in Children(t, n)
    PROVE  /\ Shard(w, c, n) \in Files
           /\ Shard(w, c, n) = Shard(w, d, n) => c = d
<1> DEFINE e == MaxZoomIncrement(n)
           S == Shards(n)
           k == NextZoom(t[1], n)
           m == k - t[1]
           p == 2^e
           a == 2^m
<1>1. /\ t[1] \in Zooms /\ t[1] \in Nat /\ t[2] \in Nat /\ t[3] \in Nat
      /\ c \in Data /\ d \in Data /\ c[1] = k /\ d[1] = k
      /\ AncestorAt(c, t[1]) = t /\ AncestorAt(d, t[1]) = t
  BY TileParts DEF Children
<1>2. /\ c[2] \in Nat /\ c[3] \in Nat /\ d[2] \in Nat /\ d[3] \in Nat
      /\ c = <<k, c[2], c[3]>> /\ d = <<k, d[2], d[3]>>
  BY <1>1, TileParts
<1>3. k \in t[1] + 1 .. t[1] + e
  BY <1>1, NextZoomNear
<1>4. e \in 1 .. TempFiles /\ p * p <= S /\ TempFiles \in Nat /\ ZoomLimit \in Nat
      /\ S = TempFiles \div n
  BY IncrementAssumption, Constants DEF IncrementAssumption, Shards
<1>5. m \in Nat /\ e \in m .. ZoomLimit + TempFiles
  BY <1>1, <1>3, <1>4
<1>6. a \in Nat \ {0} /\ p \in Nat \ {0} /\ a <= p
  BY <1>5, PowersGrow
<1>7. /\ c[2] \div a = t[2] /\ c[3] \div a = t[3] /\ d[2] \div a = t[2] /\ d[3] \div a = t[3]
  <2>1. AncestorAt(c, t[1]) = <<t[1], c[2] \div a, c[3] \div a>>
    BY <1>1 DEF AncestorAt
  <2>2. AncestorAt(d, t[1]) = <<t[1], d[2] \div a, d[3] \div a>>
    BY <1>1 DEF AncestorAt
  <2> HIDE DEF a
  <2> QED
    BY <1>1, <2>1, <2>2
<1>8. n \in Nat \ {0} /\ n <= TempFiles \div 4 /\ w \in Nat /\ w <= n - 1
  BY <1>4, ThreadAssumption DEF ThreadCounts, ThreadAssumption
<1> HIDE DEF a, p, S, e, k
<1>9. c[2] - d[2] < a /\ d[2] - c[2] < a /\ c[3] - d[3] < a /\ d[3] - c[3] < a
  BY <1>2, <1>6, <1>7, SameWhole
<1>10. c[2] - d[2] < p /\ d[2] - c[2] < p /\ c[3] - d[3] < p /\ d[3] - c[3] < p
  BY <1>2, <1>6, <1>9
<1> DEFINE x == (c[2] * p + (c[3] % p)) % S
           y == (d[2] * p + (d[3] % p)) % S
<1>11. Shard(w, c, n) = w * S + x /\ Shard(w, d, n) = w * S + y
  BY DEF Shard, S, p, e
<1>12. S \in Nat \ {0}
  <2>1. p * p \in Nat \ {0}
    BY <1>6
  <2>2. S \in Nat
    BY <1>4, <1>8
  <2> QED
    BY <1>4, <2>1, <2>2
<1>13. x \in 0 .. S - 1 /\ y \in 0 .. S - 1
  <2>1. c[2] * p + (c[3] % p) \in Nat /\ d[2] * p + (d[3] % p) \in Nat
    BY <1>2, <1>6
  <2> QED
    BY <1>12, <2>1
<1>14. Shard(w, c, n) \in Files
  <2> HIDE DEF x, y
  <2>1. n * S <= TempFiles
    BY <1>4, <1>8
  <2>2. w * S + S <= n * S
    <3>1. (n - (w + 1)) * S >= 0 /\ (n - (w + 1)) * S = n * S - (w * S + S)
      BY <1>8, <1>12
    <3>2. n * S \in Nat /\ w * S \in Nat
      BY <1>8, <1>12
    <3> QED
      BY <1>12, <3>1, <3>2
  <2>3. w * S \in Nat /\ n * S \in Nat
    BY <1>8, <1>12
  <2>4. w * S + x \in 0 .. TempFiles - 1
    BY <1>4, <1>12, <1>13, <2>1, <2>2, <2>3
  <2> QED
    BY <1>11, <2>4 DEF Files
<1>15. ASSUME Shard(w, c, n) = Shard(w, d, n) PROVE c = d
  <2>1. x = y
    <3> HIDE DEF x, y
    <3>1. w * S \in Nat
      BY <1>8, <1>12
    <3> QED
      BY <1>11, <1>13, <1>15, <3>1
  <2>2. c[2] = d[2] /\ c[3] = d[3]
    BY <1>2, <1>4, <1>6, <1>10, <1>12, <2>1, PlacesApart
  <2> QED
    BY <1>2, <2>2
<1> QED
  BY <1>14, <1>15

-----------------------------------------------------------------------------
(***************************************************************************)
(* What is known of the zooms so far, and of the one in progress           *)
(***************************************************************************)

\* f has a header for tile t.
HasHeader(f, t) == \E j \in Files : \E a \in DOMAIN f[j] : f[j][a] = t

\* The zoom of the files, z, may be ahead of main.z only before MinZoom.
AtLevel(z) ==
    /\ Root[1] <= z /\ main.z <= z /\ z <= main.maxzoom
    /\ MaxZoom <= main.maxzoom /\ main.maxzoom <= ZoomLimit
    /\ \A j \in Files : \A a \in DOMAIN files[j] : files[j][a][1] = z
    /\ main.z < z => z <= MinZoom /\ main.pass = 0

\* The leaves of a finished zoom are at MinZoom or below it, all the zooms from there on have
\* been done one by one, and skip has those of the last one.
LeavesKnown(z) ==
    /\ \A l \in skip : l[1] = z - 1 /\ MinZoom < z
    /\ skip # {} => skip = log[z - 1].leaves
    /\ \A k \in Zooms : log[k].leaves # {} =>
        /\ MinZoom <= k /\ k < main.z /\ log[k].drop = 0
        /\ k + 1 = main.z => log[k].leaves = skip
        /\ \A i \in k .. main.z - 1 : Finished(i)

\* A tile that is to stand in for its descendants is in the tileset.
ThreadLeaves(z) == \A w \in Threads : \A l \in thread[w].skipOut :
    main.drop = 0 /\ l[1] = z /\ need[l] >= 0 /\ Written(l)

\* Every tile of this zoom has a header, or an ancestor stands in for it.
Reached(z) == \A t \in Data : t[1] = z => HasHeader(files, t) \/ Covered(t)

\* The files are all open in the first pass, and each once more in the second; then they are
\* closed, and nothing is written.
Reading(w, j) == thread[w].pc = "file" /\ thread[w].file = j
FilesOpen ==
    /\ tasks \subseteq Useful(files)
    /\ main.pass = 0 => \A j \in Useful(files) : open[j]
    /\ main.pass = 1 =>
        /\ \A j \in Useful(files) : open[j] => j \in tasks \/ \E w \in Threads : Reading(w, j)
        /\ \A j \in tasks : open[j]
    /\ main.pass = 2 =>
        /\ \A j \in Useful(files) : ~open[j]
        /\ \A w \in Threads : thread[w].pc # "file"
        /\ \A r \in db : Finished(r.tile[1])

\* A thread only ends when all files have been taken.
TasksTaken == (\E w \in Joined : thread[w].pc = "done") => tasks = {}

\* A tile that has been passed by was skipped, or is in the tileset if it draws anything.
Treated(z) == main.pass <= 1 /\ ~FailedOut =>
    \A i \in Files : \A b \in DOMAIN files[i] : Behind(i, b) =>
        \/ Skipped(files[i][b])
        \/ /\ need[files[i][b]] >= 0 => Written(files[i][b])
           /\ \E w \in Joined : thread[w].wrote = z

\* The children of such a tile have headers, if there is to be another zoom, and so have those
\* of all the tiles that this zoom has in the tileset.
Wanted(z) == NextZoom(z, main.threads) <= main.maxzoom \/ AlwaysExtend \/ main.extend > 0
ChildrenHave(t) == \A c \in Children(t, main.threads) : HasHeader(sub, c)
ChildrenThere(z) == Wanted(z) /\ ~FailedOut =>
    /\ \A i \in Files : \A b \in DOMAIN files[i] :
        Parent(files[i][b]) \notin skip /\ (main.pass > 0 \/ Behind(i, b)) =>
            ChildrenHave(files[i][b])
    /\ \A r \in db : ~Finished(r.tile[1]) => ChildrenHave(r.tile)

FirstDropping == main.pass = 1 => (main.first <=> main.drop > 0)

\* All zooms so far are complete, unless they took three passes.
CompleteSoFar == \A k \in Zooms :
    MinZoom <= k /\ k < main.z => Complete(k) \/ log[k].passes > 2

\* Below a leaf there are tiles only where the zoom after it drops features.
DroppedAt(k) == IF Finished(k) THEN log[k].drop > 0 ELSE main.drop > 0
DroppedBelowLeaves(t) == \A k \in Root[1] .. t[1] - 1 :
    AncestorAt(t, k) \in log[k].leaves => DroppedAt(k + 1)
DropsBelowLeaves(z) ==
    /\ \A t \in Data : HasHeader(files, t) => \A k \in Root[1] .. z - 2 :
        AncestorAt(t, k) \in log[k].leaves => log[k + 1].drop > 0
    /\ \A t \in Data : HasHeader(sub, t) => DroppedBelowLeaves(t)
    /\ \A r \in db : DroppedBelowLeaves(r.tile)

\* A zoom that has to drop anything is followed by another one if zooms may be added; and
\* thresholds are raised only by tiles that the zoom before has not done without.
Raising(w) == thread[w].gamma > main.gamma \/ thread[w].drop > main.drop
Extending(z) ==
    /\ AlwaysExtend /\ main.drop > 0 => z < main.maxzoom \/ main.maxzoom = ZoomLimit
    /\ \A w \in Threads : Raising(w) => thread[w].still /\ thread[w].wrote = z
    /\ (main.pass > 0 \/ \E w \in Threads : Raising(w)) =>
        \E i \in Files : \E b \in DOMAIN files[i] : Parent(files[i][b]) \notin skip

\* A zoom that drops anything is not the last with tiles.
Largest(z) ==
    /\ main.largest <= z
    /\ ~main.failed /\ main.largest >= 0 /\ main.largest < main.z /\ log[main.largest].drop > 0 =>
        /\ skip = {} /\ main.pass = 0
        /\ \E i \in Files : DOMAIN files[i] # {}

Drawn == \A r \in db : need[r.tile] >= 0

LevelAt(z) ==
    /\ AtLevel(z) /\ LeavesKnown(z) /\ ThreadLeaves(z) /\ Reached(z) /\ FilesOpen /\ TasksTaken
    /\ Treated(z) /\ ChildrenThere(z) /\ FirstDropping /\ CompleteSoFar
    /\ DropsBelowLeaves(z) /\ Extending(z) /\ Largest(z) /\ Drawn
InLevel == main.phase = "pass" => \E z \in Zooms : LevelAt(z)

\* What holds of all zooms so far, and of the one in progress.
LevelsInv ==
    /\ OnceInv /\ need \in Needs /\ InLevel /\ Drawn
    /\ CompleteThrough /\ LeavesRespected /\ ExtendedFarEnough

-----------------------------------------------------------------------------
(***************************************************************************)
(* What a thread does for the zoom in progress                             *)
(***************************************************************************)

\* The types that the proofs need.
LEMMA MainTypes ==
    ASSUME TypeOK
    PROVE  /\ main \in MainType /\ main.z \in Nat /\ main.maxzoom \in Nat /\ main.pass \in 0 .. 2
           /\ main.gamma \in Nat /\ main.drop \in Nat /\ main.threads \in ThreadCounts
           /\ main.threads \in Nat \ {0} /\ main.largest \in Nat \cup {-1}
           /\ main.failed \in BOOLEAN /\ main.first \in BOOLEAN /\ main.extend \in Nat
           /\ Joined \subseteq Threads /\ 0 \in Joined
           /\ thread \in [Threads -> ThreadType]
           /\ \A w \in Threads : thread[w].gamma \in Nat /\ thread[w].drop \in Nat
                                 /\ thread[w].wrote \in Nat \cup {-1} /\ thread[w].pos \in Nat
                                 /\ thread[w].skipOut \subseteq Data
           /\ db \subseteq Tileset /\ \A r \in db : r.tile \in Data /\ r.tile[1] \in Nat
<1>1. main \in MainType /\ thread \in [Threads -> ThreadType] /\ db \subseteq Tileset
  BY DEF TypeOK
<1>2. /\ main.z \in Nat /\ main.maxzoom \in Nat /\ main.pass \in 0 .. 2
      /\ main.gamma \in Nat /\ main.drop \in Nat /\ main.threads \in ThreadCounts
      /\ main.threads \in Nat \ {0} /\ main.largest \in Nat \cup {-1}
      /\ main.failed \in BOOLEAN /\ main.first \in BOOLEAN /\ main.extend \in Nat
  <2>1. /\ main.z \in Nat /\ main.maxzoom \in Nat /\ main.pass \in 0 .. 2
        /\ main.gamma \in 0 .. MaxGamma /\ main.drop \in 0 .. MaxDrop
        /\ main.threads \in ThreadCounts /\ main.largest \in Nat \cup {-1}
        /\ main.failed \in BOOLEAN /\ main.first \in BOOLEAN /\ main.extend \in Nat
    BY <1>1 DEF MainType
  <2>2. MaxGamma \in Nat /\ MaxDrop \in Nat /\ ThreadCounts \subseteq Nat \ {0}
    BY Constants
  <2>3. main.gamma \in Nat /\ main.drop \in Nat
    BY <2>1, <2>2
  <2>4. main.threads \in Nat \ {0}
    BY <2>1, <2>2, Zenon
  <2> QED
    BY <2>1, <2>3, <2>4, Zenon
<1>3. Joined \subseteq Threads /\ 0 \in Joined
  BY <1>2, SkipOutType DEF Joined
<1>4. \A w \in Threads : thread[w].gamma \in Nat /\ thread[w].drop \in Nat
                         /\ thread[w].wrote \in Nat \cup {-1} /\ thread[w].pos \in Nat
                         /\ thread[w].skipOut \subseteq Data
  BY <1>1, Constants DEF ThreadType
<1>5. \A r \in db : r.tile \in Data /\ r.tile[1] \in Nat
  BY <1>1, Constants DEF Tileset
<1> QED
  BY <1>1, <1>2, <1>3, <1>4, <1>5

\* What stays so while a thread moves on and neither the tileset nor the files change.
LEMMA LevelQuiet ==
    ASSUME TypeOK, NEW z \in Zooms, LevelAt(z), UNCHANGED <<need, db, files, sub, skip, main, log>>,
           \A w \in Threads :
               /\ thread'[w].skipOut = thread[w].skipOut
               /\ thread'[w].gamma = thread[w].gamma /\ thread'[w].drop = thread[w].drop
               /\ thread'[w].wrote = thread[w].wrote
               /\ thread'[w].still = thread[w].still /\ thread'[w].failed = thread[w].failed,
           FilesOpen', TasksTaken',
           main.pass <= 1 => \A i \in Files : \A b \in DOMAIN files[i] :
               Behind(i, b)' => Behind(i, b) \/ Skipped(files[i][b])
    PROVE  LevelAt(z)'
<1>1. Joined' = Joined /\ Joined \subseteq Threads /\ (FailedOut' <=> FailedOut)
  <2>1. Joined' = Joined /\ Joined \subseteq Threads
    BY MainTypes DEF Joined
  <2> QED
    BY <2>1 DEF FailedOut
<1>2. /\ AtLevel(z) /\ LeavesKnown(z) /\ ThreadLeaves(z) /\ Reached(z) /\ Treated(z)
      /\ ChildrenThere(z) /\ FirstDropping /\ CompleteSoFar /\ DropsBelowLeaves(z)
      /\ Extending(z) /\ Largest(z) /\ Drawn
  BY DEF LevelAt
<1>3. AtLevel(z)' /\ LeavesKnown(z)' /\ FirstDropping' /\ Largest(z)' /\ Drawn'
  BY <1>2 DEF AtLevel, LeavesKnown, FirstDropping, Largest, Drawn, Finished
<1>4. ThreadLeaves(z)'
  BY <1>2 DEF ThreadLeaves, Written
<1>5. Reached(z)' /\ CompleteSoFar'
  BY <1>2 DEF Reached, HasHeader, Covered, Written, CompleteSoFar, Complete
<1>6. DropsBelowLeaves(z)'
  BY <1>2 DEF DropsBelowLeaves, HasHeader, DroppedBelowLeaves, DroppedAt, Finished
<1>7. Treated(z)'
  <2> SUFFICES ASSUME main.pass <= 1, ~FailedOut, NEW i \in Files, NEW b \in DOMAIN files[i],
                      Behind(i, b)', ~Skipped(files[i][b])
               PROVE  /\ need[files[i][b]] >= 0 => Written(files[i][b])
                      /\ \E w \in Joined : thread'[w].wrote = z
    BY <1>1 DEF Treated, Skipped, Written
  <2> QED
    BY <1>1, <1>2 DEF Treated
<1>8. ChildrenThere(z)'
  <2>1. Wanted(z)' <=> Wanted(z)
    BY DEF Wanted
  <2> SUFFICES ASSUME Wanted(z), ~FailedOut
               PROVE  /\ \A i \in Files : \A b \in DOMAIN files[i] :
                           Parent(files[i][b]) \notin skip /\ (main.pass > 0 \/ Behind(i, b)') =>
                               ChildrenHave(files[i][b])
                      /\ \A r \in db : ~Finished(r.tile[1]) => ChildrenHave(r.tile)
    BY <1>1, <2>1 DEF ChildrenThere, ChildrenHave, HasHeader, Finished
  <2>2. \A r \in db : ~Finished(r.tile[1]) => ChildrenHave(r.tile)
    BY <1>2 DEF ChildrenThere
  <2>3. ASSUME NEW i \in Files, NEW b \in DOMAIN files[i],
               Parent(files[i][b]) \notin skip, main.pass > 0 \/ Behind(i, b)'
        PROVE  ChildrenHave(files[i][b])
    <3>1. main.pass > 0 \/ Behind(i, b)
      <4>1. CASE main.pass > 0
        BY <4>1
      <4>2. CASE main.pass <= 1 /\ Behind(i, b)'
        BY <2>3, <4>2 DEF Skipped
      <4> QED
        BY <2>3, <4>1, <4>2, MainTypes
    <3> QED
      BY <1>2, <2>3, <3>1 DEF ChildrenThere
  <2> QED
    BY <2>2, <2>3
<1>9. Extending(z)'
  BY <1>2 DEF Extending, Raising
<1> QED
  BY <1>3, <1>4, <1>5, <1>6, <1>7, <1>8, <1>9 DEF LevelAt

LEMMA LevelTakeFile ==
    ASSUME OnceInv, NEW z \in Zooms, LevelAt(z), NEW w \in Threads, TakeFile(w)
    PROVE  LevelAt(z)'
<1>1. /\ TypeOK /\ main.phase = "pass" /\ OneReader /\ thread[w].pc = "take"
      /\ FilesOpen /\ TasksTaken
  BY DEF OnceInv, UniformInv, WithinPass, TakeFile, Running, LevelAt
<1>2. PICK j \in tasks :
        /\ tasks' = tasks \ {j}
        /\ thread' = IF open[j]
                     THEN [thread EXCEPT ![w] = [@ EXCEPT !.pc = "file", !.file = j, !.pos = 1]]
                     ELSE thread
  BY DEF TakeFile
<1>3. UNCHANGED <<need, db, files, open, sub, skip, main, log>>
  BY DEF TakeFile
<1>4. thread \in [Threads -> ThreadType]
  BY <1>1, MainTypes
<1>5. \A v \in Threads :
        /\ thread'[v].skipOut = thread[v].skipOut
        /\ thread'[v].gamma = thread[v].gamma /\ thread'[v].drop = thread[v].drop
        /\ thread'[v].wrote = thread[v].wrote
        /\ thread'[v].still = thread[v].still /\ thread'[v].failed = thread[v].failed
        /\ (thread'[v].pc = "done" <=> thread[v].pc = "done")
  BY <1>1, <1>2, <1>4 DEF ThreadType
<1>6. /\ \A v \in Threads : v # w => thread'[v] = thread[v]
      /\ IF open[j] THEN thread'[w].pc = "file" /\ thread'[w].file = j /\ thread'[w].pos = 1
                    ELSE thread' = thread
  BY <1>2, <1>4 DEF ThreadType
<1>7. FilesOpen'
  <2>1. tasks' \subseteq Useful(files')
    BY <1>1, <1>2, <1>3 DEF FilesOpen, Useful
  <2>2. main.pass = 1 => /\ \A i \in tasks' : open[i]
                         /\ \A i \in Useful(files) : open[i] =>
                               i \in tasks' \/ \E v \in Threads : Reading(v, i)'
    <3> SUFFICES ASSUME main.pass = 1, NEW i \in Useful(files), open[i], i \notin tasks'
                 PROVE  \E v \in Threads : Reading(v, i)'
      BY <1>1, <1>2 DEF FilesOpen
    <3>1. CASE i = j
      BY <1>6, <3>1 DEF Reading
    <3>2. CASE i # j
      <4>1. PICK v \in Threads : Reading(v, i)
        BY <1>1, <1>2, <3>2 DEF FilesOpen
      <4>2. v # w
        BY <1>1, <4>1 DEF Reading
      <4> QED
        BY <1>6, <4>1, <4>2 DEF Reading
    <3> QED
      BY <3>1, <3>2
  <2>3. main.pass = 2 => \A v \in Threads : thread'[v].pc # "file"
    BY <1>1, <1>2, <1>6 DEF FilesOpen
  <2> QED
    BY <1>1, <1>3, <2>1, <2>2, <2>3 DEF FilesOpen, Useful, Finished
<1>8. TasksTaken'
  <2>1. Joined' = Joined /\ Joined \subseteq Threads
    BY <1>1, <1>3, MainTypes DEF Joined
  <2> QED
    BY <1>1, <1>2, <1>5, <2>1 DEF TasksTaken
<1>9. ASSUME main.pass <= 1, NEW i \in Files, NEW b \in DOMAIN files[i], Behind(i, b)'
      PROVE  Behind(i, b)
  <2>1. open[j]
    <3>1. main.pass = 0 \/ main.pass = 1
      BY <1>1, <1>9, MainTypes
    <3> QED
      BY <1>1, <1>2, <3>1 DEF FilesOpen
  <2>2. b \in Nat /\ b >= 1
    BY <1>1, PlaceInNat
  <2>3. i # j
    BY <1>6, <1>9, <2>1, <2>2 DEF Behind
  <2> QED
    BY <1>1, <1>2, <1>6, <1>9, <2>1, <2>3 DEF Behind
<1> QED
  BY <1>1, <1>3, <1>5, <1>7, <1>8, <1>9, LevelQuiet

LEMMA LevelNoMoreFiles ==
    ASSUME OnceInv, NEW z \in Zooms, LevelAt(z), NEW w \in Threads, NoMoreFiles(w)
    PROVE  LevelAt(z)'
<1>1. /\ TypeOK /\ thread[w].pc = "take" /\ FilesOpen /\ tasks = {} /\ tasks' = {}
      /\ UNCHANGED <<need, db, files, open, sub, skip, main, log>>
  BY DEF OnceInv, UniformInv, NoMoreFiles, Running, LevelAt
<1>2. thread \in [Threads -> ThreadType]
  BY <1>1, MainTypes
<1>3. \A v \in Threads :
        /\ thread'[v].skipOut = thread[v].skipOut
        /\ thread'[v].gamma = thread[v].gamma /\ thread'[v].drop = thread[v].drop
        /\ thread'[v].wrote = thread[v].wrote
        /\ thread'[v].still = thread[v].still /\ thread'[v].failed = thread[v].failed
  BY <1>2 DEF NoMoreFiles, ThreadType
<1>4. \A v \in Threads : IF v = w THEN thread[v].pc # "file" /\ thread'[v].pc # "file"
                                  ELSE thread'[v] = thread[v]
  BY <1>1, <1>2 DEF NoMoreFiles, ThreadType
<1>5. FilesOpen'
  <2>1. \A j \in Files : (\E v \in Threads : Reading(v, j)) => \E v \in Threads : Reading(v, j)'
    BY <1>4 DEF Reading
  <2>2. Useful(files) \subseteq Files
    BY DEF Useful
  <2>3. main.pass = 2 => \A v \in Threads : thread'[v].pc # "file"
    BY <1>1, <1>4 DEF FilesOpen
  <2> QED
    BY <1>1, <2>1, <2>2, <2>3 DEF FilesOpen, Useful, Finished
<1>6. TasksTaken'
  BY <1>1 DEF TasksTaken
<1>7. \A i \in Files : \A b \in DOMAIN files[i] : Behind(i, b)' => Behind(i, b)
  BY <1>1, <1>4 DEF Behind
<1> QED
  BY <1>1, <1>3, <1>5, <1>6, <1>7, LevelQuiet

LEMMA LevelSkipTile ==
    ASSUME OnceInv, NEW z \in Zooms, LevelAt(z), NEW w \in Threads, SkipTile(w)
    PROVE  LevelAt(z)'
<1>1. /\ TypeOK /\ thread[w].pc = "file" /\ FilesOpen /\ TasksTaken /\ AtTile(w)
      /\ UNCHANGED <<need, db, files, open, sub, skip, main, log, tasks>> /\ Skipped(Current(w))
  BY DEF OnceInv, UniformInv, SkipTile, AtTile, Tiling, LevelAt
<1>2. thread \in [Threads -> ThreadType] /\ thread[w].pos \in Nat
  BY <1>1, MainTypes
<1>3. \A v \in Threads :
        /\ thread'[v].skipOut = thread[v].skipOut /\ thread'[v].pc = thread[v].pc
        /\ thread'[v].gamma = thread[v].gamma /\ thread'[v].drop = thread[v].drop
        /\ thread'[v].wrote = thread[v].wrote /\ thread'[v].file = thread[v].file
        /\ thread'[v].still = thread[v].still /\ thread'[v].failed = thread[v].failed
        /\ thread'[v].pos = IF v = w THEN thread[w].pos + 1 ELSE thread[v].pos
  BY <1>2 DEF SkipTile, ThreadType
<1>4. FilesOpen'
  <2>1. \A j \in Files, v \in Threads : Reading(v, j)' <=> Reading(v, j)
    BY <1>3 DEF Reading
  <2>2. Useful(files) \subseteq Files
    BY DEF Useful
  <2> QED
    BY <1>1, <1>3, <2>1, <2>2 DEF FilesOpen, Useful, Finished
<1>5. TasksTaken'
  <2>1. Joined' = Joined /\ Joined \subseteq Threads
    BY <1>1, MainTypes DEF Joined
  <2> QED
    BY <1>1, <1>3, <2>1 DEF TasksTaken
<1>6. ASSUME NEW i \in Files, NEW b \in DOMAIN files[i], Behind(i, b)', ~Behind(i, b)
      PROVE  Skipped(files[i][b])
  <2>1. b \in Nat
    BY <1>1, PlaceInNat
  <2>2. PICK v \in Threads : thread[v].pc = "file" /\ thread[v].file = i /\ ~(b < thread[v].pos)
    BY <1>1, <1>6 DEF Behind
  <2>3. b < thread'[v].pos
    BY <1>3, <1>6, <2>2 DEF Behind
  <2>4. v = w /\ b = thread[w].pos
    BY <1>2, <1>3, <2>1, <2>2, <2>3
  <2> QED
    BY <1>1, <2>2, <2>4 DEF Current
<1> QED
  BY <1>1, <1>3, <1>4, <1>5, <1>6, LevelQuiet

LEMMA LevelCloseFile ==
    ASSUME OnceInv, NEW z \in Zooms, LevelAt(z), NEW w \in Threads, CloseFile(w)
    PROVE  LevelAt(z)'
<1> DEFINE f == thread[w].file
<1>1. /\ TypeOK /\ thread[w].pc = "file" /\ FilesOpen /\ TasksTaken /\ OneReader
      /\ main.phase = "pass" /\ thread[w].pos > Len(files[f])
      /\ UNCHANGED <<need, db, files, sub, skip, main, log, tasks>>
      /\ open' = [open EXCEPT ![f] = main.pass # 1]
  BY DEF OnceInv, UniformInv, WithinPass, CloseFile, Tiling, LevelAt
<1>2. /\ thread \in [Threads -> ThreadType] /\ thread[w].pos \in Nat /\ f \in Files
      /\ open \in [Files -> BOOLEAN]
  <2>1. thread \in [Threads -> ThreadType] /\ thread[w].pos \in Nat
    BY <1>1, MainTypes
  <2> QED
    BY <1>1, <2>1 DEF ThreadType, TypeOK
<1>3. \A v \in Threads :
        /\ thread'[v].skipOut = thread[v].skipOut
        /\ thread'[v].gamma = thread[v].gamma /\ thread'[v].drop = thread[v].drop
        /\ thread'[v].wrote = thread[v].wrote
        /\ thread'[v].still = thread[v].still /\ thread'[v].failed = thread[v].failed
        /\ (thread'[v].pc = "done" <=> thread[v].pc = "done")
  BY <1>1, <1>2 DEF CloseFile, ThreadType
<1>4. \A v \in Threads : IF v = w THEN thread'[v].pc = "take" ELSE thread'[v] = thread[v]
  BY <1>1, <1>2 DEF CloseFile, ThreadType
<1>5. FilesOpen'
  <2>1. Useful(files) \subseteq Files /\ f \notin tasks /\ main.pass # 2 /\ main.pass \in 0 .. 2
    BY <1>1, MainTypes DEF Useful, FilesOpen, OneReader
  <2>2. \A j \in Files : open'[j] = IF j = f THEN main.pass # 1 ELSE open[j]
    BY <1>1, <1>2
  <2>3. main.pass = 1 => \A j \in Useful(files) : open'[j] =>
            j \in tasks \/ \E v \in Threads : Reading(v, j)'
    <3> SUFFICES ASSUME main.pass = 1, NEW j \in Useful(files), open'[j], j \notin tasks
                 PROVE  \E v \in Threads : Reading(v, j)'
      OBVIOUS
    <3>1. j # f /\ open[j]
      BY <2>1, <2>2
    <3>2. PICK v \in Threads : Reading(v, j)
      BY <1>1, <3>1 DEF FilesOpen
    <3>3. v # w
      BY <3>1, <3>2 DEF Reading
    <3> QED
      BY <1>4, <3>2, <3>3 DEF Reading
  <2>4. main.pass = 1 => \A j \in tasks : open'[j]
    BY <1>1, <2>1, <2>2 DEF FilesOpen
  <2>5. main.pass = 0 => \A j \in Useful(files) : open'[j]
    <3> SUFFICES ASSUME main.pass = 0, NEW j \in Useful(files)
                 PROVE  open'[j]
      OBVIOUS
    <3>1. open[j]
      BY <1>1 DEF FilesOpen
    <3>2. main.pass # 1
      OBVIOUS
    <3>3. CASE j = f
      BY <2>1, <2>2, <3>2, <3>3, Zenon
    <3> QED
      BY <2>1, <2>2, <3>1, <3>3
  <2> QED
    BY <1>1, <2>1, <2>3, <2>4, <2>5 DEF FilesOpen, Useful
<1>6. TasksTaken'
  <2>1. Joined' = Joined /\ Joined \subseteq Threads
    BY <1>1, MainTypes DEF Joined
  <2> QED
    BY <1>1, <1>3, <2>1 DEF TasksTaken
<1>7. ASSUME NEW i \in Files, NEW b \in DOMAIN files[i], Behind(i, b)'
      PROVE  Behind(i, b)
  <2> SUFFICES ASSUME NEW v \in Threads, thread[v].pc = "file", thread[v].file = i
               PROVE  b < thread[v].pos
    BY <1>1, <1>7 DEF Behind
  <2>1. CASE v = w
    <3>1. files[i] \in Seq(Data) /\ b \in 1 .. Len(files[i])
      BY <1>1, PlaceInNat
    <3> QED
      BY <1>1, <1>2, <2>1, <3>1
  <2>2. CASE v # w
    BY <1>4, <1>7, <2>2 DEF Behind
  <2> QED
    BY <2>1, <2>2
<1> QED
  BY <1>1, <1>3, <1>5, <1>6, <1>7, LevelQuiet

\* What is rewritten: headers stay, only the tile's children get one, and all of them do if
\* it is to write them.
LEMMA HeadersRewritten ==
    ASSUME TypeOK, NEW w \in Joined, NEW t \in Data, WriteChildren(w, t)
    PROVE  /\ \A c \in Data : HasHeader(sub, c) => HasHeader(sub', c)
           /\ \A c \in Data : HasHeader(sub', c) =>
                HasHeader(sub, c) \/ c \in Children(t, main.threads)
           /\ WritesChildren(t) /\ Wanted(t[1]) =>
                \A c \in Children(t, main.threads) : HasHeader(sub', c)
<1> DEFINE n == main.threads
<1>1. w \in Threads /\ n \in ThreadCounts /\ w \in 0 .. n - 1 /\ sub \in [Files -> Seq(Data)]
  BY MainTypes DEF Joined, TypeOK
<1>2. \A j \in Files : sub'[j] = sub[j] \/ \E c \in Children(t, n) : sub'[j] = Append(sub[j], c)
  BY <1>1, RewriteOneChild
<1>3. \A c \in Children(t, n) : c \in Data
  BY DEF Children
<1>4. ASSUME NEW c \in Data, HasHeader(sub, c)
      PROVE  HasHeader(sub', c)
  <2>1. PICK j \in Files : \E a \in DOMAIN sub[j] : sub[j][a] = c
    BY <1>4 DEF HasHeader
  <2>2. PICK a \in DOMAIN sub[j] : sub[j][a] = c
    BY <2>1
  <2>3. sub[j] \in Seq(Data)
    BY <1>1
  <2>4. a \in DOMAIN sub'[j] /\ sub'[j][a] = c
    <3>1. CASE sub'[j] = sub[j]
      BY <2>2, <3>1
    <3>2. ASSUME NEW d \in Data, sub'[j] = Append(sub[j], d)
          PROVE  a \in DOMAIN sub'[j] /\ sub'[j][a] = c
      BY <2>2, <2>3, <3>2
    <3> QED
      BY <1>2, <1>3, <3>1, <3>2
  <2> QED
    BY <2>4 DEF HasHeader
<1>5. ASSUME NEW c \in Data, HasHeader(sub', c), c \notin Children(t, n)
      PROVE  HasHeader(sub, c)
  <2>1. PICK j \in Files : \E a \in DOMAIN sub'[j] : sub'[j][a] = c
    BY <1>5 DEF HasHeader
  <2>2. PICK a \in DOMAIN sub'[j] : sub'[j][a] = c
    BY <2>1
  <2>3. sub[j] \in Seq(Data)
    BY <1>1
  <2>4. a \in DOMAIN sub[j] /\ sub[j][a] = c
    <3>1. CASE sub'[j] = sub[j]
      BY <2>2, <3>1
    <3>2. ASSUME NEW d \in Data, d # c, sub'[j] = Append(sub[j], d)
          PROVE  a \in DOMAIN sub[j] /\ sub[j][a] = c
      BY <2>2, <2>3, <3>2
    <3> QED
      BY <1>2, <1>3, <1>5, <3>1, <3>2
  <2> QED
    BY <2>4 DEF HasHeader
<1>6. ASSUME WritesChildren(t), Wanted(t[1]), NEW c \in Children(t, n)
      PROVE  HasHeader(sub', c)
  <2> DEFINE j == Shard(w, c, n)
             kids == {d \in Children(t, n) : Shard(w, d, n) = j}
  <2>1. j \in Files
    BY <1>1, ShardsApart
  <2>2. kids = {c}
    <3>1. \A d \in Children(t, n) : Shard(w, d, n) = Shard(w, c, n) => d = c
      BY <1>1, ShardsApart
    <3> QED
      BY <3>1
  <2>3. FirstOf(kids) = c
    <3>1. kids \subseteq Data /\ kids # {}
      BY <1>3, <2>2
    <3>2. FirstOf(kids) \in kids
      BY <3>1, FirstOfIn
    <3> QED
      BY <2>2, <3>2
  <2>4. sub' = Rewrite(w, t, n, main.maxzoom, main.extend)
    BY <1>6 DEF WriteChildren
  <2>5. sub'[j] = Append(sub[j], FirstOf(kids))
    <3>1. NextZoom(t[1], n) <= main.maxzoom \/ AlwaysExtend \/ main.extend > 0
      BY <1>6 DEF Wanted
    <3>2. kids # {}
      BY <2>2
    <3> HIDE DEF j
    <3> QED
      BY <2>1, <2>4, <3>1, <3>2 DEF Rewrite
  <2>6. sub'[j] = Append(sub[j], c)
    BY <2>3, <2>5
  <2> HIDE DEF j
  <2>7. sub[j] \in Seq(Data) /\ c \in Data
    BY <1>1, <1>3, <2>1
  <2>8. Len(sub[j]) + 1 \in DOMAIN sub'[j] /\ sub'[j][Len(sub[j]) + 1] = c
    BY <2>6, <2>7
  <2> QED
    BY <2>1, <2>8 DEF HasHeader
<1> QED
  BY <1>4, <1>5, <1>6

\* The tiles of the zoom in progress are below all finished ones.
LEMMA HeaderAt ==
    ASSUME UniformInv, main.phase = "pass", NEW z \in Zooms, AtLevel(z),
           NEW j \in Files, NEW a \in DOMAIN files[j]
    PROVE  /\ files[j][a] \in Data /\ files[j][a][1] = z /\ ~Finished(z)
           /\ \A r \in db : ~Finished(r.tile[1]) => r.tile[1] = z
<1>1. files[j][a][1] = z
  BY DEF AtLevel
<1> QED
  BY <1>1, NotFinished

\* Tiles that are added to a zoom make no difference to what is covered there or further up.
LEMMA CoveredStays ==
    ASSUME NEW z \in Zooms, log' = log, \A r \in db : r \in db' \/ r.tile[1] = z,
           \A r \in db' : r \in db \/ r.tile[1] = z,
           NEW t \in Data, t[1] <= z, Covered(t)
    PROVE  Covered(t)'
<1>1. PICK k \in Root[1] .. t[1] - 1 :
        /\ AncestorAt(t, k) \in log[k].leaves
        /\ \A i \in k + 1 .. t[1] - 1 : ~Written(AncestorAt(t, i))
  BY DEF Covered
<1>2. ASSUME NEW i \in k + 1 .. t[1] - 1
      PROVE  ~Written(AncestorAt(t, i))'
  <2>1. AncestorAt(t, i)[1] = i /\ i # z
    BY TileParts DEF AncestorAt, Zooms
  <2> QED
    BY <1>1, <1>2, <2>1 DEF Written
<1> QED
  BY <1>1, <1>2 DEF Covered

\* What a leaf's being done without asks of the tiles below, for a tile that is not skipped
\* and for its children.
LEMMA NotBelowLeaf ==
    ASSUME TypeOK, NEW z \in Zooms, AtLevel(z), LeavesKnown(z), DropsBelowLeaves(z), ~Finished(z),
           NEW t \in Data, HasHeader(files, t), t[1] = z, ~Skipped(t)
    PROVE  DroppedBelowLeaves(t)
<1> SUFFICES ASSUME NEW k \in Root[1] .. z - 1, AncestorAt(t, k) \in log[k].leaves
             PROVE  DroppedAt(k + 1)
  BY DEF DroppedBelowLeaves
<1>1. /\ Root[1] \in Nat /\ z \in Nat /\ k \in Nat /\ k < z /\ k \in Zooms /\ main.z \in Nat
      /\ main.drop \in Nat /\ main.z <= z
  BY TileParts, MainTypes, Constants DEF Zooms, AtLevel
<1>2. /\ MinZoom <= k /\ k < main.z /\ (k + 1 = main.z => log[k].leaves = skip)
      /\ \A i \in k .. main.z - 1 : Finished(i)
  BY <1>1 DEF LeavesKnown
<1>3. z = main.z
  <2>1. MinZoom \in Nat
    BY Constants
  <2> QED
    BY <1>1, <1>2, <2>1 DEF AtLevel
<1>4. CASE k + 1 = z
  <2>1. AncestorAt(t, k) = Parent(t)
    <3>1. AncestorAt(t, k) = Parent(AncestorAt(t, k + 1)) /\ AncestorAt(t, t[1]) = t
      BY <1>1, AncestorStep, AncestorSelf
    <3> QED
      BY <1>4, <3>1
  <2>2. main.drop > 0
    BY <1>1, <1>2, <1>3, <1>4, <2>1 DEF Skipped
  <2> QED
    BY <1>4, <2>2 DEF DroppedAt
<1>5. CASE k + 1 # z
  <2>1. k \in Root[1] .. z - 2 /\ k + 1 \in k .. main.z - 1
    BY <1>1, <1>3, <1>5
  <2>2. log[k + 1].drop > 0
    BY <2>1 DEF DropsBelowLeaves
  <2>3. Finished(k + 1)
    BY <1>2, <2>1
  <2> QED
    BY <2>2, <2>3 DEF DroppedAt
<1> QED
  BY <1>4, <1>5

LEMMA ChildNotBelowLeaf ==
    ASSUME TypeOK, NEW z \in Zooms, AtLevel(z), LeavesKnown(z),
           NEW t \in Data, t[1] = z, DroppedBelowLeaves(t),
           NEW c \in Children(t, main.threads)
    PROVE  DroppedBelowLeaves(c)
<1>1. c \in Data /\ AncestorAt(c, z) = t /\ c[1] = NextZoom(z, main.threads)
  BY DEF Children
<1>2. c[1] \in Nat /\ c[1] > z /\ z \in Nat /\ Root[1] \in Nat /\ Root[1] <= z /\ c[1] <= ZoomLimit
      /\ ZoomLimit \in Nat
  BY <1>1, MainTypes, NextZoomDeeper, TileParts, Constants DEF Zooms
<1> SUFFICES ASSUME NEW k \in Root[1] .. c[1] - 1, AncestorAt(c, k) \in log[k].leaves
             PROVE  DroppedAt(k + 1)
  BY DEF DroppedBelowLeaves
<1>3. k \in Zooms /\ k \in Nat
  BY <1>2 DEF Zooms
<1>4. k < main.z /\ main.z <= z /\ main.z \in Nat
  BY <1>3, MainTypes DEF LeavesKnown, AtLevel
<1>5. k \in Root[1] .. z - 1 /\ z \in Root[1] .. c[1] /\ k \in Root[1] .. z
  BY <1>2, <1>3, <1>4
<1>6. AncestorAt(t, k) = AncestorAt(c, k)
  BY <1>1, <1>5, AncestorOfAncestor
<1> QED
  BY <1>5, <1>6 DEF DroppedBelowLeaves

\* A tile is tiled: whether it can be finished or not, its children are written if they have
\* not been yet, and the thread reports what it took.
LEMMA LevelTiled ==
    ASSUME OnceInv, main.phase = "pass", NEW z \in Zooms, LevelAt(z),
           NEW w \in Threads, AtTile(w), ~Skipped(Current(w)), WriteChildren(w, Current(w)),
           NEW th \in ThreadType, thread' = [thread EXCEPT ![w] = th],
           th.pc = "file", th.file = thread[w].file, th.wrote = Current(w)[1],
           \/ th.gamma = thread[w].gamma /\ th.drop = thread[w].drop
           \/ th.still,
           thread[w].still => th.still,
           \/ th.skipOut = thread[w].skipOut
           \/ /\ th.skipOut = thread[w].skipOut \cup {Current(w)}
              /\ main.drop = 0 /\ need[Current(w)] >= 0 /\ \E r \in db' : r.tile = Current(w),
           \/ th.failed
           \/ /\ th.failed = thread[w].failed /\ th.pos = thread[w].pos + 1
              /\ need[Current(w)] >= 0 => \E r \in db' : r.tile = Current(w),
           db \subseteq db', \A r \in db' : r \in db \/ (r.tile = Current(w) /\ need[r.tile] >= 0),
           UNCHANGED <<need, files, open, skip, main, log, tasks>>
    PROVE  LevelAt(z)'
<1> DEFINE f == thread[w].file
           p == thread[w].pos
           t == Current(w)
<1>1. /\ TypeOK /\ UniformInv /\ OneReader /\ DroppingBegins
      /\ AtLevel(z) /\ LeavesKnown(z) /\ ThreadLeaves(z) /\ Reached(z) /\ FilesOpen /\ TasksTaken
      /\ Treated(z) /\ ChildrenThere(z) /\ FirstDropping /\ CompleteSoFar
      /\ DropsBelowLeaves(z) /\ Extending(z) /\ Largest(z) /\ Drawn
  BY DEF OnceInv, UniformInv, WithinPass, LevelAt
<1>2. /\ f \in Files /\ p \in DOMAIN files[f] /\ t = files[f][p] /\ p \in Nat /\ t \in Data
      /\ t[1] = z /\ ~Finished(z) /\ thread[w].pc = "file" /\ HasHeader(files, t)
      /\ \A r \in db : ~Finished(r.tile[1]) => r.tile[1] = z
  <2>1. f \in Files /\ p \in DOMAIN files[f] /\ t = files[f][p] /\ thread[w].pc = "file"
    BY <1>1, CurrentIsTile DEF Current, AtTile, Tiling
  <2>2. /\ files[f][p] \in Data /\ files[f][p][1] = z /\ ~Finished(z)
        /\ \A r \in db : ~Finished(r.tile[1]) => r.tile[1] = z
    BY <1>1, <2>1, HeaderAt
  <2>3. p \in Nat
    BY <1>1, <2>1, PlaceInNat
  <2>4. HasHeader(files, t)
    BY <2>1 DEF HasHeader
  <2> QED
    BY <2>1, <2>2, <2>3, <2>4
<1>3. /\ thread \in [Threads -> ThreadType] /\ Joined \subseteq Threads /\ w \in Joined
      /\ Joined' = Joined /\ main.pass \in 0 .. 2 /\ main.pass # 2 /\ main.drop \in Nat
      /\ main.pass = 0 \/ main.pass = 1
  <2>1. thread \in [Threads -> ThreadType] /\ Joined \subseteq Threads /\ main.pass \in 0 .. 2
        /\ main.drop \in Nat
    BY <1>1, MainTypes
  <2>2. w \in Joined /\ Joined' = Joined
    BY <1>1, <1>2 DEF UniformInv, ThreadsReport, Joined
  <2>3. main.pass # 2
    BY <1>1, <1>2 DEF FilesOpen
  <2> QED
    BY <2>1, <2>2, <2>3
<1>4. \A v \in Threads : thread'[v] = IF v = w THEN th ELSE thread[v]
  BY <1>3
<1> HIDE DEF t, f, p
<1>5. /\ \A c \in Data : HasHeader(sub, c) => HasHeader(sub', c)
      /\ \A c \in Data : HasHeader(sub', c) =>
           HasHeader(sub, c) \/ c \in Children(t, main.threads)
      /\ WritesChildren(t) /\ Wanted(z) => \A c \in Children(t, main.threads) : HasHeader(sub', c)
  BY <1>1, <1>2, <1>3, HeadersRewritten DEF t
<1>6. \A u \in Data : \A c \in Children(u, main.threads) : c \in Data
  BY DEF Children
<1>7. \A r \in db : r.tile \in Data
  BY <1>1, MainTypes
<1>8. \A r \in db' : r \in db \/ (r.tile = t /\ need[t] >= 0)
  BY DEF t
<1>9. \A u \in Data : Written(u) => Written(u)'
  BY DEF Written
<1>10. \A u \in Data : u[1] <= z /\ Covered(u) => Covered(u)'
  BY <1>2, <1>8, CoveredStays
<1>11. AtLevel(z)' /\ LeavesKnown(z)' /\ FirstDropping' /\ Largest(z)'
  BY <1>1 DEF AtLevel, LeavesKnown, FirstDropping, Largest, Finished
<1>12. ThreadLeaves(z)'
  <2> SUFFICES ASSUME NEW v \in Threads, NEW l \in thread'[v].skipOut
               PROVE  main.drop = 0 /\ l[1] = z /\ need[l] >= 0 /\ Written(l)'
    BY DEF ThreadLeaves
  <2>1. CASE l \in thread[v].skipOut
    <3>1. main.drop = 0 /\ l[1] = z /\ need[l] >= 0 /\ Written(l)
      BY <1>1, <2>1 DEF ThreadLeaves
    <3> QED
      BY <3>1 DEF Written
  <2>2. CASE l \notin thread[v].skipOut
    <3>1. l = t /\ main.drop = 0 /\ need[t] >= 0 /\ \E r \in db' : r.tile = t
      BY <1>4, <2>2 DEF t
    <3> QED
      BY <1>2, <3>1 DEF Written
  <2> QED
    BY <2>1, <2>2
<1>13. Reached(z)'
  <2>1. \A u \in Data : HasHeader(files, u) => HasHeader(files, u)'
    BY DEF HasHeader
  <2>2. z \in Nat
    BY DEF Zooms
  <2> QED
    BY <1>1, <1>10, <2>1, <2>2 DEF Reached
<1>14. FilesOpen'
  <2>1. \A j \in Files, v \in Threads : Reading(v, j) => Reading(v, j)'
    BY <1>4 DEF Reading
  <2>2. Useful(files) \subseteq Files
    BY DEF Useful
  <2> QED
    BY <1>1, <1>3, <2>1, <2>2 DEF FilesOpen, Useful
<1>15. TasksTaken'
  BY <1>1, <1>3, <1>4 DEF TasksTaken
<1>16. ~FailedOut' => ~FailedOut /\ ~th.failed
  <2>1. thread[w].failed \in BOOLEAN /\ th.failed \in BOOLEAN
    BY <1>3 DEF ThreadType
  <2> QED
    BY <1>3, <1>4, <2>1 DEF FailedOut
<1>17. ASSUME NEW i \in Files, NEW b \in DOMAIN files[i], Behind(i, b)', ~th.failed
       PROVE  Behind(i, b) \/ (i = f /\ b = p)
  <2> SUFFICES ASSUME ~(i = f /\ b = p), NEW v \in Threads, thread[v].pc = "file", thread[v].file = i
               PROVE  b < thread[v].pos
    BY <1>17 DEF Behind
  <2>1. b < thread'[v].pos
    <3>1. thread'[v].pc = "file" /\ thread'[v].file = i
      BY <1>4 DEF f
    <3> QED
      BY <1>17, <3>1 DEF Behind
  <2>2. CASE v = w
    <3>1. b < p + 1 /\ b # p /\ b \in Nat
      BY <1>1, <1>4, <1>17, <2>1, <2>2, PlaceInNat DEF f, p
    <3> QED
      BY <1>2, <2>2, <3>1 DEF p
  <2>3. CASE v # w
    BY <1>4, <2>1, <2>3
  <2> QED
    BY <2>2, <2>3
<1>18. Treated(z)'
  <2> SUFFICES ASSUME ~FailedOut', NEW i \in Files, NEW b \in DOMAIN files[i],
                      Behind(i, b)', ~Skipped(files[i][b])
               PROVE  /\ need[files[i][b]] >= 0 => Written(files[i][b])'
                      /\ \E v \in Joined : thread'[v].wrote = z
    BY <1>3 DEF Treated, Skipped
  <2>1. th.wrote = z /\ \E v \in Joined : thread'[v].wrote = z
    BY <1>2, <1>3, <1>4 DEF t
  <2>2. files[i][b] \in Data
    BY <1>1, HeaderAt
  <2>3. CASE Behind(i, b)
    <3>1. need[files[i][b]] >= 0 => Written(files[i][b])
      BY <1>1, <1>3, <1>16, <2>3 DEF Treated
    <3> QED
      BY <1>9, <2>1, <2>2, <3>1
  <2>4. CASE i = f /\ b = p
    <3>1. need[t] >= 0 => \E r \in db' : r.tile = t
      BY <1>16 DEF t
    <3> QED
      BY <1>2, <2>1, <2>4, <3>1 DEF Written
  <2> QED
    BY <1>16, <1>17, <2>3, <2>4
<1>19. ChildrenThere(z)'
  <2>1. Wanted(z)' <=> Wanted(z)
    BY DEF Wanted
  <2> SUFFICES ASSUME Wanted(z), ~FailedOut'
               PROVE  /\ \A i \in Files : \A b \in DOMAIN files[i] :
                           Parent(files[i][b]) \notin skip /\ (main.pass > 0 \/ Behind(i, b)') =>
                               ChildrenHave(files[i][b])'
                      /\ \A r \in db' : ~Finished(r.tile[1]) => ChildrenHave(r.tile)'
    BY <2>1 DEF ChildrenThere, Finished
  <2>2. \A u \in Data : ChildrenHave(u) => ChildrenHave(u)'
    BY <1>5, <1>6 DEF ChildrenHave
  <2>3. \A u \in Data : u = t /\ WritesChildren(t) => ChildrenHave(u)'
    BY <1>5 DEF ChildrenHave
  <2>4. ASSUME NEW i \in Files, NEW b \in DOMAIN files[i],
               Parent(files[i][b]) \notin skip, main.pass > 0 \/ Behind(i, b)'
        PROVE  ChildrenHave(files[i][b])'
    <3>1. files[i][b] \in Data
      BY <1>1, HeaderAt
    <3>2. CASE main.pass > 0 \/ Behind(i, b)
      BY <1>1, <1>16, <2>2, <2>4, <3>1, <3>2 DEF ChildrenThere
    <3>3. CASE main.pass = 0 /\ i = f /\ b = p
      BY <1>2, <2>3, <2>4, <3>1, <3>3 DEF WritesChildren
    <3> QED
      BY <1>3, <1>16, <1>17, <2>4, <3>2, <3>3
  <2>5. ASSUME NEW r \in db', ~Finished(r.tile[1])
        PROVE  ChildrenHave(r.tile)'
    <3>1. CASE r \in db
      BY <1>1, <1>7, <1>16, <2>2, <2>5, <3>1 DEF ChildrenThere
    <3>2. CASE r.tile = t /\ Parent(t) \notin skip
      <4>1. ASSUME main.pass > 0 PROVE ChildrenHave(t)
        BY <1>1, <1>2, <1>16, <3>2, <4>1 DEF ChildrenThere
      <4>2. main.pass = 0 => WritesChildren(t)
        BY <3>2 DEF WritesChildren
      <4>3. main.pass = 0 \/ main.pass > 0
        BY <1>3
      <4> QED
        BY <1>2, <2>2, <2>3, <3>2, <4>1, <4>2, <4>3
    <3>3. CASE r.tile = t /\ Parent(t) \in skip
      <4>1. main.drop # 0
        BY <3>3 DEF Skipped, t
      <4>2. main.first
        BY <1>1, <1>3, <4>1 DEF DroppingBegins, FirstDropping
      <4>3. WritesChildren(t)
        BY <3>3, <4>2 DEF WritesChildren
      <4> QED
        BY <1>2, <2>3, <3>3, <4>3
    <3> QED
      BY <1>8, <3>1, <3>2, <3>3
  <2> QED
    BY <2>4, <2>5
<1>20. CompleteSoFar'
  <2> SUFFICES ASSUME NEW k \in Zooms, MinZoom <= k, k < main.z, Complete(k)
               PROVE  Complete(k)'
    BY <1>1 DEF CompleteSoFar
  <2>1. k <= z
    BY <1>1, MainTypes DEF AtLevel, Zooms
  <2> QED
    BY <1>9, <1>10, <2>1 DEF Complete
<1>21. DropsBelowLeaves(z)'
  <2>1. DroppedBelowLeaves(t)
    BY <1>1, <1>2, NotBelowLeaf DEF t
  <2>2. \A c \in Children(t, main.threads) : DroppedBelowLeaves(c)
    BY <1>1, <1>2, <2>1, ChildNotBelowLeaf
  <2>3. \A u : DroppedBelowLeaves(u)' <=> DroppedBelowLeaves(u)
    BY DEF DroppedBelowLeaves, DroppedAt, Finished
  <2>4. \A u : HasHeader(files, u)' <=> HasHeader(files, u)
    BY DEF HasHeader
  <2>5. \A u \in Data : HasHeader(sub, u)' => DroppedBelowLeaves(u)
    BY <1>1, <1>5, <2>2 DEF DropsBelowLeaves, HasHeader
  <2>6. \A r \in db' : DroppedBelowLeaves(r.tile)
    BY <1>1, <1>8, <2>1 DEF DropsBelowLeaves
  <2> QED
    BY <1>1, <2>3, <2>4, <2>5, <2>6 DEF DropsBelowLeaves
<1>22. Extending(z)'
  <2>1. ASSUME NEW v \in Threads, Raising(v)' PROVE thread'[v].still /\ thread'[v].wrote = z
    <3>1. CASE v # w
      BY <1>1, <1>4, <2>1, <3>1 DEF Extending, Raising
    <3>2. CASE v = w
      <4>1. th.wrote = z
        BY <1>2 DEF t
      <4>2. th.still
        <5>1. CASE th.gamma = thread[w].gamma /\ th.drop = thread[w].drop
          <6>1. Raising(w)
            BY <1>4, <2>1, <3>2, <5>1 DEF Raising
          <6> QED
            BY <1>1, <6>1 DEF Extending
        <5> QED
          BY <5>1
      <4> QED
        BY <1>4, <3>2, <4>1, <4>2
    <3> QED
      BY <3>1, <3>2
  <2>2. (main.pass > 0 \/ \E v \in Threads : Raising(v)') =>
          \E i \in Files : \E b \in DOMAIN files[i] : Parent(files[i][b]) \notin skip
    <3>1. CASE main.pass > 0
      BY <1>1, <3>1 DEF Extending
    <3>2. CASE main.pass = 0
      <4>1. Parent(t) \notin skip
        BY <1>1, <3>2 DEF DroppingBegins, Skipped, t
      <4> QED
        BY <1>2, <4>1
    <3> QED
      BY <1>3, <3>1, <3>2
  <2> QED
    BY <1>1, <2>1, <2>2 DEF Extending
<1>23. Drawn'
  BY <1>1, <1>8 DEF Drawn
<1> QED
  BY <1>11, <1>12, <1>13, <1>14, <1>15, <1>18, <1>19, <1>20, <1>21, <1>22, <1>23 DEF LevelAt

\* What else Tiled() reports.
LEMMA TiledRest ==
    ASSUME NEW th \in ThreadType, NEW t \in Data, NEW leaf \in BOOLEAN,
           NEW g \in 0 .. MaxGamma, NEW d \in 0 .. MaxDrop
    PROVE  LET u == Tiled(th, t, g, d, leaf)
           IN  /\ u.pc = th.pc /\ u.file = th.file /\ u.pos = th.pos + 1 /\ u.wrote = t[1]
               /\ u.failed = th.failed
               /\ th.still => u.still
               /\ (u.gamma = th.gamma /\ u.drop = th.drop) \/ u.still
<1> DEFINE u == Tiled(th, t, g, d, leaf)
<1>1. /\ u.pc = th.pc /\ u.file = th.file /\ u.pos = th.pos + 1 /\ u.wrote = t[1]
      /\ u.failed = th.failed
  BY DEF Tiled, ThreadType
<1>2. /\ u.still = (th.still \/ g > th.gamma \/ d > th.drop)
      /\ u.gamma = Most(g, th.gamma) /\ u.drop = Most(d, th.drop)
  BY DEF Tiled, ThreadType
<1>3. th.gamma \in Nat /\ th.drop \in Nat /\ g \in Nat /\ d \in Nat
  BY Constants DEF ThreadType
<1>4. Most(g, th.gamma) = th.gamma \/ g > th.gamma
  BY <1>3 DEF Most
<1>5. Most(d, th.drop) = th.drop \/ d > th.drop
  BY <1>3 DEF Most
<1> QED
  BY <1>1, <1>2, <1>4, <1>5

LEMMA LevelWriteTile ==
    ASSUME OnceInv, NEW z \in Zooms, LevelAt(z), NEW w \in Threads, WriteTile(w),
           main'.phase = "pass"
    PROVE  LevelAt(z)'
<1> DEFINE t == Current(w)
           g == GammaFor(t)
           d == DropFor(t)
           r == [tile |-> t, gamma |-> g, drop |-> d]
<1>1. /\ TypeOK /\ AtTile(w) /\ ~Skipped(t) /\ main.phase = "pass" /\ WriteChildren(w, t)
      /\ UNCHANGED <<need, files, open, skip, tasks, log>>
  BY DEF OnceInv, UniformInv, WriteTile, AtTile, Tiling
<1>2. t \in Data /\ thread[w] \in ThreadType
  BY <1>1, CurrentIsTile DEF TypeOK
<1>3. g \in 0 .. MaxGamma /\ d \in 0 .. MaxDrop
  <2>1. d \in Nat /\ (d = main.drop \/ d <= MaxDrop)
    BY <1>1, <1>2, ThresholdsFor DEF WriteTile
  <2>2. main.drop \in 0 .. MaxDrop
    BY <1>1 DEF TypeOK, MainType
  <2> QED
    BY <1>1, <1>2, <2>1, <2>2, ThresholdsFor, Constants
<1>4. main' = main /\ db' = IF need[t] >= 0 THEN db \cup {r} ELSE db
  <2>1. [main EXCEPT !.phase = "exists"].phase = "exists"
    BY <1>1 DEF TypeOK, MainType
  <2> QED
    BY <2>1 DEF WriteTile
<1>5. PICK leaf \in BOOLEAN :
        /\ leaf => main.drop = 0 /\ need[t] >= 0
        /\ thread' = [thread EXCEPT ![w] = Tiled(@, t, g, d, leaf)]
  BY DEF WriteTile
<1> DEFINE th == Tiled(thread[w], t, g, d, leaf)
<1>6. thread' = [thread EXCEPT ![w] = th]
  BY <1>5
<1> HIDE DEF g, d
<1>7. th \in ThreadType
  BY <1>2, <1>3, TiledType
<1>8. /\ th.pc = thread[w].pc /\ th.file = thread[w].file /\ th.pos = thread[w].pos + 1
      /\ th.wrote = t[1] /\ th.failed = thread[w].failed
      /\ thread[w].still => th.still
      /\ (th.gamma = thread[w].gamma /\ th.drop = thread[w].drop) \/ th.still
  BY <1>2, <1>3, TiledRest
<1>13. th.skipOut = IF leaf THEN thread[w].skipOut \cup {t} ELSE thread[w].skipOut
  BY <1>2 DEF Tiled, ThreadType
<1> HIDE DEF th
<1>9. r.tile = t
  OBVIOUS
<1> HIDE DEF r
<1>10. /\ need[t] >= 0 => \E q \in db' : q.tile = t
       /\ db \subseteq db' /\ \A q \in db' : q \in db \/ (q.tile = t /\ need[q.tile] >= 0)
  BY <1>4, <1>9
<1>11. thread[w].pc = "file"
  BY <1>1 DEF AtTile, Tiling
<1>12. \/ th.skipOut = thread[w].skipOut
       \/ /\ th.skipOut = thread[w].skipOut \cup {t}
          /\ main.drop = 0 /\ need[t] >= 0 /\ \E q \in db' : q.tile = t
  BY <1>5, <1>10, <1>13
<1> QED
  BY <1>1, <1>4, <1>6, <1>7, <1>8, <1>10, <1>11, <1>12, LevelTiled

LEMMA LevelFailTile ==
    ASSUME OnceInv, main.phase = "pass", NEW z \in Zooms, LevelAt(z), NEW w \in Threads,
           FailTile(w)
    PROVE  LevelAt(z)'
<1> DEFINE t == Current(w)
           g == GammaFor(t)
           n == Len(files[thread[w].file]) + 1
           u == Tiled(thread[w], t, g, main.drop, FALSE)
           th == [u EXCEPT !.pos = n, !.failed = TRUE]
<1>1. /\ TypeOK /\ AtTile(w) /\ ~Skipped(t) /\ WriteChildren(w, t)
      /\ UNCHANGED <<need, db, files, open, skip, main, tasks, log>>
      /\ thread' = [thread EXCEPT ![w] = th]
  BY DEF OnceInv, UniformInv, FailTile
<1>2. t \in Data /\ thread[w] \in ThreadType /\ n \in Nat \ {0}
  <2>1. t \in Data /\ thread[w].file \in Files
    BY <1>1, CurrentIsTile
  <2> QED
    BY <1>1, <2>1 DEF TypeOK
<1>3. g \in 0 .. MaxGamma /\ main.drop \in 0 .. MaxDrop
  BY <1>1, <1>2, ThresholdsFor DEF TypeOK, MainType
<1> HIDE DEF g, n
<1>4. u \in ThreadType
  <2>1. FALSE \in BOOLEAN
    OBVIOUS
  <2> QED
    BY <1>2, <1>3, <2>1, TiledType
<1>5. /\ u.pc = thread[w].pc /\ u.file = thread[w].file /\ u.wrote = t[1]
      /\ u.skipOut = thread[w].skipOut
      /\ thread[w].still => u.still
      /\ (u.gamma = thread[w].gamma /\ u.drop = thread[w].drop) \/ u.still
  <2>1. PICK leaf \in BOOLEAN : leaf = FALSE
    OBVIOUS
  <2> DEFINE v == Tiled(thread[w], t, g, main.drop, leaf)
  <2>4. /\ v.pc = thread[w].pc /\ v.file = thread[w].file /\ v.wrote = t[1]
        /\ thread[w].still => v.still
        /\ (v.gamma = thread[w].gamma /\ v.drop = thread[w].drop) \/ v.still
    BY <1>2, <1>3, TiledRest
  <2>5. u = v
    BY <2>1
  <2> HIDE DEF u, v
  <2>2. /\ u.pc = thread[w].pc /\ u.file = thread[w].file /\ u.wrote = t[1]
        /\ thread[w].still => u.still
        /\ (u.gamma = thread[w].gamma /\ u.drop = thread[w].drop) \/ u.still
    BY <2>4, <2>5
  <2>3. u.skipOut = thread[w].skipOut
    BY <1>2 DEF u, Tiled, ThreadType
  <2> QED
    BY <2>2, <2>3
<1> HIDE DEF u
<1>6. /\ th \in ThreadType /\ th.failed
      /\ th.pc = u.pc /\ th.file = u.file /\ th.wrote = u.wrote /\ th.skipOut = u.skipOut
      /\ th.still = u.still /\ th.gamma = u.gamma /\ th.drop = u.drop
  BY <1>2, <1>4 DEF ThreadType
<1> HIDE DEF th
<1>7. thread[w].pc = "file"
  BY <1>1 DEF AtTile, Tiling
<1> QED
  BY <1>1, <1>5, <1>6, <1>7, LevelTiled

\* Everything a thread does keeps what is known of the zoom.
LEMMA LevelThreadStep ==
    ASSUME OnceInv, main.phase = "pass", NEW z \in Zooms, LevelAt(z), NEW w \in Threads,
           ThreadStep(w), main'.phase = "pass"
    PROVE  LevelAt(z)'
<1>1. ~GiveUp(w)
  <2>1. main \in MainType
    BY DEF OnceInv, UniformInv, TypeOK
  <2> QED
    BY <2>1 DEF GiveUp, MainType
<1> QED
  BY <1>1, LevelTakeFile, LevelNoMoreFiles, LevelSkipTile, LevelWriteTile, LevelFailTile,
     LevelCloseFile DEF ThreadStep

-----------------------------------------------------------------------------
(***************************************************************************)
(* The end of a pass, and another one of the same zoom                     *)
(***************************************************************************)

\* What joining the threads makes of the counters.
LEMMA JoiningRest ==
    ASSUME TypeOK, NEW k \in Zooms \cup {-1}
    PROVE  LET j == Joining(k)
           IN  /\ j.largest = Most(main.largest, k) /\ j.failed = FailedOut /\ j.pass = main.pass
               /\ j.maxzoom = IF Extends(k) THEN main.maxzoom + 1 ELSE main.maxzoom
               /\ j.extend > 0 => main.extend > 0
               /\ j.first = main.first
<1>1. main \in MainType /\ main.extend \in Nat
  BY MainTypes DEF TypeOK
<1> DEFINE mz == IF Extends(k) THEN main.maxzoom + 1 ELSE main.maxzoom
           ex == IF Extends(k) /\ main.extend > 0 THEN main.extend - 1 ELSE main.extend
           la == Most(main.largest, k)
<1>2. ex > 0 => main.extend > 0
  BY <1>1
<1>3. Joining(k) = [main EXCEPT !.z = ZoomOut(k), !.largest = la,
                                !.failed = FailedOut, !.maxzoom = mz, !.extend = ex]
  BY DEF Joining
<1> HIDE DEF mz, ex, la
<1>4. LET j == Joining(k)
      IN  /\ j.largest = la /\ j.failed = FailedOut /\ j.pass = main.pass
          /\ j.maxzoom = mz /\ j.extend = ex /\ j.first = main.first
  BY <1>1, <1>3 DEF MainType
<1> QED
  BY <1>2, <1>4 DEF mz, la

\* A tile that is not skipped, or is covered though it has a header, is below a leaf of the
\* zoom before.
LEMMA SkippedCovered ==
    ASSUME TypeOK, NEW z \in Zooms, LeavesKnown(z), NEW t \in Data, t[1] = z, Parent(t) \in skip
    PROVE  /\ MinZoom < z /\ z - 1 \in Root[1] .. z - 1 /\ z - 1 \in Zooms
           /\ AncestorAt(t, z - 1) = Parent(t) /\ Parent(t) \in log[z - 1].leaves
<1>1. skip \subseteq Data /\ Parent(t)[1] = z - 1 /\ z \in Nat
  BY TileParts DEF TypeOK, Parent
<1>2. MinZoom < z /\ Parent(t) \in log[z - 1].leaves
  BY DEF LeavesKnown
<1>3. z - 1 \in Nat /\ Root[1] \in Nat /\ Root[1] <= z - 1 /\ z - 1 <= ZoomLimit
  <2>1. Parent(t) \in Data
    BY <1>1
  <2>2. Parent(t)[1] \in Nat /\ Root[1] \in Nat /\ Root[1] <= Parent(t)[1] /\ Parent(t)[1] <= ZoomLimit
    BY <2>1, TileParts
  <2> QED
    BY <1>1, <2>2
<1>4. AncestorAt(t, z - 1) = Parent(AncestorAt(t, (z - 1) + 1)) /\ (z - 1) + 1 = z
  <2>1. z - 1 < t[1]
    BY <1>1
  <2> QED
    BY <1>1, <1>3, <2>1, AncestorStep
<1>5. AncestorAt(t, z) = t
  BY AncestorSelf
<1>6. z - 1 \in Root[1] .. z - 1 /\ z - 1 \in Zooms
  BY <1>1, <1>3, Constants DEF Zooms
<1> QED
  BY <1>2, <1>4, <1>5, <1>6

\* The end of a pass: every tile has been passed by, and the threads have found the zoom that
\* the files are of, if they have tiled anything.
LEMMA AtEnd ==
    ASSUME OnceInv, NEW z \in Zooms, LevelAt(z), NEW g \in 0 .. MaxGamma, NEW d \in 0 .. MaxDrop,
           NEW k \in Zooms \cup {-1}, Joins(g, d, k)
    PROVE  /\ tasks = {} /\ \A w \in Threads : thread[w].pc = "done"
           /\ \A i \in Files, b \in Nat : Behind(i, b)
           /\ k = -1 \/ k = z
           /\ k = -1 => ZoomOut(k) = main.z
           /\ k = z => ZoomOut(k) = z
           /\ Raised(g, d) => k = z /\ \E w \in Joined : Raising(w) /\ thread[w].still
           /\ d > main.drop => \E w \in Joined : Raising(w) /\ thread[w].still
           /\ main.pass <= 1 /\ ~FailedOut /\ k = -1 =>
                \A i \in Files : \A b \in DOMAIN files[i] : Skipped(files[i][b])
           /\ ~FailedOut /\ k = -1 => main.z = z
<1>1. /\ TypeOK /\ UniformInv /\ main.phase = "pass" /\ ThreadsReport /\ AtLevel(z) /\ TasksTaken
      /\ LeavesKnown(z) /\ Reached(z) /\ Treated(z) /\ Extending(z)
      /\ \A w \in Threads : thread[w].pc = "done"
  BY DEF OnceInv, UniformInv, LevelAt, Joins, AllDone
<1>2. /\ Joined \subseteq Threads /\ 0 \in Joined /\ main.z \in Nat /\ main.gamma \in Nat
      /\ main.drop \in Nat /\ main.pass \in 0 .. 2 /\ z \in Nat
      /\ \A w \in Threads : thread[w].gamma \in Nat /\ thread[w].drop \in Nat
                            /\ thread[w].wrote \in Nat \cup {-1}
  BY <1>1, MainTypes DEF Zooms
<1>3. tasks = {}
  BY <1>1, <1>2 DEF TasksTaken
<1>4. \A i \in Files, b \in Nat : Behind(i, b)
  BY <1>1, <1>3 DEF Behind
<1>5. /\ \A w \in Joined : thread[w].gamma <= g /\ thread[w].drop <= d /\ thread[w].wrote <= k
      /\ g = main.gamma \/ \E w \in Joined : thread[w].gamma = g
      /\ d = main.drop \/ \E w \in Joined : thread[w].drop = d
      /\ \E w \in Joined : thread[w].wrote = k
  BY DEF Joins, IsGreatest
<1>6. k = -1 \/ k = z
  <2>1. PICK w \in Joined : thread[w].wrote = k
    BY <1>5
  <2>2. ASSUME NEW j \in Files, NEW a \in DOMAIN files[j], thread[w].wrote = files[j][a][1]
        PROVE  k = z
    BY <1>1, <2>1, <2>2 DEF AtLevel
  <2> QED
    BY <1>1, <1>2, <2>1, <2>2 DEF ThreadsReport
<1>7. (k = -1 => ZoomOut(k) = main.z) /\ (k = z => ZoomOut(k) = z)
  <2>1. main.z <= z
    BY <1>1 DEF AtLevel
  <2> QED
    BY <1>2, <2>1 DEF ZoomOut, Most
<1>8. (Raised(g, d) \/ d > main.drop) =>
        k = z /\ \E w \in Joined : Raising(w) /\ thread[w].still
  <2> SUFFICES ASSUME Raised(g, d) \/ d > main.drop
               PROVE  k = z /\ \E w \in Joined : Raising(w) /\ thread[w].still
    OBVIOUS
  <2>1. g > main.gamma \/ d > main.drop
    BY DEF Raised
  <2>2. g \in Nat /\ d \in Nat
    BY Constants
  <2>3. PICK w \in Joined : Raising(w)
    <3>1. CASE g > main.gamma
      BY <1>2, <1>5, <2>2, <3>1 DEF Raising
    <3>2. CASE d > main.drop
      BY <1>2, <1>5, <2>2, <3>2 DEF Raising
    <3> QED
      BY <2>1, <3>1, <3>2
  <2>4. thread[w].still /\ thread[w].wrote = z
    BY <1>1, <1>2, <2>3 DEF Extending
  <2>5. z <= k
    BY <1>5, <2>4
  <2> QED
    BY <1>2, <1>6, <2>3, <2>4, <2>5
<1>9. ASSUME main.pass <= 1, ~FailedOut, k = -1, NEW i \in Files, NEW b \in DOMAIN files[i]
      PROVE  Skipped(files[i][b])
  <2>1. b \in Nat
    BY <1>1, PlaceInNat
  <2>2. Behind(i, b)
    BY <1>4, <2>1
  <2>3. ASSUME NEW w \in Joined, thread[w].wrote = z
        PROVE  FALSE
    <3>1. z <= -1
      BY <1>5, <1>9, <2>3
    <3> QED
      BY <1>2, <3>1
  <2> QED
    BY <1>1, <1>9, <2>2, <2>3 DEF Treated
<1>10. ASSUME ~FailedOut, k = -1, main.z # z
       PROVE  FALSE
  <2>1. main.z < z /\ z <= MinZoom /\ main.pass = 0 /\ Root[1] <= z
    BY <1>1, <1>2, <1>10 DEF AtLevel
  <2>2. Root[1] \in Nat /\ ZoomLimit \in Nat /\ MinZoom \in Nat
    BY TileParts, Constants
  <2>3. z \in Root[1] .. ZoomLimit
    BY <2>1, <2>2 DEF Zooms
  <2>4. PICK t \in Data : t[1] = z
    BY <2>3, ZoomsHaveTiles
  <2>5. ~Covered(t)
    <3> SUFFICES ASSUME NEW m \in Root[1] .. z - 1, log[m].leaves # {}
                 PROVE  FALSE
      BY <2>4 DEF Covered
    <3>1. m \in Zooms /\ m \in Nat
      BY <2>2, <2>3 DEF Zooms
    <3>2. MinZoom <= m /\ m < main.z
      BY <1>1, <3>1 DEF LeavesKnown
    <3> QED
      BY <1>2, <2>1, <2>2, <3>1, <3>2
  <2>6. PICK i \in Files : \E b \in DOMAIN files[i] : files[i][b] = t
    BY <1>1, <2>4, <2>5 DEF Reached, HasHeader
  <2>7. PICK b \in DOMAIN files[i] : files[i][b] = t
    BY <2>6
  <2>8. main.pass <= 1
    BY <2>1
  <2>9. Skipped(t)
    BY <1>9, <1>10, <2>7, <2>8
  <2>10. MinZoom < z
    BY <1>1, <2>4, <2>9, SkippedCovered DEF Skipped
  <2> QED
    BY <1>2, <2>1, <2>2, <2>10
<1> QED
  BY <1>1, <1>3, <1>4, <1>6, <1>7, <1>8, <1>9, <1>10

\* When a pass ends, the children of all tiles that are there have headers, and no file is
\* being read.
LEMMA ChildrenAtEnd ==
    ASSUME OnceInv, NEW z \in Zooms, LevelAt(z), ~FailedOut, Wanted(z),
           \A i \in Files, b \in Nat : Behind(i, b)
    PROVE  /\ \A i \in Files : \A b \in DOMAIN files[i] :
                Parent(files[i][b]) \notin skip => ChildrenHave(files[i][b])
           /\ \A r \in db : ~Finished(r.tile[1]) => ChildrenHave(r.tile)
<1>1. TypeOK /\ ChildrenThere(z)
  BY DEF OnceInv, UniformInv, LevelAt
<1>2. \A i \in Files : \A b \in DOMAIN files[i] : Behind(i, b)
  BY <1>1, PlaceInNat
<1> QED
  BY <1>1, <1>2 DEF ChildrenThere

LEMMA LevelNextPass ==
    ASSUME OnceInv, NEW z \in Zooms, LevelAt(z), NextPass
    PROVE  LevelAt(z)'
<1>1. PICK g \in 0 .. MaxGamma, d \in 0 .. MaxDrop, k \in Zooms \cup {-1} : Redo(g, d, k)
  BY DEF NextPass
<1>2. /\ Joins(g, d, k) /\ Raised(g, d) /\ db' = Erased(ZoomOut(k)) /\ tasks' = Useful(files)
      /\ thread' = [w \in Threads |->
           [FreshThread(w < main.threads) EXCEPT !.gamma = g, !.drop = d]]
      /\ UNCHANGED <<need, files, open, sub, skip, log>>
  BY <1>1 DEF Redo
<1>3. /\ TypeOK /\ UniformInv /\ main.phase = "pass" /\ DroppingBegins
      /\ AtLevel(z) /\ LeavesKnown(z) /\ ThreadLeaves(z) /\ Reached(z) /\ FilesOpen /\ TasksTaken
      /\ Treated(z) /\ ChildrenThere(z) /\ FirstDropping /\ CompleteSoFar
      /\ DropsBelowLeaves(z) /\ Extending(z) /\ Largest(z) /\ Drawn
  BY <1>2 DEF OnceInv, UniformInv, WithinPass, LevelAt, Joins, AllDone
<1>4. /\ tasks = {} /\ \A w \in Threads : thread[w].pc = "done"
      /\ \A i \in Files, b \in Nat : Behind(i, b)
      /\ k = z /\ ZoomOut(k) = z
      /\ \E w \in Joined : Raising(w) /\ thread[w].still
      /\ d > main.drop => \E w \in Joined : Raising(w) /\ thread[w].still
  BY <1>2, AtEnd
<1>5. /\ main.pass \in 0 .. 2 /\ main.drop \in Nat /\ main.gamma \in Nat /\ main.z \in Nat
      /\ z \in Nat /\ main.maxzoom \in Nat /\ main.largest \in Nat \cup {-1}
      /\ main.threads \in Nat \ {0} /\ d \in Nat /\ g \in Nat /\ d >= main.drop
      /\ Joined \subseteq Threads /\ main.first \in BOOLEAN
  <2>1. d >= main.drop
    BY <1>2 DEF Joins, IsGreatest
  <2>2. d \in Nat /\ g \in Nat
    BY Constants
  <2> QED
    BY <1>3, <2>1, <2>2, MainTypes DEF Zooms
<1>6. LET j == Joining(k)
      IN  /\ j.largest = Most(main.largest, k) /\ j.failed = FailedOut /\ j.pass = main.pass
          /\ j.maxzoom = IF Extends(k) THEN main.maxzoom + 1 ELSE main.maxzoom
          /\ j.extend > 0 => main.extend > 0
          /\ j.z = z /\ j.threads = main.threads /\ j \in MainType
  <2>1. TypeOK /\ ZoomOut(k) = z
    BY <1>3, <1>4
  <2> QED
    BY <2>1, JoiningRest, JoiningType
<1>7. /\ main'.z = z /\ main'.largest = z /\ main'.failed = FailedOut
      /\ main'.maxzoom = IF Extends(k) THEN main.maxzoom + 1 ELSE main.maxzoom
      /\ main'.extend > 0 => main.extend > 0
      /\ main'.pass = Least(main.pass + 1, 2) /\ main'.gamma = g /\ main'.drop = d
      /\ main'.first = (d > 0 /\ main.drop = 0) /\ main'.threads = main.threads
  <2> DEFINE J == Joining(k)
             pass == Least(main.pass + 1, 2)
             first == d > 0 /\ main.drop = 0
  <2>1. main' = [J EXCEPT !.pass = pass, !.gamma = g, !.drop = d, !.first = first]
    BY <1>1 DEF Redo
  <2>2. J \in MainType
    BY <1>6
  <2>3. Most(main.largest, k) = z
    <3>1. main.largest <= z
      BY <1>3 DEF Largest
    <3> QED
      BY <1>4, <1>5, <3>1 DEF Most
  <2>4. J.largest = z /\ J.failed = FailedOut /\ J.z = z /\ J.threads = main.threads
        /\ J.maxzoom = (IF Extends(k) THEN main.maxzoom + 1 ELSE main.maxzoom)
        /\ (J.extend > 0 => main.extend > 0)
    BY <1>6, <2>3
  <2> HIDE DEF J, pass, first
  <2>5. /\ main'.z = J.z /\ main'.largest = J.largest /\ main'.failed = J.failed
        /\ main'.maxzoom = J.maxzoom /\ main'.extend = J.extend
        /\ main'.pass = pass /\ main'.gamma = g /\ main'.drop = d
        /\ main'.first = first /\ main'.threads = J.threads
    BY <2>1, <2>2 DEF MainType
  <2> QED
    BY <2>4, <2>5 DEF pass, first
<1>8. /\ main'.pass \in 1 .. 2 /\ (main'.pass = 1 => main.pass = 0)
      /\ Joined' = Joined /\ (FailedOut => FailedOut')
  <2>1. main'.pass \in 1 .. 2 /\ (main'.pass = 1 => main.pass = 0)
    BY <1>5, <1>7 DEF Least
  <2>2. Joined' = Joined
    BY <1>7 DEF Joined
  <2>3. \A w \in Threads : ~thread'[w].failed
    BY <1>2 DEF FreshThread
  <2> QED
    BY <1>5, <1>7, <2>1, <2>2, <2>3 DEF FailedOut
<1>9. \A w \in Threads : /\ thread'[w].pc = IF w < main.threads THEN "take" ELSE "done"
                         /\ thread'[w].gamma = g /\ thread'[w].drop = d
                         /\ thread'[w].skipOut = {}
  BY <1>2 DEF FreshThread
<1>10. /\ \A r \in db : r \in db' \/ r.tile[1] = z
       /\ db' \subseteq db /\ \A r \in db' : r.tile[1] # z
  BY <1>2, <1>4 DEF Erased
<1>11. \A r \in db' : Finished(r.tile[1])
  <2>1. \A r \in db : ~Finished(r.tile[1]) => r.tile[1] = z
    BY <1>2, <1>3, <1>4, JoinsAll
  <2> QED
    BY <1>10, <2>1
<1>12. \A i \in Files : \A b \in DOMAIN files[i] : ~Behind(i, b)'
  <2> SUFFICES ASSUME NEW i \in Files, NEW b \in DOMAIN files[i]
               PROVE  i \in Useful(files)
    BY <1>2 DEF Behind
  <2>1. files[i] \in Seq(Data)
    BY <1>3 DEF TypeOK
  <2> QED
    BY <2>1 DEF Useful
<1>13. AtLevel(z)'
  <2>1. /\ Root[1] <= z /\ main.z <= z /\ z <= main.maxzoom
        /\ MaxZoom <= main.maxzoom /\ main.maxzoom <= ZoomLimit
        /\ \A j \in Files : \A a \in DOMAIN files[j] : files[j][a][1] = z
    BY <1>3 DEF AtLevel
  <2>2. MaxZoom \in Nat /\ ZoomLimit \in Nat
    BY Constants
  <2>3. /\ main'.maxzoom >= main.maxzoom /\ main'.maxzoom <= ZoomLimit /\ main'.maxzoom \in Nat
    BY <1>5, <1>7, <2>1, <2>2 DEF Extends
  <2>4. z <= main'.maxzoom /\ MaxZoom <= main'.maxzoom
    BY <1>5, <2>1, <2>2, <2>3
  <2>5. main'.z = z /\ ~(z < z) /\ z <= z
    BY <1>5, <1>7
  <2>6. files' = files
    BY <1>2
  <2> QED
    BY <2>1, <2>3, <2>4, <2>5, <2>6 DEF AtLevel
<1>14. LeavesKnown(z)'
  <2>1. ASSUME NEW m \in Zooms, log[m].leaves # {}
        PROVE  /\ MinZoom <= m /\ m < z /\ log[m].drop = 0 /\ main.z = z
               /\ m + 1 = z => log[m].leaves = skip
               /\ \A i \in m .. z - 1 : Finished(i)
    <3>1. /\ MinZoom <= m /\ m < main.z /\ log[m].drop = 0
          /\ m + 1 = main.z => log[m].leaves = skip
          /\ \A i \in m .. main.z - 1 : Finished(i)
      BY <1>3, <2>1 DEF LeavesKnown
    <3>2. main.z <= z /\ (main.z < z => z <= MinZoom)
      BY <1>3 DEF AtLevel
    <3>3. MinZoom \in Nat /\ m \in Nat
      BY Constants DEF Zooms
    <3>4. main.z = z
      BY <1>5, <3>1, <3>2, <3>3
    <3> QED
      BY <3>1, <3>4
  <2> QED
    BY <1>2, <1>3, <1>7, <2>1 DEF LeavesKnown, Finished
<1>15. ThreadLeaves(z)'
  BY <1>9 DEF ThreadLeaves
<1>16. Reached(z)'
  <2>1. \A u \in Data : u[1] = z /\ Covered(u) => Covered(u)'
    <3> SUFFICES ASSUME NEW u \in Data, u[1] = z, Covered(u) PROVE Covered(u)'
      OBVIOUS
    <3>1. u[1] <= z
      BY <1>5
    <3>2. \A r \in db' : r \in db \/ r.tile[1] = z
      BY <1>10
    <3> QED
      BY <1>2, <1>10, <3>1, <3>2, CoveredStays
  <2> QED
    BY <1>2, <1>3, <2>1 DEF Reached, HasHeader
<1>17. FilesOpen'
  <2>1. Useful(files)' = Useful(files) /\ Useful(files) \subseteq Files
    BY <1>2 DEF Useful
  <2>2. main'.pass = 1 => \A j \in Useful(files) : open[j]
    BY <1>3, <1>8 DEF FilesOpen
  <2>3. main'.pass = 2 /\ main.pass # 0 => \A j \in Useful(files) : ~open[j]
    BY <1>3, <1>4, <1>5 DEF FilesOpen, Reading
  <2>4. main'.pass = 2 => main.pass # 0
    BY <1>5, <1>7 DEF Least
  <2>5. \A w \in Threads : thread'[w].pc # "file"
    BY <1>9
  <2>6. \A r \in db' : Finished(r.tile[1])'
    BY <1>2, <1>11 DEF Finished
  <2>7. main'.pass # 0
    BY <1>8
  <2> QED
    BY <1>2, <2>1, <2>2, <2>3, <2>4, <2>5, <2>6, <2>7 DEF FilesOpen
<1>18. TasksTaken'
  <2>1. \A w \in Joined : w < main.threads
    BY <1>5 DEF Joined
  <2> QED
    BY <1>5, <1>8, <1>9, <2>1 DEF TasksTaken
<1>19. Treated(z)'
  BY <1>2, <1>12 DEF Treated
<1>20. ChildrenThere(z)'
  <2>1. ASSUME Wanted(z)' PROVE Wanted(z)
    <3>1. CASE Extends(k)
      BY <3>1 DEF Extends, Wanted
    <3>2. CASE ~Extends(k)
      <4>1. main'.maxzoom = main.maxzoom
        BY <1>7, <3>2
      <4> QED
        BY <1>7, <2>1, <4>1 DEF Wanted
    <3> QED
      BY <3>1, <3>2
  <2> SUFFICES ASSUME Wanted(z), ~FailedOut
               PROVE  \A i \in Files : \A b \in DOMAIN files[i] :
                        Parent(files[i][b]) \notin skip => ChildrenHave(files[i][b])'
    BY <1>2, <1>8, <1>11, <2>1 DEF ChildrenThere, Finished
  <2>2. \A u \in Data : ChildrenHave(u) => ChildrenHave(u)'
    BY <1>2, <1>7 DEF ChildrenHave, HasHeader
  <2>3. \A i \in Files : \A b \in DOMAIN files[i] : files[i][b] \in Data
    BY <1>3, HeaderAt
  <2> QED
    BY <1>2, <1>4, <2>2, <2>3, ChildrenAtEnd
<1>21. FirstDropping'
  BY <1>3, <1>5, <1>7, <1>8 DEF FirstDropping, DroppingBegins
<1>22. CompleteSoFar'
  <2> SUFFICES ASSUME NEW m \in Zooms, MinZoom <= m, m < z, ~(log[m].passes > 2)
               PROVE  Complete(m)'
    BY <1>2, <1>7 DEF CompleteSoFar
  <2>1. main.z <= z /\ (main.z < z => z <= MinZoom) /\ MinZoom \in Nat /\ m \in Nat
    BY <1>3, Constants DEF AtLevel, Zooms
  <2>2. m < main.z
    BY <1>5, <2>1
  <2>3. Complete(m)
    BY <1>3, <2>2 DEF CompleteSoFar
  <2> SUFFICES ASSUME NEW u \in Data, u[1] = m, need[u] >= 0
               PROVE  Written(u)' \/ Covered(u)'
    BY <1>2 DEF Complete
  <2>4. CASE Written(u)
    BY <1>10, <2>1, <2>4 DEF Written
  <2>5. CASE Covered(u)
    <3>1. u[1] <= z /\ \A r \in db' : r \in db \/ r.tile[1] = z
      BY <1>5, <1>10, <2>1
    <3> QED
      BY <1>2, <1>10, <2>5, <3>1, CoveredStays
  <2> QED
    BY <2>3, <2>4, <2>5 DEF Complete
<1>23. DropsBelowLeaves(z)'
  <2>1. \A i : DroppedAt(i) => DroppedAt(i)'
    <3>1. main'.drop = d /\ log' = log /\ (main.drop > 0 => d > 0)
      <4>1. main.drop \in Nat /\ d \in Nat /\ d >= main.drop
        BY <1>5
      <4>2. main.drop > 0 => d > 0
        BY <4>1
      <4> QED
        BY <1>2, <1>7, <4>2
    <3> QED
      BY <3>1 DEF DroppedAt, Finished
  <2>2. \A u \in Data : DroppedBelowLeaves(u) => DroppedBelowLeaves(u)'
    BY <1>2, <2>1 DEF DroppedBelowLeaves
  <2>3. \A r \in db : r.tile \in Data
    BY <1>3, MainTypes
  <2>4. \A u \in Data : /\ HasHeader(files, u)' <=> HasHeader(files, u)
                        /\ HasHeader(sub, u)' <=> HasHeader(sub, u)
    BY <1>2 DEF HasHeader
  <2> QED
    BY <1>2, <1>3, <1>10, <2>2, <2>3, <2>4 DEF DropsBelowLeaves
<1>24. Extending(z)'
  <2>1. ASSUME AlwaysExtend, main'.drop > 0
        PROVE  z < main'.maxzoom \/ main'.maxzoom = ZoomLimit
    <3>1. z <= main.maxzoom /\ main.maxzoom <= ZoomLimit /\ ZoomLimit \in Nat
      BY <1>3, Constants DEF AtLevel
    <3>2. CASE z < main.maxzoom
      BY <1>5, <1>7, <3>2
    <3>3. CASE main.maxzoom = ZoomLimit
      BY <1>5, <1>7, <3>3 DEF Extends
    <3>4. CASE z = main.maxzoom /\ main.maxzoom < ZoomLimit
      <4>1. d > main.drop
        BY <1>3, <1>5, <1>7, <2>1, <3>4 DEF Extending
      <4>2. Extends(k)
        BY <1>4, <2>1, <3>4, <4>1 DEF Extends
      <4> QED
        BY <1>5, <1>7, <3>4, <4>2
    <3> QED
      BY <1>5, <3>1, <3>2, <3>3, <3>4
  <2>2. \A w \in Threads : ~Raising(w)'
    BY <1>5, <1>7, <1>9 DEF Raising
  <2>3. \E i \in Files : \E b \in DOMAIN files[i] : Parent(files[i][b]) \notin skip
    BY <1>3, <1>4, <1>5 DEF Extending
  <2> QED
    BY <1>2, <2>1, <2>2, <2>3 DEF Extending
<1>25. Largest(z)'
  BY <1>5, <1>7 DEF Largest
<1>26. Drawn'
  BY <1>2, <1>3, <1>10 DEF Drawn
<1> QED
  BY <1>13, <1>14, <1>15, <1>16, <1>17, <1>18, <1>19, <1>20, <1>21, <1>22, <1>23, <1>24, <1>25,
     <1>26 DEF LevelAt

-----------------------------------------------------------------------------
(***************************************************************************)
(* The end of a zoom, and the next one                                     *)
(***************************************************************************)

\* Every tile has descendants at all zooms below it.
LEMMA DescendantAt ==
    ASSUME NEW t \in Data, NEW k \in t[1] .. ZoomLimit
    PROVE  \E c \in Data : c[1] = k /\ AncestorAt(c, t[1]) = t
<1> DEFINE S == {m \in Nat : /\ m <= ZoomLimit - t[1]
                             /\ ~\E c \in Data : c[1] = t[1] + m /\ AncestorAt(c, t[1]) = t}
<1>1. t[1] \in Nat /\ Root[1] \in Nat /\ Root[1] <= t[1] /\ ZoomLimit \in Nat
  BY TileParts, Constants
<1>2. S = {}
  <2>1. SUFFICES ASSUME S # {} PROVE FALSE
    OBVIOUS
  <2>2. S \subseteq Nat
    OBVIOUS
  <2>3. PICK m \in S : \A i \in S : m <= i
    BY <2>1, <2>2, LeastNumber
  <2>4. /\ m \in Nat /\ m <= ZoomLimit - t[1]
        /\ ~\E c \in Data : c[1] = t[1] + m /\ AncestorAt(c, t[1]) = t
    OBVIOUS
  <2>5. m # 0
    <3>1. m = 0 => t[1] = t[1] + m /\ AncestorAt(t, t[1]) = t
      BY <1>1, AncestorSelf
    <3> QED
      BY <2>4, <3>1
  <2>6. m - 1 \in Nat /\ m - 1 <= ZoomLimit - t[1] /\ ~(m <= m - 1) /\ t[1] + (m - 1) < ZoomLimit
    BY <1>1, <2>4, <2>5
  <2>7. m - 1 \notin S
    BY <2>3, <2>6
  <2>8. PICK c \in Data : c[1] = t[1] + (m - 1) /\ AncestorAt(c, t[1]) = t
    BY <2>6, <2>7
  <2>9. c[1] < ZoomLimit /\ c[1] \in Nat
    BY <1>1, <2>4, <2>6, <2>8
  <2>10. PICK e \in Data : Parent(e) = c
    BY <2>9, DataAssumption DEF DataAssumption
  <2>11. e[1] - 1 = c[1] /\ e[1] \in Nat
    BY <2>10, TileParts DEF Parent
  <2>12. e[1] = t[1] + m /\ c[1] < e[1] /\ c[1] + 1 = e[1] /\ c[1] \in Root[1] .. e[1]
         /\ t[1] \in Root[1] .. c[1]
    BY <1>1, <2>4, <2>6, <2>8, <2>9, <2>11
  <2>13. AncestorAt(e, c[1]) = c
    <3>1. AncestorAt(e, c[1]) = Parent(AncestorAt(e, c[1] + 1))
      BY <2>9, <2>12, AncestorStep
    <3>2. AncestorAt(e, e[1]) = e
      BY AncestorSelf
    <3> QED
      BY <2>10, <2>12, <3>1, <3>2
  <2>14. AncestorAt(e, t[1]) = t
    BY <2>8, <2>12, <2>13, AncestorOfAncestor
  <2> QED
    BY <2>4, <2>12, <2>14
<1>3. k - t[1] \in Nat /\ k - t[1] <= ZoomLimit - t[1] /\ t[1] + (k - t[1]) = k
  BY <1>1
<1>4. k - t[1] \notin S
  BY <1>2
<1> HIDE DEF S
<1>5. \E c \in Data : c[1] = t[1] + (k - t[1]) /\ AncestorAt(c, t[1]) = t
  BY <1>3, <1>4 DEF S
<1> QED
  BY <1>3, <1>5

\* What a zoom has at its end, after passes in which nothing failed.
Finishing(g, d, k) ==
    /\ Joins(g, d, k) /\ ~Raised(g, d) /\ ~FailedOut
    /\ log' = FinishedLog(k) /\ db' = db /\ need' = need

LEMMA FinishLog ==
    ASSUME OnceInv, need \in Needs, NEW z \in Zooms, LevelAt(z), NEW g \in 0 .. MaxGamma,
           NEW d \in 0 .. MaxDrop, NEW k \in Zooms \cup {-1}, Finishing(g, d, k)
    PROVE  /\ ZoomOut(k) = z
           /\ log'[z].passes = main.pass + 1 /\ log'[z].drop = main.drop
           /\ log'[z].leaves = SkipOut
           /\ \A i \in Zooms : i # z => log'[i] = log[i]
           /\ ~Finished(z) /\ Finished(z)' /\ \A r \in db : ~Finished(r.tile[1]) => r.tile[1] = z
           /\ \A l \in SkipOut : /\ l \in Data /\ l[1] = z /\ MinZoom <= z /\ main.drop = 0
           /\ \A m \in Zooms : log[m].leaves # {} =>
                /\ MinZoom <= m /\ m < z /\ main.z = z /\ log[m].drop = 0
                /\ \A i \in m .. z - 1 : Finished(i) /\ Finished(i)'
           /\ \A r \in db : r.tile[1] <= z
<1>1. /\ TypeOK /\ UniformInv /\ AtLevel(z) /\ LeavesKnown(z) /\ ThreadLeaves(z)
      /\ Joins(g, d, k) /\ log' = FinishedLog(k) /\ ~FailedOut /\ main.phase = "pass"
      /\ ZoomsInOrder
  BY DEF OnceInv, UniformInv, LevelAt, Finishing, Joins, AllDone
<1>2. ZoomOut(k) = z /\ (k = -1 => main.z = z)
  BY <1>1, AtEnd
<1>3. log \in [Zooms -> LogType] /\ main.pass \in 0 .. 2 /\ main.z \in Nat /\ z \in Nat
      /\ main.z <= z /\ (main.z < z => z <= MinZoom) /\ MinZoom \in Nat
  BY <1>1, MainTypes, Constants DEF TypeOK, AtLevel, Zooms
<1> DEFINE e == [passes |-> main.pass + 1, gamma |-> main.gamma, drop |-> main.drop,
                 leaves |-> SkipOut]
<1>4. log' = [log EXCEPT ![z] = e]
  BY <1>1, <1>2 DEF FinishedLog
<1>5. e.passes = main.pass + 1 /\ e.drop = main.drop /\ e.leaves = SkipOut
  OBVIOUS
<1> HIDE DEF e
<1>6. log'[z] = e /\ \A i \in Zooms : i # z => log'[i] = log[i]
  BY <1>3, <1>4
<1>7. ~Finished(z) /\ \A r \in db : ~Finished(r.tile[1]) => r.tile[1] = z
  BY <1>1, <1>2, JoinsAll
<1>8. Finished(z)'
  BY <1>3, <1>5, <1>6 DEF Finished
<1>9. ASSUME NEW l \in SkipOut
      PROVE  l \in Data /\ l[1] = z /\ MinZoom <= z /\ main.drop = 0
  <2>1. l \in Data /\ \E w \in Threads : l \in thread[w].skipOut
    BY <1>1, SkipOutType DEF SkipOut
  <2>2. main.drop = 0 /\ l[1] = z /\ need[l] >= 0
    BY <1>1, <2>1 DEF ThreadLeaves
  <2>3. MinZoom <= z
    <3>1. l[1] < MinZoom => need[l] = -1
      BY <2>1, StrategyAssumption DEF StrategyAssumption
    <3> QED
      BY <1>3, <2>2, <3>1
  <2> QED
    BY <2>1, <2>2, <2>3
<1>10. ASSUME NEW m \in Zooms, log[m].leaves # {}
       PROVE  /\ MinZoom <= m /\ m < z /\ main.z = z /\ log[m].drop = 0
              /\ \A i \in m .. z - 1 : Finished(i) /\ Finished(i)'
  <2>1. /\ MinZoom <= m /\ m < main.z /\ log[m].drop = 0
        /\ \A i \in m .. main.z - 1 : Finished(i)
    BY <1>1, <1>10 DEF LeavesKnown
  <2>2. m \in Nat
    BY DEF Zooms
  <2>3. main.z = z
    BY <1>3, <2>1, <2>2
  <2>4. ASSUME NEW i \in m .. z - 1 PROVE Finished(i) /\ Finished(i)'
    <3>1. Finished(i) /\ i \in Zooms /\ i # z
      BY <1>3, <2>1, <2>2, <2>3, Constants DEF Zooms
    <3> QED
      BY <1>6, <3>1 DEF Finished
  <2> QED
    BY <2>1, <2>3, <2>4
<1>11. ASSUME NEW r \in db PROVE r.tile[1] <= z
  <2>1. r.tile[1] \in Zooms /\ r.tile[1] \in Nat
    BY <1>1, MainTypes, TileParts
  <2>2. CASE Finished(r.tile[1])
    BY <1>1, <1>3, <2>1, <2>2 DEF ZoomsInOrder
  <2>3. CASE ~Finished(r.tile[1])
    BY <1>3, <1>7, <2>3
  <2> QED
    BY <2>2, <2>3
<1> QED
  BY <1>2, <1>5, <1>6, <1>7, <1>8, <1>9, <1>10, <1>11

\* What covers a tile of this zoom or one before still does.
LEMMA FinishCovered ==
    ASSUME OnceInv, need \in Needs, NEW z \in Zooms, LevelAt(z), NEW g \in 0 .. MaxGamma,
           NEW d \in 0 .. MaxDrop, NEW k \in Zooms \cup {-1}, Finishing(g, d, k),
           NEW t \in Data, t[1] <= z, Covered(t)
    PROVE  Covered(t)'
<1>1. PICK m \in Root[1] .. t[1] - 1 :
        /\ AncestorAt(t, m) \in log[m].leaves
        /\ \A i \in m + 1 .. t[1] - 1 : ~Written(AncestorAt(t, i))
  BY DEF Covered
<1>2. m \in Zooms /\ m # z
  BY TileParts, Constants DEF Zooms
<1>3. log'[m] = log[m]
  BY <1>2, FinishLog
<1>4. db' = db
  BY DEF Finishing
<1> QED
  BY <1>1, <1>3, <1>4 DEF Covered, Written

\* In the first two passes, no tile is missing.
LEMMA FinishTreated ==
    ASSUME OnceInv, NEW z \in Zooms, LevelAt(z), NEW g \in 0 .. MaxGamma,
           NEW d \in 0 .. MaxDrop, NEW k \in Zooms \cup {-1}, Finishing(g, d, k),
           main.pass <= 1, NEW t \in Data, t[1] = z, need[t] >= 0
    PROVE  Written(t) \/ Covered(t)
<1>1. /\ TypeOK /\ UniformInv /\ AtLevel(z) /\ LeavesKnown(z) /\ Reached(z) /\ Treated(z)
      /\ Joins(g, d, k) /\ ~FailedOut /\ main.phase = "pass"
  BY DEF OnceInv, UniformInv, LevelAt, Finishing, Joins, AllDone
<1>2. CASE HasHeader(files, t)
  <2>1. PICK i \in Files : \E b \in DOMAIN files[i] : files[i][b] = t
    BY <1>2 DEF HasHeader
  <2>2. PICK b \in DOMAIN files[i] : files[i][b] = t
    BY <2>1
  <2>3. Behind(i, b)
    <3>1. b \in Nat
      BY <1>1, PlaceInNat
    <3> QED
      BY <1>1, <3>1, AtEnd
  <2>4. Skipped(t) \/ Written(t)
    BY <1>1, <2>2, <2>3 DEF Treated
  <2>5. CASE Skipped(t)
    <3>1. /\ z - 1 \in Root[1] .. z - 1 /\ AncestorAt(t, z - 1) = Parent(t)
          /\ Parent(t) \in log[z - 1].leaves
      BY <1>1, <2>5, SkippedCovered DEF Skipped
    <3>2. \A n \in (z - 1) + 1 .. t[1] - 1 : FALSE
      BY DEF Zooms
    <3> QED
      BY <3>1, <3>2 DEF Covered
  <2> QED
    BY <2>4, <2>5
<1> QED
  BY <1>1, <1>2 DEF Reached

\* No tile is missing from a zoom that is finished in one or two passes.
LEMMA FinishComplete ==
    ASSUME OnceInv, need \in Needs, NEW z \in Zooms, LevelAt(z), NEW g \in 0 .. MaxGamma,
           NEW d \in 0 .. MaxDrop, NEW k \in Zooms \cup {-1}, Finishing(g, d, k),
           NEW m \in Zooms, MinZoom <= m, m <= z
    PROVE  Complete(m)' \/ log'[m].passes > 2
<1>1. TypeOK /\ AtLevel(z) /\ CompleteSoFar /\ db' = db /\ need' = need
  BY DEF OnceInv, UniformInv, LevelAt, Finishing
<1>2. /\ log'[z].passes = main.pass + 1 /\ \A i \in Zooms : i # z => log'[i] = log[i]
  BY FinishLog
<1>3. main.pass \in 0 .. 2 /\ main.z \in Nat /\ z \in Nat /\ m \in Nat
      /\ main.z <= z /\ (main.z < z => z <= MinZoom) /\ MinZoom \in Nat
  BY <1>1, MainTypes, Constants DEF AtLevel, Zooms
<1>4. ASSUME NEW t \in Data, t[1] <= z, Written(t) \/ Covered(t)
      PROVE  Written(t)' \/ Covered(t)'
  <2>1. CASE Written(t)
    BY <1>1, <2>1 DEF Written
  <2>2. CASE Covered(t)
    BY <1>4, <2>2, FinishCovered
  <2> QED
    BY <1>4, <2>1, <2>2
<1>5. CASE m # z
  <2>1. m < main.z
    BY <1>3, <1>5
  <2>2. Complete(m) \/ log[m].passes > 2
    BY <1>1, <2>1 DEF CompleteSoFar
  <2>3. CASE log[m].passes > 2
    BY <1>2, <1>5, <2>3
  <2>4. CASE Complete(m)
    <3> SUFFICES ASSUME NEW t \in Data, t[1] = m, need[t] >= 0
                 PROVE  Written(t)' \/ Covered(t)'
      BY <1>1 DEF Complete
    <3> QED
      BY <1>4, <2>4 DEF Complete
  <2> QED
    BY <2>2, <2>3, <2>4
<1>6. CASE m = z /\ main.pass = 2
  BY <1>2, <1>6
<1>7. CASE m = z /\ main.pass <= 1
  <2> SUFFICES ASSUME NEW t \in Data, t[1] = z, need[t] >= 0
               PROVE  Written(t) \/ Covered(t)
    BY <1>1, <1>3, <1>4, <1>7 DEF Complete
  <2> QED
    BY <1>7, FinishTreated
<1> QED
  BY <1>3, <1>5, <1>6, <1>7

\* The tiles below a leaf are those of zooms after one that drops features.
LEMMA FinishLeaves ==
    ASSUME OnceInv, need \in Needs, NEW z \in Zooms, LevelAt(z), NEW g \in 0 .. MaxGamma,
           NEW d \in 0 .. MaxDrop, NEW k \in Zooms \cup {-1}, Finishing(g, d, k)
    PROVE  /\ \A m \in Zooms : log'[m].leaves # {} => log'[m].drop = 0
           /\ \A t \in Data : DroppedBelowLeaves(t) =>
                \A m \in Root[1] .. t[1] - 1 : AncestorAt(t, m) \in log'[m].leaves /\ m < z =>
                    Finished(m + 1)' /\ log'[m + 1].drop > 0
           /\ \A r \in db : \A m \in Root[1] .. r.tile[1] - 1 :
                AncestorAt(r.tile, m) \in log'[m].leaves =>
                    Finished(m + 1)' /\ log'[m + 1].drop > 0
<1>1. TypeOK /\ LeavesKnown(z) /\ DropsBelowLeaves(z)
  BY DEF OnceInv, UniformInv, LevelAt
<1>2. /\ log'[z].drop = main.drop /\ log'[z].leaves = SkipOut
      /\ \A i \in Zooms : i # z => log'[i] = log[i]
      /\ ~Finished(z) /\ Finished(z)'
      /\ \A l \in SkipOut : main.drop = 0
      /\ \A m \in Zooms : log[m].leaves # {} =>
           /\ m < z /\ log[m].drop = 0
           /\ \A i \in m .. z - 1 : Finished(i) /\ Finished(i)'
      /\ \A r \in db : r.tile[1] <= z
  BY FinishLog
<1>3. \A m \in Zooms : log'[m].leaves # {} => log'[m].drop = 0
  <2> SUFFICES ASSUME NEW m \in Zooms, log'[m].leaves # {} PROVE log'[m].drop = 0
    OBVIOUS
  <2> QED
    BY <1>2
<1>4. ASSUME NEW t \in Data, DroppedBelowLeaves(t), NEW m \in Root[1] .. t[1] - 1,
             AncestorAt(t, m) \in log'[m].leaves, m < z
      PROVE  Finished(m + 1)' /\ log'[m + 1].drop > 0
  <2>1. m \in Zooms /\ m \in Nat /\ z \in Nat /\ m # z /\ m + 1 \in Zooms
    BY <1>4, TileParts, Constants DEF Zooms
  <2>2. AncestorAt(t, m) \in log[m].leaves
    BY <1>2, <1>4, <2>1
  <2>3. DroppedAt(m + 1)
    BY <1>4, <2>2 DEF DroppedBelowLeaves
  <2>4. CASE m + 1 = z
    BY <1>2, <2>3, <2>4 DEF DroppedAt
  <2>5. CASE m + 1 # z
    <3>1. m + 1 \in m .. z - 1
      BY <1>4, <2>1, <2>5
    <3>2. Finished(m + 1) /\ Finished(m + 1)'
      BY <1>2, <2>1, <2>2, <3>1
    <3>3. log'[m + 1] = log[m + 1]
      BY <1>2, <2>1, <2>5
    <3> QED
      BY <2>3, <3>2, <3>3 DEF DroppedAt
  <2> QED
    BY <2>4, <2>5
<1>5. ASSUME NEW r \in db, NEW m \in Root[1] .. r.tile[1] - 1,
             AncestorAt(r.tile, m) \in log'[m].leaves
      PROVE  Finished(m + 1)' /\ log'[m + 1].drop > 0
  <2>1. r.tile \in Data /\ DroppedBelowLeaves(r.tile)
    BY <1>1, MainTypes DEF DropsBelowLeaves
  <2>2. m < z
    <3>1. r.tile[1] <= z /\ r.tile[1] \in Nat /\ z \in Nat /\ Root[1] \in Nat
      BY <1>2, <2>1, TileParts DEF Zooms
    <3> QED
      BY <3>1
  <2> QED
    BY <1>4, <1>5, <2>1, <2>2
<1> QED
  BY <1>3, <1>4, <1>5

\* When nothing of the zoom has been tiled, what is known of the zoom with the most tiles
\* before this one is out of date unless it dropped nothing.
LEMMA FinishLargest ==
    ASSUME OnceInv, NEW z \in Zooms, LevelAt(z), NEW g \in 0 .. MaxGamma,
           NEW d \in 0 .. MaxDrop, Joins(g, d, -1), ~FailedOut, -1 \in Zooms \cup {-1},
           main.largest >= 0, main.largest < z
    PROVE  ~(log[main.largest].drop > 0)
<1> SUFFICES ASSUME log[main.largest].drop > 0 PROVE FALSE
  OBVIOUS
<1>1. /\ main.z = z
      /\ main.pass <= 1 => \A i \in Files : \A b \in DOMAIN files[i] : Skipped(files[i][b])
  BY AtEnd
<1>2. Largest(z) /\ ~main.failed
  BY DEF LevelAt, FailedOut
<1>3. skip = {} /\ main.pass = 0 /\ \E i \in Files : DOMAIN files[i] # {}
  BY <1>1, <1>2 DEF Largest
<1>4. PICK i \in Files : \E b \in DOMAIN files[i] : Skipped(files[i][b])
  BY <1>1, <1>3
<1> QED
  BY <1>3, <1>4 DEF Skipped

\* The next zoom has a header for every tile that is not done without.
LEMMA NextReached ==
    ASSUME OnceInv, need \in Needs, NEW z \in Zooms, LevelAt(z), NEW g \in 0 .. MaxGamma,
           NEW d \in 0 .. MaxDrop, NEW k \in Zooms \cup {-1}, Finishing(g, d, k), Wanted(z),
           NEW t \in Data, t[1] = NextZoom(z, main.threads)
    PROVE  HasHeader(sub, t) \/ Covered(t)'
<1> DEFINE p == AncestorAt(t, z)
<1>1. /\ TypeOK /\ UniformInv /\ AtLevel(z) /\ LeavesKnown(z) /\ Reached(z)
      /\ Joins(g, d, k) /\ ~FailedOut /\ db' = db
  BY DEF OnceInv, UniformInv, LevelAt, Finishing
<1>2. /\ \A i \in Zooms : i # z => log'[i] = log[i]
      /\ ~Finished(z)
      /\ \A m \in Zooms : log[m].leaves # {} => MinZoom <= m /\ m < z
  BY FinishLog
<1>3. /\ t[1] \in Nat /\ z \in Nat /\ Root[1] \in Nat /\ Root[1] <= z /\ t[1] > z
      /\ (MinZoom <= z => t[1] = z + 1) /\ MinZoom \in Nat
  <2>1. /\ t[1] \in z + 1 .. z + MaxZoomIncrement(main.threads)
        /\ IF z < MinZoom THEN t[1] <= MinZoom ELSE t[1] = z + 1
    BY <1>1, MainTypes, NextZoomNear
  <2>2. t[1] \in Nat /\ z \in Nat /\ Root[1] \in Nat /\ Root[1] <= z /\ MinZoom \in Nat
    BY <1>1, TileParts, Constants DEF AtLevel, Zooms
  <2>3. MaxZoomIncrement(main.threads) \in Nat
    <3>1. main.threads \in ThreadCounts /\ TempFiles \in Nat
      BY <1>1, MainTypes, Constants
    <3> QED
      BY <3>1, IncrementAssumption DEF IncrementAssumption
  <2> QED
    BY <2>1, <2>2, <2>3
<1>4. p \in Data /\ p[1] = z
  <2>1. z \in Root[1] .. t[1]
    BY <1>3
  <2> QED
    BY <2>1, AncestorIn
<1>5. t \in Children(p, main.threads)
  BY <1>4 DEF Children
<1>6. \A i \in Root[1] .. z : AncestorAt(p, i) = AncestorAt(t, i)
  <2>1. z \in Root[1] .. t[1]
    BY <1>3
  <2> QED
    BY <2>1, AncestorOfAncestor
<1> HIDE DEF p
<1>7. /\ \A i \in Files : \A b \in DOMAIN files[i] :
           Parent(files[i][b]) \notin skip => ChildrenHave(files[i][b])
      /\ \A r \in db : ~Finished(r.tile[1]) => ChildrenHave(r.tile)
  <2>1. \A i \in Files, b \in Nat : Behind(i, b)
    BY <1>1, AtEnd
  <2> QED
    BY <1>1, <2>1, ChildrenAtEnd
<1>8. ChildrenHave(p) => HasHeader(sub, t)
  BY <1>5 DEF ChildrenHave
<1>9. Written(p) => HasHeader(sub, t)
  BY <1>2, <1>4, <1>7, <1>8 DEF Written
\* an ancestor of p that stands in for p stands in for t too, unless p is there
<1>10. ASSUME NEW m \in Root[1] .. z - 1, AncestorAt(p, m) \in log[m].leaves, ~Written(p),
              \A i \in m + 1 .. z - 1 : ~Written(AncestorAt(p, i))
       PROVE  Covered(t)'
  <2>1. m \in Zooms /\ m \in Nat /\ m # z /\ m \in Root[1] .. t[1] - 1 /\ m \in Root[1] .. z
    BY <1>3, Constants DEF Zooms
  <2>2. AncestorAt(t, m) \in log'[m].leaves
    BY <1>2, <1>6, <1>10, <2>1
  <2>3. t[1] = z + 1
    BY <1>2, <1>3, <1>10, <2>1
  <2>4. ASSUME NEW i \in m + 1 .. t[1] - 1 PROVE ~Written(AncestorAt(t, i))
    <3>1. CASE i = z
      <4>1. AncestorAt(t, i) = p
        BY <3>1 DEF p
      <4> QED
        BY <1>10, <4>1
    <3>2. CASE i # z
      <4>1. i \in m + 1 .. z - 1 /\ i \in Root[1] .. z
        BY <1>3, <2>1, <2>3, <2>4, <3>2
      <4> QED
        BY <1>6, <1>10, <4>1
    <3> QED
      BY <3>1, <3>2
  <2>5. \A i \in m + 1 .. t[1] - 1 : ~Written(AncestorAt(t, i))'
    BY <1>1, <2>4 DEF Written
  <2> QED
    BY <2>1, <2>2, <2>5 DEF Covered
<1>11. CASE HasHeader(files, p)
  <2>1. PICK i \in Files : \E b \in DOMAIN files[i] : files[i][b] = p
    BY <1>11 DEF HasHeader
  <2>2. PICK b \in DOMAIN files[i] : files[i][b] = p
    BY <2>1
  <2>3. CASE Parent(p) \notin skip
    BY <1>7, <1>8, <2>2, <2>3
  <2>4. CASE Parent(p) \in skip /\ ~Written(p)
    <3>1. /\ z - 1 \in Root[1] .. z - 1 /\ AncestorAt(p, z - 1) = Parent(p)
          /\ Parent(p) \in log[z - 1].leaves
      BY <1>1, <1>4, <2>4, SkippedCovered
    <3>2. \A n \in (z - 1) + 1 .. z - 1 : FALSE
      BY <1>3
    <3> QED
      BY <1>10, <2>4, <3>1, <3>2
  <2> QED
    BY <1>9, <2>3, <2>4
<1>12. CASE Covered(p) /\ ~Written(p)
  <2>1. PICK m \in Root[1] .. p[1] - 1 :
          /\ AncestorAt(p, m) \in log[m].leaves
          /\ \A i \in m + 1 .. p[1] - 1 : ~Written(AncestorAt(p, i))
    BY <1>12 DEF Covered
  <2> QED
    BY <1>4, <1>10, <1>12, <2>1
<1> QED
  BY <1>1, <1>4, <1>9, <1>11, <1>12 DEF Reached

\* If the maximum zoom is not reached, the next zoom is wanted and not beyond it.
LEMMA NextWanted ==
    ASSUME TypeOK, NEW z \in Zooms, AtLevel(z), NEW k \in Zooms \cup {-1}, ZoomOut(k) = z,
           z < Joining(k).maxzoom
    PROVE  /\ Wanted(z) /\ NextZoom(z, main.threads) \in Nat /\ NextZoom(z, main.threads) > z
           /\ NextZoom(z, main.threads) <= Joining(k).maxzoom
           /\ IF z < MinZoom THEN NextZoom(z, main.threads) <= MinZoom
              ELSE NextZoom(z, main.threads) = z + 1
           /\ Joining(k).maxzoom <= ZoomLimit /\ Joining(k).maxzoom \in Nat
           /\ MaxZoom <= Joining(k).maxzoom
<1> DEFINE n == NextZoom(z, main.threads)
           mz == Joining(k).maxzoom
<1>1. /\ main.maxzoom \in Nat /\ z \in Nat /\ MinZoom \in Nat /\ MaxZoom \in Nat
      /\ ZoomLimit \in Nat /\ MinZoom <= MaxZoom /\ main.threads \in ThreadCounts
      /\ MaxZoom <= main.maxzoom /\ main.maxzoom <= ZoomLimit
  BY MainTypes, Constants, ZoomAssumption DEF ZoomAssumption, Zooms, AtLevel
<1>2. mz = IF Extends(k) THEN main.maxzoom + 1 ELSE main.maxzoom
  BY JoiningRest
<1>3. /\ n \in z + 1 .. z + MaxZoomIncrement(main.threads)
      /\ IF z < MinZoom THEN n <= MinZoom ELSE n = z + 1
  BY <1>1, NextZoomNear
<1>4. MaxZoomIncrement(main.threads) \in Nat
  BY <1>1, IncrementAssumption DEF IncrementAssumption
<1> HIDE DEF n, mz
<1>5. n \in Nat /\ n > z
  BY <1>1, <1>3, <1>4
<1>6. mz \in Nat /\ mz >= main.maxzoom /\ mz <= ZoomLimit /\ MaxZoom <= mz
  <2>1. Extends(k) => main.maxzoom < ZoomLimit
    BY DEF Extends
  <2> QED
    BY <1>1, <1>2, <2>1
<1>7. n <= mz
  <2>1. z < mz
    BY DEF mz
  <2> QED
    BY <1>1, <1>3, <1>5, <1>6, <2>1
<1>8. Wanted(z)
  <2>1. CASE Extends(k)
    BY <2>1 DEF Wanted, Extends
  <2>2. CASE ~Extends(k)
    BY <1>2, <1>7, <2>2 DEF Wanted, n
  <2> QED
    BY <2>1, <2>2
<1> QED
  BY <1>3, <1>5, <1>6, <1>7, <1>8 DEF n, mz

LEMMA LevelNextLevel ==
    ASSUME OnceInv, need \in Needs, NEW z \in Zooms, LevelAt(z), NextLevel, UniformInv',
           main'.phase = "pass"
    PROVE  \E y \in Zooms : LevelAt(y)'
<1>1. PICK g \in 0 .. MaxGamma, d \in 0 .. MaxDrop, k \in Zooms \cup {-1}, n \in ThreadCounts :
        /\ Joins(g, d, k) /\ ~Raised(g, d) /\ ~FailedOut
        /\ Joining(k).z < Joining(k).maxzoom
        /\ main' = [Joining(k) EXCEPT !.z = ZoomOut(k) + 1, !.pass = 0, !.gamma = 0,
                                      !.drop = 0, !.first = FALSE, !.threads = n]
        /\ thread' = [w \in Threads |-> FreshThread(w < n)]
        /\ log' = FinishedLog(k)
  BY Zenon DEF NextLevel
<1>2. /\ files' = sub /\ sub' = [j \in Files |-> <<>>] /\ db' = db /\ need' = need
      /\ open' = [j \in Files |-> TRUE] /\ tasks' = Useful(sub) /\ skip' = SkipOut
  BY DEF NextLevel
<1>3. /\ TypeOK /\ UniformInv /\ main.phase = "pass" /\ DroppingBegins
      /\ AtLevel(z) /\ LeavesKnown(z) /\ ThreadLeaves(z) /\ Reached(z) /\ FilesOpen /\ TasksTaken
      /\ Treated(z) /\ ChildrenThere(z) /\ FirstDropping /\ CompleteSoFar
      /\ DropsBelowLeaves(z) /\ Extending(z) /\ Largest(z) /\ Drawn /\ OneZoom
  BY <1>1 DEF OnceInv, UniformInv, WithinPass, LevelAt, Joins, AllDone
<1>4. Finishing(g, d, k)
  BY <1>1, <1>2 DEF Finishing
<1>5. /\ ZoomOut(k) = z
      /\ log'[z].passes = main.pass + 1 /\ log'[z].drop = main.drop
      /\ log'[z].leaves = SkipOut
      /\ \A i \in Zooms : i # z => log'[i] = log[i]
      /\ ~Finished(z) /\ Finished(z)' /\ \A r \in db : ~Finished(r.tile[1]) => r.tile[1] = z
      /\ \A l \in SkipOut : /\ l \in Data /\ l[1] = z /\ MinZoom <= z /\ main.drop = 0
      /\ \A m \in Zooms : log[m].leaves # {} =>
           /\ MinZoom <= m /\ m < z /\ main.z = z /\ log[m].drop = 0
           /\ \A i \in m .. z - 1 : Finished(i) /\ Finished(i)'
      /\ \A r \in db : r.tile[1] <= z
  BY <1>3, <1>4, FinishLog
<1>6. /\ tasks = {} /\ \A i \in Files, b \in Nat : Behind(i, b)
      /\ k = -1 \/ k = z
      /\ k = -1 => ZoomOut(k) = main.z
      /\ ~FailedOut /\ k = -1 => main.z = z
  BY <1>1, AtEnd
<1>7. /\ main.pass \in 0 .. 2 /\ main.drop \in Nat /\ main.z \in Nat
      /\ z \in Nat /\ main.largest \in Nat \cup {-1} /\ MinZoom \in Nat /\ ZoomLimit \in Nat
      /\ main.threads \in Nat \ {0} /\ n \in Nat \ {0} /\ main.threads \in ThreadCounts
  <2>1. n \in Nat \ {0}
    BY Constants
  <2> QED
    BY <1>3, <2>1, MainTypes, Constants DEF Zooms
<1>8. LET j == Joining(k)
      IN  /\ j.largest = Most(main.largest, k) /\ j.failed = FailedOut
          /\ j.z = z /\ j \in MainType
  BY <1>3, <1>5, JoiningRest, JoiningType
<1> DEFINE mz == Joining(k).maxzoom
<1>9. /\ main'.z = z + 1 /\ main'.largest = Most(main.largest, k) /\ main'.failed = FailedOut
      /\ main'.maxzoom = mz /\ main'.pass = 0 /\ main'.gamma = 0 /\ main'.drop = 0
      /\ main'.first = FALSE /\ main'.threads = n
  <2> DEFINE J == Joining(k)
             y == ZoomOut(k) + 1
  <2>1. main' = [J EXCEPT !.z = y, !.pass = 0, !.gamma = 0, !.drop = 0, !.first = FALSE,
                          !.threads = n]
    BY <1>1
  <2>2. J \in MainType /\ y = z + 1 /\ J.largest = Most(main.largest, k) /\ J.failed = FailedOut
        /\ J.maxzoom = mz
    BY <1>5, <1>8
  <2> HIDE DEF J, y, mz
  <2>3. /\ main'.z = y /\ main'.largest = J.largest /\ main'.failed = J.failed
        /\ main'.maxzoom = J.maxzoom /\ main'.pass = 0 /\ main'.gamma = 0 /\ main'.drop = 0
        /\ main'.first = FALSE /\ main'.threads = n
    BY <2>1, <2>2 DEF MainType
  <2> QED
    BY <2>2, <2>3
<1>10. PICK y \in Nat : y = NextZoom(z, main.threads)
  <2>1. NextZoom(z, main.threads) \in Nat
    BY <1>3, <1>7, NextZoomDeeper
  <2> QED
    BY <2>1
<1>11. /\ Wanted(z) /\ y > z /\ y <= mz
       /\ IF z < MinZoom THEN y <= MinZoom ELSE y = z + 1
       /\ mz <= ZoomLimit /\ mz \in Nat /\ MaxZoom <= mz
  <2>1. z < Joining(k).maxzoom
    BY <1>1, <1>8
  <2> QED
    BY <1>3, <1>5, <1>10, <2>1, NextWanted
<1> HIDE DEF mz
<1>12. y \in Zooms
  BY <1>7, <1>10, <1>11 DEF Zooms
<1>13. \A w \in Threads : /\ thread'[w].pc = IF w < n THEN "take" ELSE "done"
                          /\ thread'[w].gamma = 0 /\ thread'[w].drop = 0
                          /\ thread'[w].skipOut = {}
  BY <1>1 DEF FreshThread
<1>14. \A i \in Files : \A b \in DOMAIN files'[i] : ~Behind(i, b)'
  <2> SUFFICES ASSUME NEW i \in Files, NEW b \in DOMAIN sub[i]
               PROVE  i \in Useful(sub)
    BY <1>2 DEF Behind
  <2>1. sub[i] \in Seq(Data)
    BY <1>3 DEF TypeOK
  <2> QED
    BY <2>1 DEF Useful
<1>15. \A u : HasHeader(sub, u)' <=> FALSE
  BY <1>2 DEF HasHeader
<1>16. AtLevel(y)'
  <2>1. Root[1] <= z /\ main.z <= z /\ Root[1] \in Nat
    <3>1. Root \in Data
      BY Constants
    <3> QED
      BY <1>3, <3>1, TileParts DEF AtLevel
  <2>2. \A j \in Files : \A a \in DOMAIN sub[j] : sub[j][a][1] = y
    <3> SUFFICES ASSUME NEW j \in Files, NEW a \in DOMAIN sub[j]
                 PROVE  sub[j][a][1] = y
      OBVIOUS
    <3>1. PICK i \in Files : \E b \in DOMAIN files[i] :
            sub[j][a][1] = NextZoom(files[i][b][1], main.threads)
      BY <1>3 DEF OneZoom
    <3>2. PICK b \in DOMAIN files[i] : sub[j][a][1] = NextZoom(files[i][b][1], main.threads)
      BY <3>1
    <3>3. files[i][b][1] = z
      BY <1>3 DEF AtLevel
    <3> QED
      BY <1>10, <3>2, <3>3
  <2>3. /\ Root[1] <= y /\ main'.z <= y /\ y <= main'.maxzoom
        /\ MaxZoom <= main'.maxzoom /\ main'.maxzoom <= ZoomLimit
        /\ main'.z < y => y <= MinZoom /\ main'.pass = 0
    BY <1>7, <1>9, <1>10, <1>11, <2>1
  <2>4. \A j \in Files : \A a \in DOMAIN files'[j] : files'[j][a][1] = y
    BY <1>2, <2>2
  <2> QED
    BY <2>3, <2>4 DEF AtLevel
<1>17. SkipOut # {} => MinZoom <= z /\ y = z + 1 /\ main.drop = 0
  BY <1>5, <1>7, <1>11
<1>18. LeavesKnown(y)'
  <2>1. \A l \in SkipOut : l[1] = y - 1 /\ MinZoom < y
    BY <1>5, <1>7, <1>17
  <2>2. SkipOut # {} => SkipOut = log'[y - 1].leaves
    BY <1>5, <1>7, <1>17
  <2>3. ASSUME NEW m \in Zooms, log'[m].leaves # {}
        PROVE  /\ MinZoom <= m /\ m < z + 1 /\ log'[m].drop = 0
               /\ m + 1 = z + 1 => log'[m].leaves = SkipOut
               /\ \A i \in m .. (z + 1) - 1 : Finished(i)'
    <3>1. CASE m = z
      <4>1. MinZoom <= z /\ main.drop = 0
        BY <1>5, <1>17, <2>3, <3>1
      <4>2. \A i \in m .. (z + 1) - 1 : i = z
        BY <1>7, <3>1
      <4> QED
        BY <1>5, <1>7, <3>1, <4>1, <4>2
    <3>2. CASE m # z
      <4>1. /\ MinZoom <= m /\ m < z /\ log[m].drop = 0 /\ log'[m] = log[m]
            /\ \A i \in m .. z - 1 : Finished(i)'
        BY <1>5, <2>3, <3>2
      <4>2. m \in Nat
        BY DEF Zooms
      <4>3. m < z + 1 /\ m + 1 # z + 1
        BY <1>7, <3>2, <4>1, <4>2
      <4>4. ASSUME NEW i \in m .. (z + 1) - 1 PROVE Finished(i)'
        <5>1. i = z \/ i \in m .. z - 1
          BY <1>7, <4>2
        <5> QED
          BY <1>5, <4>1, <5>1
      <4> QED
        BY <4>1, <4>3, <4>4
    <3> QED
      BY <3>1, <3>2
  <2> QED
    BY <1>2, <1>9, <2>1, <2>2, <2>3 DEF LeavesKnown
<1>19. ThreadLeaves(y)'
  BY <1>13 DEF ThreadLeaves
<1>20. Reached(y)'
  <2>1. \A t \in Data : t[1] = y => HasHeader(sub, t) \/ Covered(t)'
    BY <1>3, <1>4, <1>10, <1>11, NextReached
  <2> QED
    BY <1>2, <2>1 DEF Reached, HasHeader
<1>21. FilesOpen'
  <2>1. Useful(sub) \subseteq Files
    BY DEF Useful
  <2> QED
    BY <1>2, <1>9, <2>1 DEF FilesOpen, Useful
<1>22. TasksTaken'
  <2>1. \A w \in Joined' : w \in Threads /\ w < n
    <3>1. Joined' = 0 .. n - 1
      BY <1>9 DEF Joined
    <3>2. 0 .. n - 1 \subseteq Threads
      BY ThreadAssumption DEF ThreadAssumption, Threads, ThreadCounts
    <3> QED
      BY <1>7, <3>1, <3>2
  <2> QED
    BY <1>13, <2>1 DEF TasksTaken
<1>23. Treated(y)'
  BY <1>14 DEF Treated
<1>24. ChildrenThere(y)'
  <2>1. \A r \in db' : Finished(r.tile[1])'
    BY <1>1, <1>2, <1>3, UniformFinish
  <2> QED
    BY <1>9, <1>14, <2>1 DEF ChildrenThere
<1>25. FirstDropping'
  BY <1>9 DEF FirstDropping
<1>26. CompleteSoFar'
  <2> SUFFICES ASSUME NEW m \in Zooms, MinZoom <= m, m < z + 1
               PROVE  Complete(m)' \/ log'[m].passes > 2
    BY <1>9 DEF CompleteSoFar
  <2>1. m <= z
    BY <1>7 DEF Zooms
  <2> QED
    BY <1>3, <1>4, <2>1, FinishComplete
<1>27. DropsBelowLeaves(y)'
  <2>1. /\ \A t \in Data : DroppedBelowLeaves(t) =>
             \A m \in Root[1] .. t[1] - 1 : AncestorAt(t, m) \in log'[m].leaves /\ m < z =>
                 Finished(m + 1)' /\ log'[m + 1].drop > 0
        /\ \A r \in db : \A m \in Root[1] .. r.tile[1] - 1 :
             AncestorAt(r.tile, m) \in log'[m].leaves =>
                 Finished(m + 1)' /\ log'[m + 1].drop > 0
    BY <1>3, <1>4, FinishLeaves
  <2>2. ASSUME NEW t \in Data, HasHeader(sub, t), NEW m \in Root[1] .. y - 2,
               AncestorAt(t, m) \in log'[m].leaves
        PROVE  log'[m + 1].drop > 0
    <3>1. DroppedBelowLeaves(t)
      BY <1>3, <2>2 DEF DropsBelowLeaves
    <3>2. t[1] = y
      BY <1>2, <1>16, <2>2 DEF HasHeader, AtLevel
    <3>3. m \in Zooms /\ m \in Nat /\ m <= y - 2 /\ m \in Root[1] .. y - 1
      BY <1>7, <1>10, <1>11, <2>2, TileParts DEF Zooms
    <3>4. m < z
      <4>1. CASE m = z
        BY <1>5, <1>7, <1>17, <2>2, <3>3, <4>1
      <4>2. CASE m # z
        BY <1>5, <2>2, <3>3, <4>2
      <4> QED
        BY <4>1, <4>2
    <3> QED
      BY <2>1, <2>2, <3>1, <3>2, <3>3, <3>4
  <2>3. \A r \in db : DroppedBelowLeaves(r.tile)'
    <3> SUFFICES ASSUME NEW r \in db, NEW m \in Root[1] .. r.tile[1] - 1,
                        AncestorAt(r.tile, m) \in log'[m].leaves
                 PROVE  DroppedAt(m + 1)'
      BY DEF DroppedBelowLeaves
    <3>1. Finished(m + 1)' /\ log'[m + 1].drop > 0
      BY <2>1
    <3> QED
      BY <3>1 DEF DroppedAt
  <2>4. \A t : HasHeader(files, t)' <=> HasHeader(sub, t)
    BY <1>2 DEF HasHeader
  <2> QED
    BY <1>2, <1>15, <2>2, <2>3, <2>4 DEF DropsBelowLeaves
<1>28. Extending(y)'
  <2>1. \A w \in Threads : ~Raising(w)'
    BY <1>9, <1>13 DEF Raising
  <2> QED
    BY <1>9, <2>1 DEF Extending
<1>29. Largest(y)'
  <2>1. main.largest <= z /\ main'.largest = Most(main.largest, k)
    BY <1>3, <1>9 DEF Largest
  <2>2. main'.largest <= z /\ z <= y
    BY <1>6, <1>7, <1>10, <1>11, <2>1 DEF Most
  <2>3. main'.largest <= y
    BY <1>6, <1>7, <1>10, <2>1, <2>2 DEF Most
  <2> SUFFICES ASSUME main'.largest >= 0, log'[main'.largest].drop > 0
               PROVE  SkipOut = {} /\ \E i \in Files : DOMAIN sub[i] # {}
    BY <1>2, <1>9, <2>3 DEF Largest
  <2>4. main'.largest = z
    <3> SUFFICES ASSUME main'.largest # z PROVE FALSE
      OBVIOUS
    <3>1. k = -1 /\ main'.largest = main.largest /\ main.largest < z /\ main.largest >= 0
      BY <1>6, <1>7, <2>1, <2>2 DEF Most
    <3>2. main.largest \in Zooms /\ main.largest # z
      BY <1>7, <3>1 DEF Zooms
    <3>3. log[main.largest].drop > 0
      BY <1>5, <3>1, <3>2
    <3> QED
      BY <1>1, <3>1, <3>3, FinishLargest
  <2>5. main.drop > 0
    BY <1>5, <2>4
  <2>6. SkipOut = {}
    BY <1>5, <2>5
  <2>7. main.pass > 0
    BY <1>3, <1>7, <2>5 DEF DroppingBegins
  <2>8. PICK i \in Files : \E b \in DOMAIN files[i] : Parent(files[i][b]) \notin skip
    BY <1>3, <2>7 DEF Extending
  <2>9. PICK b \in DOMAIN files[i] : Parent(files[i][b]) \notin skip
    BY <2>8
  <2>10. ChildrenHave(files[i][b])
    BY <1>1, <1>3, <1>6, <1>11, <2>9, ChildrenAtEnd
  <2>11. files[i][b] \in Data /\ files[i][b][1] = z
    BY <1>3, HeaderAt
  <2>12. PICK c \in Data : c[1] = y /\ AncestorAt(c, z) = files[i][b]
    <3>1. y \in z .. ZoomLimit
      BY <1>7, <1>10, <1>11
    <3> QED
      BY <2>11, <3>1, DescendantAt
  <2>13. c \in Children(files[i][b], main.threads)
    BY <1>10, <2>11, <2>12 DEF Children
  <2>14. HasHeader(sub, c)
    BY <2>10, <2>13 DEF ChildrenHave
  <2> QED
    BY <2>6, <2>14 DEF HasHeader
<1>30. Drawn'
  BY <1>2, <1>3 DEF Drawn
<1> QED
  BY <1>12, <1>16, <1>18, <1>19, <1>20, <1>21, <1>22, <1>23, <1>24, <1>25, <1>26, <1>27,
     <1>28, <1>29, <1>30 DEF LevelAt

-----------------------------------------------------------------------------
(***************************************************************************)
(* The zooms are complete, leaves are respected, and zooms added           *)
(***************************************************************************)

LEMMA LevelsInit == Init => LevelsInv
<1> SUFFICES ASSUME Init PROVE LevelsInv
  OBVIOUS
<1> DEFINE z == Root[1]
<1>1. OnceInv /\ need \in Needs
  BY OnceInit DEF Init
<1>2. /\ main.phase = "pass" /\ main.z = z /\ main.maxzoom = MaxZoom /\ main.pass = 0
      /\ main.gamma = 0 /\ main.drop = 0 /\ main.first = FALSE /\ main.threads = 1
      /\ main.largest = -1 /\ main.failed = FALSE
  BY DEF Init
<1>3. /\ db = {} /\ skip = {} /\ tasks = {0}
      /\ files = [j \in Files |-> IF j = 0 THEN <<Root>> ELSE <<>>]
      /\ open = [j \in Files |-> j = 0] /\ sub = [j \in Files |-> <<>>]
      /\ thread = [w \in Threads |-> FreshThread(w = 0)]
      /\ log = [k \in Zooms |-> [passes |-> 0, gamma |-> 0, drop |-> 0, leaves |-> {}]]
  BY DEF Init
<1>4. /\ z \in Nat /\ z \in Zooms /\ z <= MinZoom /\ MinZoom \in Nat /\ MaxZoom \in Nat
      /\ MinZoom <= MaxZoom /\ MaxZoom <= ZoomLimit /\ Root \in Data /\ 0 \in Files
      /\ ZoomLimit \in Nat /\ 0 \in Threads
  <2>1. Root \in Data /\ z <= MinZoom
    BY DataAssumption DEF DataAssumption
  <2> QED
    BY <2>1, ZoomAssumption, Constants, TileParts DEF ZoomAssumption
<1>5. \A w \in Threads : /\ thread[w].pc = IF w = 0 THEN "take" ELSE "done"
                         /\ thread[w].gamma = 0 /\ thread[w].drop = 0
                         /\ thread[w].skipOut = {}
  BY <1>3 DEF FreshThread
<1>6. /\ \A k \in Zooms : log[k].leaves = {} /\ ~Finished(k)
      /\ \A j \in Files : \A a \in DOMAIN files[j] : j = 0 /\ a = 1 /\ files[j][a] = Root
      /\ Joined = {0}
      /\ \A i \in Files : \A b \in DOMAIN files[i] : ~Behind(i, b)
  <2>1. \A k \in Zooms : log[k].leaves = {} /\ ~Finished(k)
    BY <1>3 DEF Finished
  <2>2. \A j \in Files : \A a \in DOMAIN files[j] : j = 0 /\ a = 1 /\ files[j][a] = Root
    BY <1>3, <1>4
  <2>3. Joined = {0}
    BY <1>2 DEF Joined
  <2>4. \A i \in Files : \A b \in DOMAIN files[i] : ~Behind(i, b)
    BY <1>3, <2>2 DEF Behind
  <2> QED
    BY <2>1, <2>2, <2>3, <2>4
<1>7. AtLevel(z)
  BY <1>2, <1>4, <1>6 DEF AtLevel
<1>8. LeavesKnown(z) /\ ThreadLeaves(z) /\ FirstDropping /\ Drawn
  <2>1. LeavesKnown(z)
    BY <1>3, <1>6 DEF LeavesKnown
  <2>2. ThreadLeaves(z)
    BY <1>5 DEF ThreadLeaves
  <2>3. FirstDropping
    BY <1>2 DEF FirstDropping
  <2>4. Drawn
    BY <1>3 DEF Drawn
  <2> QED
    BY <2>1, <2>2, <2>3, <2>4
<1>9. Reached(z)
  <2> SUFFICES ASSUME NEW t \in Data, t[1] = z PROVE HasHeader(files, t)
    BY DEF Reached
  <2>1. AncestorAt(t, z) = Root
    BY DataAssumption DEF DataAssumption
  <2>2. t = Root
    BY <2>1, AncestorSelf
  <2>3. 1 \in DOMAIN files[0] /\ files[0][1] = Root
    BY <1>3, <1>4
  <2> QED
    BY <1>4, <2>2, <2>3 DEF HasHeader
<1>10. FilesOpen
  <2>1. Useful(files) = {0}
    BY <1>3, <1>4 DEF Useful
  <2>2. open[0] /\ tasks = {0}
    BY <1>3, <1>4
  <2>3. main.pass = 0
    BY <1>2
  <2> QED
    BY <2>1, <2>2, <2>3 DEF FilesOpen
<1>11. TasksTaken /\ Treated(z)
  <2>1. TasksTaken
    BY <1>4, <1>5, <1>6 DEF TasksTaken
  <2> QED
    BY <1>6, <2>1 DEF Treated
<1>12. ChildrenThere(z)
  BY <1>2, <1>3, <1>6 DEF ChildrenThere
<1>13. CompleteSoFar
  <2>1. \A k \in Zooms : ~(MinZoom <= k /\ k < main.z)
    BY <1>2, <1>4 DEF Zooms
  <2> QED
    BY <2>1 DEF CompleteSoFar
<1>14. DropsBelowLeaves(z)
  <2>1. \A t : ~HasHeader(sub, t)
    BY <1>3 DEF HasHeader
  <2>2. \A k \in Root[1] .. z - 2 : FALSE
    BY <1>4
  <2> QED
    BY <1>3, <2>1, <2>2 DEF DropsBelowLeaves
<1>15. Extending(z) /\ Largest(z)
  <2>1. \A w \in Threads : ~Raising(w)
    BY <1>2, <1>5 DEF Raising
  <2>2. Largest(z)
    BY <1>2, <1>4 DEF Largest
  <2> QED
    BY <1>2, <2>1, <2>2 DEF Extending
<1>16. InLevel
  BY <1>4, <1>7, <1>8, <1>9, <1>10, <1>11, <1>12, <1>13, <1>14, <1>15 DEF InLevel, LevelAt
<1>17. CompleteThrough /\ ExtendedFarEnough
  BY <1>2 DEF CompleteThrough, ExtendedFarEnough
<1>18. LeavesRespected
  BY <1>3, <1>6 DEF LeavesRespected
<1> QED
  BY <1>1, <1>8, <1>16, <1>17, <1>18 DEF LevelsInv

LEMMA LevelsReturn ==
    ASSUME LevelsInv, Return
    PROVE  /\ main'.phase = "complete" /\ Drawn' /\ need' \in Needs
           /\ CompleteThrough' /\ LeavesRespected' /\ ExtendedFarEnough'
<1>1. PICK g \in 0 .. MaxGamma, d \in 0 .. MaxDrop, k \in Zooms \cup {-1} :
        /\ Joins(g, d, k) /\ ~Raised(g, d) /\ ~FailedOut
        /\ Joining(k).z >= Joining(k).maxzoom
        /\ LET j == Joining(k)
               last == IF j.largest >= 0 THEN Least(j.maxzoom, j.largest) ELSE j.maxzoom
           IN main' = [j EXCEPT !.maxzoom = last, !.result = last, !.phase = "complete"]
        /\ log' = FinishedLog(k)
  BY Zenon DEF Return
<1>2. db' = db /\ need' = need
  BY DEF Return
<1>3. /\ TypeOK /\ UniformInv /\ OnceInv /\ need \in Needs /\ main.phase = "pass" /\ Drawn
  BY <1>1 DEF LevelsInv, OnceInv, UniformInv, Joins, AllDone
<1>4. PICK z \in Zooms : LevelAt(z)
  BY <1>3 DEF LevelsInv, InLevel
<1>5. AtLevel(z) /\ Largest(z) /\ Extending(z) /\ DroppingBegins
  BY <1>3, <1>4 DEF LevelAt, OnceInv, WithinPass
<1>6. Finishing(g, d, k)
  BY <1>1, <1>2 DEF Finishing
<1>7. /\ ZoomOut(k) = z /\ log'[z].drop = main.drop
      /\ \A i \in Zooms : i # z => log'[i] = log[i]
  BY <1>3, <1>4, <1>6, FinishLog
<1>8. /\ main.maxzoom \in Nat /\ main.largest \in Nat \cup {-1} /\ main.drop \in Nat /\ z \in Nat
      /\ ZoomLimit \in Nat /\ MinZoom \in Nat
  BY <1>3, MainTypes, Constants DEF Zooms
<1>9. LET j == Joining(k)
      IN  /\ j.largest = Most(main.largest, k) /\ j.z = z /\ j \in MainType /\ j.drop = main.drop
          /\ j.maxzoom = IF Extends(k) THEN main.maxzoom + 1 ELSE main.maxzoom
  BY <1>3, <1>7, JoiningRest, JoiningType
<1> DEFINE la == Most(main.largest, k)
           last == IF la >= 0 THEN Least(z, la) ELSE z
<1>10. Joining(k).maxzoom = z /\ main.maxzoom = z
  <2>1. z <= main.maxzoom
    BY <1>5 DEF AtLevel
  <2>2. Extends(k) => z = main.maxzoom
    BY <1>7 DEF Extends
  <2>3. Joining(k).maxzoom <= z
    BY <1>1, <1>9
  <2> QED
    BY <1>8, <1>9, <2>1, <2>2, <2>3
<1>11. main'.result = last /\ main'.phase = "complete" /\ main'.drop = main.drop
  <2> DEFINE J == Joining(k)
  <2>1. main' = [J EXCEPT !.maxzoom = last, !.result = last, !.phase = "complete"]
    BY <1>1, <1>9, <1>10
  <2>2. J \in MainType /\ J.drop = main.drop
    BY <1>9
  <2> HIDE DEF J, last
  <2> QED
    BY <2>1, <2>2 DEF MainType
<1>12. k = -1 \/ k = z
  BY <1>1, <1>3, <1>4, AtEnd
<1>13. la \in Nat \cup {-1} /\ la <= z /\ (k = z => la = z) /\ (k = -1 => la = main.largest)
  <2>1. main.largest <= z
    BY <1>5 DEF Largest
  <2> QED
    BY <1>8, <1>12, <2>1 DEF Most
<1>14. last \in Nat /\ last <= z /\ (last # z => last = la /\ k = -1 /\ la < z /\ la >= 0)
  BY <1>8, <1>12, <1>13 DEF Least
<1> HIDE DEF last, la
<1>15. CompleteThrough'
  <2> SUFFICES ASSUME NEW m \in MinZoom .. last
               PROVE  Complete(m)' \/ log'[m].passes > 2
    BY <1>11 DEF CompleteThrough
  <2>1. m \in Zooms /\ MinZoom <= m /\ m <= z
    BY <1>8, <1>14 DEF Zooms
  <2> QED
    BY <1>3, <1>4, <1>6, <2>1, FinishComplete
<1>16. LeavesRespected'
  <2>1. /\ \A m \in Zooms : log'[m].leaves # {} => log'[m].drop = 0
        /\ \A r \in db : \A m \in Root[1] .. r.tile[1] - 1 :
             AncestorAt(r.tile, m) \in log'[m].leaves =>
                 Finished(m + 1)' /\ log'[m + 1].drop > 0
    BY <1>3, <1>4, <1>6, FinishLeaves
  <2> QED
    BY <1>2, <2>1 DEF LeavesRespected
<1>17. ExtendedFarEnough'
  <2> SUFFICES ASSUME AlwaysExtend, last # ZoomLimit
               PROVE  log'[last].drop = 0
    BY <1>11 DEF ExtendedFarEnough
  <2>1. CASE last = z
    <3>1. ~(main.drop > 0)
      BY <1>5, <1>8, <1>10, <2>1 DEF Extending
    <3> QED
      BY <1>7, <1>8, <2>1, <3>1
  <2>2. CASE last # z
    <3>1. k = -1 /\ last = main.largest /\ main.largest < z /\ main.largest >= 0
      BY <1>13, <1>14, <2>2
    <3>2. ~(log[main.largest].drop > 0)
      BY <1>1, <1>3, <1>4, <3>1, FinishLargest
    <3>3. main.largest \in Zooms /\ log \in [Zooms -> LogType]
      BY <1>3, <1>8, <3>1 DEF Zooms, TypeOK
    <3>4. log[main.largest].drop \in Nat
      BY <3>3 DEF LogType
    <3>5. log[main.largest].drop = 0
      BY <3>2, <3>4
    <3>6. log'[main.largest] = log[main.largest]
      BY <1>7, <2>2, <3>1, <3>3
    <3> QED
      BY <3>1, <3>5, <3>6
  <2> QED
    BY <2>1, <2>2
<1>18. Drawn'
  BY <1>2, <1>3 DEF Drawn
<1> QED
  BY <1>2, <1>3, <1>11, <1>15, <1>16, <1>17, <1>18

LEMMA LevelsReturnFailed ==
    ASSUME LevelsInv, ReturnFailed
    PROVE  /\ main'.phase \in {"through", "nodata"} /\ Drawn' /\ need' \in Needs
           /\ CompleteThrough' /\ LeavesRespected' /\ ExtendedFarEnough'
<1>1. PICK g \in 0 .. MaxGamma, d \in 0 .. MaxDrop, k \in Zooms \cup {-1} :
        /\ Joins(g, d, k)
        /\ LET result == ZoomOut(k) - 1
           IN main' = [Joining(k) EXCEPT
                !.result = result, !.phase = IF result > MinZoom THEN "through" ELSE "nodata"]
  BY Zenon DEF ReturnFailed
<1>2. UNCHANGED <<need, db, log>>
  BY DEF ReturnFailed
<1>3. /\ TypeOK /\ OnceInv /\ need \in Needs /\ main.phase = "pass" /\ Drawn
  BY <1>1 DEF LevelsInv, OnceInv, UniformInv, Joins, AllDone
<1>4. PICK z \in Zooms : LevelAt(z)
  BY <1>3 DEF LevelsInv, InLevel
<1>5. /\ main.z <= z /\ (main.z < z => z <= MinZoom) /\ main.z \in Nat /\ z \in Nat
      /\ MinZoom \in Nat /\ main.drop \in Nat /\ CompleteSoFar
  BY <1>3, <1>4, MainTypes, Constants DEF LevelAt, AtLevel, Zooms
<1>6. /\ k = -1 \/ k = z
      /\ k = -1 => ZoomOut(k) = main.z
      /\ k = z => ZoomOut(k) = z
  BY <1>1, <1>3, <1>4, AtEnd
<1> DEFINE result == ZoomOut(k) - 1
           phase == IF result > MinZoom THEN "through" ELSE "nodata"
<1>7. main'.result = result /\ main'.phase = phase /\ main'.drop = main.drop
  <2> DEFINE J == Joining(k)
  <2>1. J \in MainType /\ J.drop = main.drop
    BY <1>3, JoiningType
  <2>2. main' = [J EXCEPT !.result = result, !.phase = phase]
    BY <1>1
  <2> HIDE DEF J, result, phase
  <2> QED
    BY <2>1, <2>2 DEF MainType
<1>8. phase = "through" => result > MinZoom
  OBVIOUS
<1>9. phase \in {"through", "nodata"}
  OBVIOUS
<1>10. result \in Int /\ (result > MinZoom => result = main.z - 1)
  BY <1>5, <1>6
<1> HIDE DEF result, phase
<1>11. CompleteThrough'
  <2> SUFFICES ASSUME result > MinZoom, NEW m \in MinZoom .. result
               PROVE  Complete(m)' \/ log'[m].passes > 2
    BY <1>7, <1>8, <1>9 DEF CompleteThrough
  <2>1. m \in Zooms /\ MinZoom <= m /\ m < main.z
    BY <1>5, <1>10, Constants DEF Zooms
  <2>2. Complete(m) \/ log[m].passes > 2
    BY <1>5, <2>1 DEF CompleteSoFar
  <2> QED
    BY <1>2, <2>2 DEF Complete, Written, Covered
<1>12. LeavesRespected'
  BY <1>2, <1>7 DEF LevelsInv, LeavesRespected, Finished
<1>13. Drawn' /\ need' \in Needs
  BY <1>2, <1>3 DEF Drawn
<1>14. ExtendedFarEnough'
  BY <1>7, <1>9 DEF ExtendedFarEnough
<1> QED
  BY <1>7, <1>9, <1>11, <1>12, <1>13, <1>14

\* A thread that ends the program leaves the tileset as it is.
LEMMA LevelsGiveUp ==
    ASSUME LevelsInv, NEW w \in Threads, ThreadStep(w), OnceInv', main'.phase # "pass"
    PROVE  /\ main'.phase = "incomplete" /\ main'.drop = main.drop
           /\ UNCHANGED <<db, log, need>>
<1>1. main \in MainType /\ main'.phase # "exists"
  BY DEF LevelsInv, OnceInv, UniformInv, TypeOK, WrittenOnce, NeverExists
<1>2. main.phase = "pass"
  BY DEF ThreadStep, TakeFile, NoMoreFiles, SkipTile, WriteTile, GiveUp, FailTile, CloseFile,
         Running, AtTile, Tiling
<1>3. ~WriteTile(w)
  <2>1. [main EXCEPT !.phase = "exists"].phase = "exists"
    BY <1>1 DEF MainType
  <2> QED
    BY <1>1, <1>2, <2>1 DEF WriteTile
<1>4. GiveUp(w)
  BY <1>2, <1>3 DEF ThreadStep, TakeFile, NoMoreFiles, SkipTile, FailTile, CloseFile
<1> QED
  BY <1>1, <1>4 DEF GiveUp, MainType

LEMMA LevelsNext == LevelsInv /\ [Next]_vars => LevelsInv'
<1> SUFFICES ASSUME LevelsInv, [Next]_vars PROVE LevelsInv'
  OBVIOUS
<1>1. OnceInv /\ OnceInv' /\ TypeOK /\ UniformInv' /\ TypeOK'
  BY OnceNext DEF LevelsInv, OnceInv, UniformInv
<1>2. ASSUME main'.phase = "pass", NEW z \in Zooms, LevelAt(z)', need' \in Needs
      PROVE  LevelsInv'
  <2>1. LeavesRespected' /\ Drawn'
    <3>1. LeavesKnown(z)' /\ DropsBelowLeaves(z)' /\ Drawn'
      BY <1>2 DEF LevelAt
    <3>2. \A r \in db' : DroppedBelowLeaves(r.tile)'
      BY <3>1 DEF DropsBelowLeaves
    <3> QED
      BY <3>1, <3>2 DEF LeavesRespected, LeavesKnown, DroppedBelowLeaves, DroppedAt
  <2>2. CompleteThrough' /\ ExtendedFarEnough'
    BY <1>2 DEF CompleteThrough, ExtendedFarEnough
  <2> QED
    BY <1>1, <1>2, <2>1, <2>2 DEF LevelsInv, InLevel
<1>3. ASSUME NEW w \in Threads, ThreadStep(w)
      PROVE  LevelsInv'
  <2>1. main.phase = "pass" /\ need' = need
    BY <1>3 DEF ThreadStep, TakeFile, NoMoreFiles, SkipTile, WriteTile, GiveUp, FailTile,
                CloseFile, Running, AtTile, Tiling
  <2>2. PICK z \in Zooms : LevelAt(z)
    BY <2>1 DEF LevelsInv, InLevel
  <2>3. CASE main'.phase = "pass"
    <3>1. LevelAt(z)'
      BY <1>1, <1>3, <2>1, <2>2, <2>3, LevelThreadStep
    <3>2. need' \in Needs
      BY <2>1 DEF LevelsInv
    <3> QED
      BY <1>2, <2>3, <3>1, <3>2
  <2>4. CASE main'.phase # "pass"
    <3>1. /\ main'.phase = "incomplete" /\ main'.drop = main.drop
          /\ UNCHANGED <<db, log, need>>
      BY <1>1, <1>3, <2>4, LevelsGiveUp
    <3>2. LeavesRespected' /\ Drawn'
      BY <3>1 DEF LevelsInv, LeavesRespected, Drawn, Finished
    <3>3. CompleteThrough' /\ ExtendedFarEnough' /\ InLevel'
      BY <3>1 DEF CompleteThrough, ExtendedFarEnough, InLevel
    <3> QED
      BY <1>1, <3>1, <3>2, <3>3 DEF LevelsInv
  <2> QED
    BY <2>3, <2>4
<1>4. ASSUME NextPass \/ NextLevel
      PROVE  LevelsInv'
  <2>1. main.phase = "pass" /\ need' = need /\ main'.phase = "pass"
    <3>1. main.phase = "pass" /\ need' = need
      BY <1>4 DEF NextPass, Redo, NextLevel, Joins, AllDone
    <3>2. CASE NextPass
      <4>1. PICK g \in 0 .. MaxGamma, d \in 0 .. MaxDrop, k \in Zooms \cup {-1} : Redo(g, d, k)
        BY <3>2 DEF NextPass
      <4> DEFINE J == Joining(k)
                 pass == Least(main.pass + 1, 2)
                 first == d > 0 /\ main.drop = 0
      <4>2. main' = [J EXCEPT !.pass = pass, !.gamma = g, !.drop = d, !.first = first]
        BY <4>1 DEF Redo
      <4>3. J \in MainType /\ J.phase = main.phase
        BY <1>1, JoiningType
      <4> HIDE DEF J, pass, first
      <4> QED
        BY <3>1, <4>2, <4>3 DEF MainType
    <3>3. CASE NextLevel
      <4>1. PICK k \in Zooms \cup {-1}, n \in ThreadCounts :
              main' = [Joining(k) EXCEPT !.z = ZoomOut(k) + 1, !.pass = 0, !.gamma = 0,
                                         !.drop = 0, !.first = FALSE, !.threads = n]
        BY <3>3, Zenon DEF NextLevel
      <4> DEFINE J == Joining(k)
                 y == ZoomOut(k) + 1
      <4>2. main' = [J EXCEPT !.z = y, !.pass = 0, !.gamma = 0, !.drop = 0, !.first = FALSE,
                              !.threads = n]
        BY <4>1
      <4>3. J \in MainType /\ J.phase = main.phase
        BY <1>1, JoiningType
      <4> HIDE DEF J, y
      <4> QED
        BY <3>1, <4>2, <4>3 DEF MainType
    <3> QED
      BY <1>4, <3>1, <3>2, <3>3
  <2>2. PICK z \in Zooms : LevelAt(z)
    BY <2>1 DEF LevelsInv, InLevel
  <2>3. \E y \in Zooms : LevelAt(y)'
    <3>1. CASE NextPass
      BY <1>1, <2>2, <3>1, LevelNextPass
    <3>2. CASE NextLevel
      BY <1>1, <2>1, <2>2, <3>2, LevelNextLevel DEF LevelsInv
    <3> QED
      BY <1>4, <3>1, <3>2
  <2>4. need' \in Needs
    BY <2>1 DEF LevelsInv
  <2> QED
    BY <1>2, <2>1, <2>3, <2>4
<1>5. ASSUME Return \/ ReturnFailed
      PROVE  LevelsInv'
  <2>1. /\ main'.phase # "pass" /\ Drawn' /\ need' \in Needs
        /\ CompleteThrough' /\ LeavesRespected' /\ ExtendedFarEnough'
    BY <1>5, LevelsReturn, LevelsReturnFailed
  <2>2. InLevel'
    BY <2>1 DEF InLevel
  <2> QED
    BY <1>1, <2>1, <2>2 DEF LevelsInv
<1>6. CASE UNCHANGED vars
  <2>1. UNCHANGED <<need, db, files, open, sub, skip, main, tasks, thread, log>>
    BY <1>6 DEF vars
  <2>2. CompleteThrough' /\ LeavesRespected' /\ ExtendedFarEnough' /\ Drawn' /\ need' \in Needs
    BY <2>1 DEF LevelsInv, CompleteThrough, Complete, Written, Covered, LeavesRespected, Finished,
                ExtendedFarEnough, Drawn
  <2>3. InLevel'
    <3> SUFFICES ASSUME main.phase = "pass" PROVE \E z \in Zooms : LevelAt(z)'
      BY <2>1 DEF InLevel
    <3>1. PICK z \in Zooms : LevelAt(z)
      BY DEF LevelsInv, InLevel
    <3>2. FilesOpen' /\ TasksTaken'
      <4>1. Joined' = Joined
        BY <2>1 DEF Joined
      <4> QED
        BY <2>1, <3>1, <4>1 DEF LevelAt, FilesOpen, TasksTaken, Reading, Useful, Finished
    <3>3. \A i \in Files : \A b \in DOMAIN files[i] : Behind(i, b)' => Behind(i, b)
      BY <2>1 DEF Behind
    <3> QED
      BY <1>1, <2>1, <3>1, <3>2, <3>3, LevelQuiet
  <2> QED
    BY <1>1, <2>2, <2>3 DEF LevelsInv
<1> QED
  BY <1>3, <1>4, <1>5, <1>6 DEF Next, MainStep, Over, ThreadStep

\* Every zoom that tippecanoe gives out is complete, unless it took three passes: no tile that
\* draws something is missing from it, other than below a tile that stands in for it, whatever
\* was dropped, done without, extended or skipped on the way down and however many threads
\* and temporary files the tiles of a zoom were spread over.
THEOREM CompletesZooms == Spec => []CompleteThrough
<1>1. LevelsInv => CompleteThrough
  BY DEF LevelsInv
<1> QED
  BY <1>1, LevelsInit, LevelsNext, PTL DEF Spec

\* A tile stands in for its descendants only in a zoom that drops nothing, and has some in the
\* tileset only where the zoom after it drops features.
THEOREM RespectsLeaves == Spec => []LeavesRespected
<1>1. LevelsInv => LeavesRespected
  BY DEF LevelsInv
<1> QED
  BY <1>1, LevelsInit, LevelsNext, PTL DEF Spec

\* Where zooms may always be added, the tileset ends with a zoom that drops nothing, or at
\* the deepest zoom there may be.
THEOREM ExtendsFarEnough == Spec => []ExtendedFarEnough
<1>1. LevelsInv => ExtendedFarEnough
  BY DEF LevelsInv
<1> QED
  BY <1>1, LevelsInit, LevelsNext, PTL DEF Spec

-----------------------------------------------------------------------------
(***************************************************************************)
(* The tileset grows by whole zooms                                        *)
(***************************************************************************)

\* What TileLevels sees.
Draws  == {t \in Data : need[t] >= 0}
Done   == {k \in Zooms : Finished(k)}
Shown  == {r.tile : r \in {q \in db : Finished(q.tile[1])}}
Leaves == UNION {log[k].leaves : k \in Zooms}

LEMMA GrowsInit == Init => Levels!Init
<1> SUFFICES ASSUME Init PROVE Levels!Init
  OBVIOUS
<1>1. db = {} /\ \A k \in Zooms : ~Finished(k) /\ log[k].leaves = {}
  BY DEF Init, Finished
<1> QED
  BY <1>1 DEF Levels!Init

\* Nothing is published while a zoom is in progress.
LEMMA GrowsQuiet ==
    ASSUME UniformInv, UNCHANGED <<need, log>>,
           \A r \in db : Finished(r.tile[1]) => r \in db',
           \A r \in db' : r \in db \/ ~Finished(r.tile[1])
    PROVE  UNCHANGED <<Draws, Done, Shown, Leaves>>
<1>1. UNCHANGED <<Draws, Done, Leaves>>
  BY DEF Draws, Done, Leaves, Finished
<1>2. {q \in db' : Finished(q.tile[1])'} = {q \in db : Finished(q.tile[1])}
  BY DEF Finished
<1>3. Shown' = Shown
  BY <1>2 DEF Shown
<1> QED
  BY <1>1, <1>3

\* What covers a tile stands in for it.
LEMMA CoveredIsStoodInFor ==
    ASSUME NEW t \in Data, Covered(t)
    PROVE  Levels!StoodInFor(t)
<1>1. PICK k \in Root[1] .. t[1] - 1 :
        /\ AncestorAt(t, k) \in log[k].leaves
        /\ \A i \in k + 1 .. t[1] - 1 : ~Written(AncestorAt(t, i))
  BY DEF Covered
<1>2. k \in 0 .. t[1] - 1 /\ k \in Zooms
  <2>1. t[1] \in Nat /\ Root[1] \in Nat /\ t[1] <= ZoomLimit /\ ZoomLimit \in Nat
    BY TileParts, Constants
  <2> QED
    BY <2>1 DEF Zooms
<1>3. AncestorAt(t, k) \in Leaves
  BY <1>1, <1>2 DEF Leaves
<1>4. \A i \in k + 1 .. t[1] - 1 : AncestorAt(t, i) \notin Shown
  BY <1>1 DEF Shown, Written
<1> QED
  BY <1>2, <1>3, <1>4 DEF Levels!StoodInFor, Levels!Above, AncestorAt, Leaves, Shown

\* The end of a zoom publishes it.
LEMMA GrowsFinish ==
    ASSUME OnceInv, need \in Needs, NEW z \in Zooms, LevelAt(z), NEW g \in 0 .. MaxGamma,
           NEW d \in 0 .. MaxDrop, NEW k \in Zooms \cup {-1}, Finishing(g, d, k)
    PROVE  Levels!Next
<1> DEFINE S == {r.tile : r \in {q \in db : q.tile[1] = z}}
<1>1. /\ TypeOK /\ ThreadLeaves(z) /\ Drawn /\ FilesOpen /\ ZoomsInOrder /\ AtLevel(z)
      /\ db' = db /\ need' = need
  BY DEF OnceInv, UniformInv, LevelAt, Finishing, Joins, AllDone
<1>2. /\ log'[z].leaves = SkipOut
      /\ \A i \in Zooms : i # z => log'[i] = log[i]
      /\ ~Finished(z) /\ Finished(z)' /\ \A r \in db : ~Finished(r.tile[1]) => r.tile[1] = z
      /\ \A l \in SkipOut : l \in Data /\ l[1] = z
      /\ log[z].leaves = {}
  <2>1. z \in Nat
    BY DEF Zooms
  <2> QED
    BY <2>1, FinishLog
<1>3. S \in SUBSET {t \in Draws : t[1] = z}
  BY <1>1, MainTypes DEF Draws, Drawn
<1>4. \A i \in Done : i < z
  <2>1. main.z \in Nat /\ main.z <= z /\ z \in Nat
    BY <1>1, MainTypes DEF AtLevel, Zooms
  <2> QED
    BY <1>1, <2>1 DEF Done, ZoomsInOrder, Zooms
<1>5. \A i \in Zooms : Finished(i)' <=> Finished(i) \/ i = z
  BY <1>2 DEF Finished
<1>6. Done' = Done \cup {z}
  BY <1>5 DEF Done
<1>7. Shown' = Shown \cup S
  <2>1. \A r \in db : r.tile[1] \in Zooms
    BY <1>1, MainTypes, TileParts
  <2>2. \A r \in db : Finished(r.tile[1])' <=> Finished(r.tile[1]) \/ r.tile[1] = z
    BY <1>5, <2>1
  <2>3. {q \in db' : Finished(q.tile[1])'} =
          {q \in db : Finished(q.tile[1])} \cup {q \in db : q.tile[1] = z}
    BY <1>1, <2>2
  <2> QED
    BY <2>3 DEF Shown
<1>8. Leaves \subseteq Leaves' /\ Leaves' \subseteq Leaves \cup S
  <2>1. ASSUME NEW i \in Zooms, NEW l \in log[i].leaves PROVE l \in Leaves'
    <3>1. i # z /\ log'[i] = log[i]
      BY <1>2, <2>1
    <3> QED
      BY <2>1, <3>1 DEF Leaves
  <2>2. ASSUME NEW i \in Zooms, NEW l \in log'[i].leaves PROVE l \in Leaves \cup S
    <3>1. CASE i = z
      <4>1. PICK w \in Threads : l \in thread[w].skipOut
        BY <1>1, <1>2, <2>2, <3>1, SkipOutType DEF SkipOut
      <4>2. l[1] = z /\ Written(l)
        BY <1>1, <4>1 DEF ThreadLeaves
      <4> QED
        BY <4>2 DEF Written
    <3>2. CASE i # z
      BY <1>2, <2>2, <3>2 DEF Leaves
    <3> QED
      BY <3>1, <3>2
  <2> QED
    BY <2>1, <2>2 DEF Leaves
<1>9. S = {} \/ \A t \in Draws \ S : t[1] = z => Levels!StoodInFor(t)
  <2>1. CASE main.pass = 2
    BY <1>1, <1>2, <2>1 DEF FilesOpen
  <2>2. CASE main.pass <= 1
    <3> SUFFICES ASSUME NEW t \in Draws \ S, t[1] = z PROVE Levels!StoodInFor(t)
      OBVIOUS
    <3>1. t \in Data /\ need[t] >= 0
      BY DEF Draws
    <3>2. Written(t) \/ Covered(t)
      BY <2>2, <3>1, FinishTreated
    <3>3. ~Written(t)
      BY DEF Written
    <3> QED
      BY <3>1, <3>2, <3>3, CoveredIsStoodInFor
  <2>3. main.pass = 2 \/ main.pass <= 1
    <3>1. main.pass \in 0 .. 2
      BY <1>1, MainTypes
    <3> HIDE DEF S
    <3> QED
      BY <3>1
  <2> QED
    BY <2>1, <2>2, <2>3, Zenon
<1>10. Draws' = Draws /\ z \in 0 .. ZoomLimit
  BY <1>1 DEF Draws, Zooms
<1> HIDE DEF S
<1>11. \A T : T = S => Levels!Publish(z, T)
  BY <1>4, <1>6, <1>7, <1>8, <1>9, <1>10 DEF Levels!Publish, Draws, Done, Shown, Leaves
<1>12. \A T : T = S => T \in SUBSET {t \in {u \in Data : need[u] >= 0} : t[1] = z}
  BY <1>3 DEF Draws
<1>13. \E T \in SUBSET {t \in {u \in Data : need[u] >= 0} : t[1] = z} : Levels!Publish(z, T)
  <2>1. PICK T : T = S
    OBVIOUS
  <2> QED
    BY <1>11, <1>12, <2>1
<1>14. \E j \in 0 .. ZoomLimit :
          \E T \in SUBSET {t \in {u \in Data : need[u] >= 0} : t[1] = j} : Levels!Publish(j, T)
  BY <1>10, <1>13, Zenon
<1> QED
  BY <1>14, Zenon DEF Levels!Next

LEMMA GrowsNext ==
    LevelsInv /\ [Next]_vars => [Levels!Next]_<<Draws, Done, Shown, Leaves>>
<1> SUFFICES ASSUME LevelsInv, [Next]_vars, ~UNCHANGED <<Draws, Done, Shown, Leaves>>
             PROVE  Levels!Next
  OBVIOUS
<1>1. OnceInv /\ UniformInv /\ TypeOK /\ need \in Needs
  BY DEF LevelsInv, OnceInv, UniformInv
<1>2. ASSUME NEW w \in Threads, ThreadStep(w) PROVE FALSE
  <2>1. UNCHANGED <<need, log>> /\ \A r \in db : r \in db'
    BY <1>2 DEF ThreadStep, TakeFile, NoMoreFiles, SkipTile, WriteTile, GiveUp, FailTile, CloseFile
  <2>2. \A r \in db' : r \in db \/ ~Finished(r.tile[1])
    <3>1. CASE WriteTile(w)
      <4>1. \A r \in db' : r \in db \/ r.tile = Current(w)
        BY <3>1 DEF WriteTile
      <4>2. ~Finished(Current(w)[1])
        <5>1. main.phase = "pass" /\ AtTile(w)
          BY <3>1 DEF WriteTile, AtTile, Tiling
        <5>2. thread[w].file \in Files /\ thread[w].pos \in DOMAIN files[thread[w].file]
          BY <1>1, <5>1, CurrentIsTile
        <5> QED
          BY <1>1, <5>1, <5>2, NotFinished DEF Current
      <4> QED
        BY <4>1, <4>2
    <3>2. CASE ~WriteTile(w)
      BY <1>2, <3>2 DEF ThreadStep, TakeFile, NoMoreFiles, SkipTile, GiveUp, FailTile, CloseFile
    <3> QED
      BY <3>1, <3>2
  <2> QED
    BY <1>1, <2>1, <2>2, GrowsQuiet
<1>3. CASE NextPass
  <2>1. PICK g \in 0 .. MaxGamma, d \in 0 .. MaxDrop, k \in Zooms \cup {-1} : Redo(g, d, k)
    BY <1>3 DEF NextPass
  <2>2. UNCHANGED <<need, log>> /\ Joins(g, d, k) /\ db' = Erased(ZoomOut(k))
    BY <2>1 DEF Redo
  <2>3. ~Finished(ZoomOut(k)) \/ ~(ZoomOut(k) \in Zooms)
    BY <1>1, <2>2, JoinsAll
  <2>4. \A r \in db : r.tile[1] \in Zooms
    BY <1>1, MainTypes, TileParts
  <2>5. /\ \A r \in db : Finished(r.tile[1]) => r \in db'
        /\ \A r \in db' : r \in db
    BY <2>2, <2>3, <2>4 DEF Erased
  <2>6. UNCHANGED <<Draws, Done, Shown, Leaves>>
    BY <1>1, <2>2, <2>5, GrowsQuiet
  <2> QED
    BY <2>6
<1>4. CASE ReturnFailed
  <2>1. UNCHANGED <<need, log, db>>
    BY <1>4 DEF ReturnFailed
  <2>2. UNCHANGED <<Draws, Done, Shown, Leaves>>
    BY <1>1, <2>1, GrowsQuiet
  <2> QED
    BY <2>2
<1>5. CASE NextLevel \/ Return
  <2>1. PICK g \in 0 .. MaxGamma, d \in 0 .. MaxDrop, k \in Zooms \cup {-1} :
          /\ Joins(g, d, k) /\ ~Raised(g, d) /\ ~FailedOut
          /\ log' = FinishedLog(k)
    BY <1>5, Zenon DEF NextLevel, Return
  <2>2. Finishing(g, d, k)
    BY <1>5, <2>1 DEF Finishing, NextLevel, Return
  <2>3. main.phase = "pass"
    BY <2>1 DEF Joins, AllDone
  <2>4. PICK z \in Zooms : LevelAt(z)
    BY <2>3 DEF LevelsInv, InLevel
  <2> QED
    BY <1>1, <2>2, <2>4, GrowsFinish
<1>6. CASE UNCHANGED vars
  BY <1>6 DEF vars, Draws, Done, Shown, Leaves, Finished
<1> QED
  BY <1>2, <1>3, <1>4, <1>5, <1>6 DEF Next, MainStep, Over

\* From outside, the tileset grows by whole zooms: every step of a thread is invisible there,
\* and the main thread's end of a zoom publishes it.
THEOREM Grows == Spec => GrowsByLevels
<1>1. LevelsInv /\ [Next]_vars
        => [Levels!Next]_<<{t \in Data : need[t] >= 0}, {k \in Zooms : Finished(k)},
                          {r.tile : r \in {q \in db : Finished(q.tile[1])}},
                          UNION {log[k].leaves : k \in Zooms}>>
  BY GrowsNext DEF Draws, Done, Shown, Leaves
<1> QED
  BY <1>1, GrowsInit, LevelsInit, LevelsNext, PTL DEF Spec, GrowsByLevels, Levels!Spec

=============================================================================
