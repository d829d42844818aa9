----------------------------- MODULE FilterPipe -----------------------------
(***************************************************************************)
(* The external filters of tile making: setup_filter(), run_writer(),      *)
(* filter_layers() and parse_layers() of plugin.cpp, and the same steps    *)
(* for the prefilter in write_tile() and run_prefilter() of tile.cpp.      *)
(*                                                                         *)
(* Each tile thread runs one filter after another.  A filter is a child    *)
(* process between two pipes of bounded capacity.  A writer thread feeds   *)
(* it while the tile thread reads what comes out, until the end of file,   *)
(* which comes when NO process has the writing end open any more: not even *)
(* a child that another tile thread forked meanwhile.                      *)
(***************************************************************************)
EXTENDS Naturals, Sequences

CONSTANTS
    Threads,        \* tile threads of run_thread()
    Calls,          \* how many filters each runs: for each tile a prefilter, which
                    \* has an odd number here, and then a postfilter
    Items,          \* the features that each tile begins with, as a sequence
    Capacity,       \* features that fit into a pipe
    Habits          \* what filter commands may do, a subset of AllHabits

AllHabits == {"copy", "sort", "head", "ignore"}

ASSUME CallAssumption == Calls \in [Threads -> Nat \ {0}]
ASSUME CapacityAssumption == Capacity \in Nat \ {0}
ASSUME HabitAssumption == Habits \subseteq AllHabits

Features == {Items[i] : i \in DOMAIN Items}
ASSUME ItemAssumption == Items \in Seq(Features)

Filters == UNION {{t} \X (1..Calls[t]) : t \in Threads}
Before(f) == <<f[1], f[2] - 1>>

NoOne == "no one"
ASSUME ThreadAssumption == NoOne \notin Threads
Program == <<"tippecanoe", 0>>
Processes == {Program} \cup Filters

\* The ends of the two pipes of f: pipe_orig goes to the filter, pipe_filtered
\* comes from it.
Orig(f) == <<f, "orig">>
Filtered(f) == <<f, "filtered">>
Pipes == Filters \X {"orig", "filtered"}
In(p) == <<p, "write">>
Out(p) == <<p, "read">>

VARIABLES
    lock,           \* pipe_lock
    setup,          \* how far setup_filter(), and then the reading, has come for f
    fds,            \* the pipe ends that each process has open
    cloexec,        \* those it has marked to be closed by exec
    queue,          \* what is in each pipe
    written,        \* features the writer of f has gone through
    writer,         \* the state of f's writer thread
    status,         \* of f's process
    habit,          \* what its command does
    held,           \* what f has read and not written
    got             \* what has been read from f

vars == <<lock, setup, fds, cloexec, queue, written, writer, status, habit, held, got>>

Ends == Pipes \X {"write", "read"}
Stages == {"idle", "locked", "piped", "forked", "reading", "closed", "waited", "returned"}

TypeOK ==
    /\ lock \in {NoOne} \cup Threads
    /\ setup \in [Filters -> Stages]
    /\ \A q \in Processes : cloexec[q] \subseteq Ends /\ fds[q] \subseteq Ends
    /\ \A p \in Pipes : Len(queue[p]) <= Capacity
    /\ writer \in [Filters -> {"none", "writing", "ended"}]
    /\ status \in [Filters -> {"none", "child", "running", "exited"}]
    /\ habit \in [Filters -> AllHabits \cup {"none"}]

Init ==
    /\ lock = NoOne
    /\ setup = [f \in Filters |-> "idle"]
    /\ fds = [q \in Processes |-> {}]
    /\ cloexec = [q \in Processes |-> {}]
    /\ queue = [p \in Pipes |-> <<>>]
    /\ written = [f \in Filters |-> 0]
    /\ writer = [f \in Filters |-> "none"]
    /\ status = [f \in Filters |-> "none"]
    /\ habit = [f \in Filters |-> "none"]
    /\ held = [f \in Filters |-> <<>>]
    /\ got = [f \in Filters |-> <<>>]

-----------------------------------------------------------------------------
(* setup_filter(), in the tile thread *)

\* A prefilter is fed with the features of the tile, a postfilter with what
\* the tile thread has left, here all that it got.
Input(f) == IF f[2] % 2 = 1 THEN Items ELSE got[Before(f)]

MayLock == lock = NoOne

Lock(f) ==
    /\ setup[f] = "idle"
    /\ f[2] > 1 => setup[Before(f)] = "returned"
    /\ MayLock
    /\ lock' = f[1]
    /\ setup' = [setup EXCEPT ![f] = "locked"]
    /\ UNCHANGED <<fds, cloexec, queue, written, writer, status, habit, held, got>>

MakePipes(f) ==
    /\ setup[f] = "locked"
    /\ setup' = [setup EXCEPT ![f] = "piped"]
    /\ fds' = [fds EXCEPT ![Program] = @ \cup {In(Orig(f)), Out(Orig(f)),
                                               In(Filtered(f)), Out(Filtered(f))}]
    /\ UNCHANGED <<lock, cloexec, queue, written, writer, status, habit, held, got>>

\* The child has a copy of everything that is open, marks included.
Fork(f) ==
    /\ setup[f] = "piped"
    /\ setup' = [setup EXCEPT ![f] = "forked"]
    /\ status' = [status EXCEPT ![f] = "child"]
    /\ fds' = [fds EXCEPT ![f] = fds[Program]]
    /\ cloexec' = [cloexec EXCEPT ![f] = cloexec[Program]]
    /\ UNCHANGED <<lock, queue, written, writer, habit, held, got>>

\* Wrong: the writing end to the filter is left for other children to inherit.
KeptUnmarked(f) == {Out(Filtered(f))}

Kept(f) == {In(Orig(f)), Out(Filtered(f))}

\* Closes the filter's ends, marks its own, lets go of the lock, and starts the
\* writer thread.
Unlock(f) ==
    /\ setup[f] = "forked"
    /\ setup' = [setup EXCEPT ![f] = "reading"]
    /\ fds' = [fds EXCEPT ![Program] = @ \ {Out(Orig(f)), In(Filtered(f))}]
    /\ cloexec' = [cloexec EXCEPT ![Program] = @ \cup Kept(f)]
    /\ lock' = NoOne
    /\ writer' = [writer EXCEPT ![f] = "writing"]
    /\ UNCHANGED <<queue, written, status, habit, held, got>>

-----------------------------------------------------------------------------
(* The child, and the command that it turns into *)

\* The child moves its two ends to its standard input and output, closes the
\* other two, and exec closes what is marked.
Exec(f) ==
    /\ status[f] = "child"
    /\ status' = [status EXCEPT ![f] = "running"]
    /\ \E h \in Habits : habit' = [habit EXCEPT ![f] = h]
    /\ fds' = [fds EXCEPT ![f] = (@ \ cloexec[f]) \ {In(Orig(f)), Out(Filtered(f))}]
    /\ cloexec' = [cloexec EXCEPT ![f] = {}]
    /\ UNCHANGED <<lock, setup, queue, written, writer, held, got>>

AtEnd(p) == queue[p] = <<>> /\ \A q \in Processes : In(p) \notin fds[q]
Broken(p) == \A q \in Processes : Out(p) \notin fds[q]

Output(f) == Len(got[f]) + Len(queue[Filtered(f)])

\* Reads one feature: unless it ignores its input, or has had its first.
FilterReads(f) ==
    /\ status[f] = "running"
    /\ habit[f] # "ignore"
    /\ habit[f] = "copy" => held[f] = <<>>
    /\ habit[f] = "head" => held[f] = <<>> /\ Output(f) = 0
    /\ queue[Orig(f)] # <<>>
    /\ held' = [held EXCEPT ![f] = Append(@, Head(queue[Orig(f)]))]
    /\ queue' = [queue EXCEPT ![Orig(f)] = Tail(@)]
    /\ UNCHANGED <<lock, setup, fds, cloexec, written, writer, status, habit, got>>

\* A sort has nothing to say before the end of its input.
FilterWrites(f) ==
    /\ status[f] = "running"
    /\ held[f] # <<>>
    /\ habit[f] = "sort" => AtEnd(Orig(f))
    /\ Len(queue[Filtered(f)]) < Capacity
    /\ queue' = [queue EXCEPT ![Filtered(f)] = Append(@, Head(held[f]))]
    /\ held' = [held EXCEPT ![f] = Tail(@)]
    /\ UNCHANGED <<lock, setup, fds, cloexec, written, writer, status, habit, got>>

FilterExits(f) ==
    /\ status[f] = "running"
    /\ held[f] = <<>>
    /\ \/ AtEnd(Orig(f))
       \/ habit[f] = "head" /\ Output(f) > 0
       \/ habit[f] = "ignore"
    /\ status' = [status EXCEPT ![f] = "exited"]
    /\ fds' = [fds EXCEPT ![f] = {}]
    /\ UNCHANGED <<lock, setup, cloexec, queue, written, writer, habit, held, got>>

-----------------------------------------------------------------------------
(* The writer thread: run_writer(), run_prefilter() *)

WriteOut(f) ==
    /\ writer[f] = "writing"
    /\ written[f] < Len(Input(f))
    /\ ~Broken(Orig(f))
    /\ Len(queue[Orig(f)]) < Capacity
    /\ queue' = [queue EXCEPT ![Orig(f)] = Append(@, Input(f)[written[f] + 1])]
    /\ written' = [written EXCEPT ![f] = @ + 1]
    /\ UNCHANGED <<lock, setup, fds, cloexec, writer, status, habit, held, got>>

\* SIGPIPE is ignored (main.cpp:3695), and so are errors before fclose(), so the
\* writer goes on through the features, which for a prefilter are on their way
\* to the next zoom level too.
WriteBroken(f) ==
    /\ writer[f] = "writing"
    /\ written[f] < Len(Input(f))
    /\ Broken(Orig(f))
    /\ written' = [written EXCEPT ![f] = @ + 1]
    /\ UNCHANGED <<lock, setup, fds, cloexec, queue, writer, status, habit, held, got>>

WriterDone(f) == written[f] = Len(Input(f))

\* fclose(), which only warns of a broken pipe.
CloseWriter(f) ==
    /\ writer[f] = "writing"
    /\ WriterDone(f)
    /\ writer' = [writer EXCEPT ![f] = "ended"]
    /\ fds' = [fds EXCEPT ![Program] = @ \ {In(Orig(f))}]
    /\ UNCHANGED <<lock, setup, cloexec, queue, written, status, habit, held, got>>

-----------------------------------------------------------------------------
(* The tile thread again: parse_layers() or parse_feature(), and the end of it *)

\* Wrong: everything is written before anything is read.
MayReadWritten(f) == setup[f] = "reading" /\ writer[f] = "ended"

MayRead(f) == setup[f] = "reading"

ReadBack(f) ==
    /\ MayRead(f)
    /\ queue[Filtered(f)] # <<>>
    /\ got' = [got EXCEPT ![f] = Append(@, Head(queue[Filtered(f)]))]
    /\ queue' = [queue EXCEPT ![Filtered(f)] = Tail(@)]
    /\ UNCHANGED <<lock, setup, fds, cloexec, written, writer, status, habit, held>>

CloseReader(f) ==
    /\ MayRead(f)
    /\ AtEnd(Filtered(f))
    /\ setup' = [setup EXCEPT ![f] = "closed"]
    /\ fds' = [fds EXCEPT ![Program] = @ \ {Out(Filtered(f))}]
    /\ UNCHANGED <<lock, cloexec, queue, written, writer, status, habit, held, got>>

\* waitpid()
Wait(f) ==
    /\ setup[f] = "closed"
    /\ status[f] = "exited"
    /\ setup' = [setup EXCEPT ![f] = "waited"]
    /\ UNCHANGED <<lock, fds, cloexec, queue, written, writer, status, habit, held, got>>

\* Wrong: the writer is left behind.
JoinedAnyway(f) == TRUE

Joined(f) == writer[f] = "ended"

\* pthread_join(), after which the locals that the writer used may go.
Join(f) ==
    /\ setup[f] = "waited"
    /\ Joined(f)
    /\ setup' = [setup EXCEPT ![f] = "returned"]
    /\ UNCHANGED <<lock, fds, cloexec, queue, written, writer, status, habit, held, got>>

-----------------------------------------------------------------------------

TileThread(t) ==
    \E n \in 1..Calls[t] :
        LET f == <<t, n>>
        IN  \/ Lock(f) \/ MakePipes(f) \/ Fork(f) \/ Unlock(f)
            \/ ReadBack(f) \/ CloseReader(f) \/ Wait(f) \/ Join(f)

WriterThread(f) == WriteOut(f) \/ WriteBroken(f) \/ CloseWriter(f)

Filter(f) == Exec(f) \/ FilterReads(f) \/ FilterWrites(f) \/ FilterExits(f)

Next ==
    \/ \E t \in Threads : TileThread(t)
    \/ \E f \in Filters : WriterThread(f) \/ Filter(f)

Spec == Init /\ [][Next]_vars

Fairness ==
    /\ \A t \in Threads : WF_vars(TileThread(t))
    /\ \A f \in Filters : WF_vars(WriterThread(f)) /\ WF_vars(Filter(f))

FairSpec == Spec /\ Fairness

-----------------------------------------------------------------------------

\* A filter that runs has its own two ends open and no other.  If it kept the
\* writing end of another's input, that one would not come to the end of its
\* input before this one exits (setup_filter(): the lock, FD_CLOEXEC).
OwnEndsOnly ==
    \A f \in Filters :
        status[f] = "running" => fds[f] = {Out(Orig(f)), In(Filtered(f))}

\* What the command makes of its input.
Expected(f) ==
    CASE habit[f] = "ignore" -> <<>>
      [] habit[f] = "head" /\ Input(f) # <<>> -> <<Head(Input(f))>>
      [] OTHER -> Input(f)

\* When a filter's call has returned, its writer has been through all the
\* features, even those the filter did not want to see, and what was read is
\* what the filter wrote: all of it, in order, whatever fits into a pipe; and
\* tippecanoe has none of its pipes open any more.
AllThrough ==
    \A f \in Filters : setup[f] = "returned" =>
        /\ writer[f] = "ended" /\ written[f] = Len(Input(f))
        /\ got[f] = Expected(f)
        /\ \A p \in {Orig(f), Filtered(f)} : {In(p), Out(p)} \cap fds[Program] = {}

\* What a filter has to do with its pipes, and tippecanoe with the filter.
PassedOn == TypeOK /\ OwnEndsOnly /\ AllThrough

\* Every filter returns, though its pipes are smaller than what goes through
\* them and the other tile threads fork at any moment.
Terminates == <>(\A f \in Filters : setup[f] = "returned")

=============================================================================
